-------------------------- MODULE MCScreensProofs ---------------------------
(* Properties of the run Screens as theorems: the gate of every spend, the    *)
(* panels, the names, the markets, the address book, the watched identities,  *)
(* pages that race, a basket that is launched and an identity that changes.   *)
(*                                                                            *)
(* A behaviour is that of one part, so an invariant is one implication for    *)
(* each part, and PartStep gives each part its own step.                      *)
EXTENDS MCScreens, FiniteSetTheorems, WellFoundedInduction, TLAPS

\* A step is one of the part whose behaviour it is.
LEMMA PartStep ==
    ASSUME [Next]_vars
    PROVE  /\ part' = part
           /\ part = "panels" => [P!Next]_(P!vars)
           /\ part = "names" => [N!Next]_(N!vars)
           /\ part = "markets" => [K!Next]_(K!vars)
           /\ part = "gate" => [V!Next]_(V!vars)
           /\ part = "contacts" => [A!Next]_(A!vars)
           /\ part = "dies" => [B!Next]_(B!vars)
           /\ part = "watched" => [I!Next]_(I!vars)
           /\ part = "races" => [R!Next]_(R!vars)
           /\ part = "basket" => [C!Next]_(C!vars)
           /\ part = "life" => [L!Next]_(L!vars)
<1>1. CASE UNCHANGED vars
  BY <1>1 DEF vars, slots, P!vars, N!vars, K!vars, V!vars, A!vars, B!vars, I!vars, R!vars,
     C!vars, L!vars, L!Form, L!Claiming, L!Window
<1>2. CASE Next
  BY <1>2 DEF Next
<1> QED
  BY <1>1, <1>2

\* A behaviour starts as that part does.
LEMMA PartInit ==
    ASSUME Init
    PROVE  /\ part = "panels" => P!Init
           /\ part = "names" => N!Init
           /\ part = "markets" => K!Init
           /\ part = "gate" => V!Init
           /\ part = "contacts" => A!Init
           /\ part = "dies" => B!Init
           /\ part = "races" => R!Init
           /\ part = "basket" => C!Init
           /\ part = "life" => L!Init
  BY DEF Init

-----------------------------------------------------------------------------
(* The gate: s1 is the requested chain, s2 the nodes, s4 the arm, s5 the answers  *)
(* on their way, s7 what the endpoints said, s8 the permits.                      *)
(* What a permit rests on are beliefs about nodes, *)
(* and what those rest on are answers: so the invariant follows a name from  *)
(* the endpoint that said it, through a probe that may be late, to a node    *)
(* that is Online.                                                           *)

\* An answer on its way names the chain of the endpoint that gave it, and is
\* remembered if it was credible.
AnswersTrue ==
    \A p \in s5 : p.reply.kind = "info" =>
        /\ p.reply.name = p.from[1]
        /\ V!Identified(p.reply) => p.reply.name \in s7[p.from]

\* A node is Online only when the endpoint in its place now has named the chain
\* the wallet is set to.  A late answer of another chain's endpoint is no
\* exception: what it names is the other chain.
OnlineTrue ==
    \A q \in ShippedPlaces : s2[q].status = "online" =>
        /\ s2[q].network = s1
        /\ s1 \in s7[<<s1, q>>]

GateInv ==
    /\ V!TypeOK
    /\ V!ArmNamesChain
    /\ AnswersTrue
    /\ OnlineTrue
    /\ V!PermitsArmed
    /\ V!PermitsBorneOut

LEMMA GateConstants ==
    /\ Worthless \subseteq Network /\ Pinned \subseteq Network /\ Nameless \subseteq Network
    /\ FirstNetwork \in Network /\ NoChain \notin Network /\ ShippedPlaces # {} /\ MaxProbes \in Nat
  BY ScreensAssumption DEF V!ChainsAssumption

LEMMA GateInit == V!Init => GateInv
<1> SUFFICES ASSUME V!Init PROVE GateInv
  OBVIOUS
<1>1. s2 \in [ShippedPlaces -> V!NodeView]
  BY DEF V!Init, V!Fresh, V!NodeView, V!Status
<1>2. \A q \in ShippedPlaces : s2[q].status # "online"
  BY DEF V!Init, V!Fresh
<1>3. s7 \in [V!Endpoint -> SUBSET Network]
  BY DEF V!Init
<1> QED
  BY <1>1, <1>2, <1>3, GateConstants
  DEF V!Init, GateInv, V!TypeOK, V!ArmNamesChain, AnswersTrue, OnlineTrue, V!PermitsArmed,
      V!PermitsBorneOut

LEMMA FreshTyped ==
    /\ V!Fresh \in [ShippedPlaces -> V!NodeView]
    /\ \A q \in ShippedPlaces : V!Fresh[q].status # "online"
BY DEF V!Fresh, V!NodeView, V!Status

LEMMA GateNext == GateInv /\ [V!Next]_(V!vars) => GateInv'
<1> SUFFICES ASSUME GateInv, [V!Next]_(V!vars) PROVE GateInv'
  OBVIOUS
<1> USE GateConstants
<1>1. ASSUME NEW p \in ShippedPlaces, V!SelectNode(p) PROVE GateInv'
  BY <1>1 DEF V!SelectNode, GateInv, V!TypeOK, V!ArmNamesChain, AnswersTrue, OnlineTrue,
              V!PermitsArmed, V!PermitsBorneOut
<1>2. ASSUME NEW p \in ShippedPlaces, NEW reply \in V!Reply, V!Ask(p, reply) PROVE GateInv'
  <2> DEFINE from == <<s1, p>>
             asked == [from |-> from, reply |-> reply]
  <2>1. from \in V!Endpoint /\ from[1] = s1
    BY DEF GateInv, V!TypeOK, V!Endpoint
  <2>2. asked \in V!Probe /\ asked.from = from /\ asked.reply = reply
    BY <2>1 DEF V!Probe
  <2>3. s5' = s5 \cup {asked}
    BY <1>2 DEF V!Ask
  <2>4. /\ s7' = IF reply.kind = "info" /\ V!Identified(reply)
                   THEN [s7 EXCEPT ![from] = @ \cup {reply.name}] ELSE s7
        /\ reply.kind = "info" => reply.name = s1
    BY <1>2 DEF V!Ask
  <2> HIDE DEF asked, from
  <2>5. /\ s7' \in [V!Endpoint -> SUBSET Network]
        /\ \A e \in V!Endpoint : s7[e] \subseteq s7'[e]
        /\ reply.kind = "info" /\ V!Identified(reply) => reply.name \in s7'[from]
    BY <2>1, <2>4 DEF GateInv, V!TypeOK
  <2>6. UNCHANGED <<s1, s2, s3, s4, s6, s8>>
    BY <1>2 DEF V!Ask
  <2>7. V!TypeOK'
    BY <2>2, <2>3, <2>5, <2>6 DEF GateInv, V!TypeOK
  <2>8. AnswersTrue'
    BY <2>1, <2>2, <2>3, <2>4, <2>5 DEF GateInv, V!TypeOK, AnswersTrue, V!Probe, V!Identified
  <2>9. OnlineTrue'
    BY <2>5, <2>6 DEF GateInv, V!TypeOK, OnlineTrue, V!Endpoint
  <2>10. V!PermitsBorneOut'
    BY <2>5, <2>6 DEF GateInv, V!TypeOK, V!PermitsBorneOut, V!Permit
  <2>11. V!ArmNamesChain' /\ V!PermitsArmed'
    BY <2>6 DEF GateInv, V!ArmNamesChain, V!PermitsArmed
  <2> QED
    BY <2>7, <2>8, <2>9, <2>10, <2>11 DEF GateInv
<1>3. ASSUME NEW p \in s5, V!Answer(p) PROVE GateInv'
  <2> DEFINE q == p.from[2]
             view == IF p.reply.kind = "info" THEN V!AfterSuccess(p.reply)
                     ELSE V!AfterFailure(s2[q], p.reply.kind)
  <2>1. /\ p \in V!Probe
        /\ p.from \in V!Endpoint
        /\ p.reply \in V!Reply
        /\ q \in ShippedPlaces
        /\ p.from = <<p.from[1], q>>
    BY DEF GateInv, V!TypeOK, V!Probe, V!Endpoint
  <2>2. /\ s2' = [s2 EXCEPT ![q] = view]
        /\ s5' = s5 \ {p}
        /\ UNCHANGED <<s1, s3, s4, s6, s7, s8>>
    BY <1>3 DEF V!Answer
  <2>3. view \in V!NodeView
    <3>1. CASE p.reply.kind = "info"
      <4>1. p.reply.name \in Network
        BY <2>1, <3>1 DEF V!Reply
      <4> QED
        BY <3>1, <4>1 DEF V!AfterSuccess, V!NodeView, V!Status
    <3>2. CASE p.reply.kind # "info"
      BY <2>1, <3>2 DEF V!AfterFailure, V!NodeView, V!Status, GateInv, V!TypeOK
    <3> QED
      BY <3>1, <3>2
  <2>4. view.status = "online" =>
            /\ view.network = s1
            /\ s1 \in s7[<<s1, q>>]
    <3> SUFFICES ASSUME view.status = "online"
                 PROVE  /\ view.network = s1
                        /\ s1 \in s7[<<s1, q>>]
      OBVIOUS
    <3>1. p.reply.kind = "info"
      BY <2>1 DEF V!AfterFailure, GateInv, V!TypeOK, V!NodeView
    <3>2. /\ V!Identified(p.reply)
          /\ p.reply.name = s1
          /\ view.network = p.reply.name
      BY <3>1 DEF V!AfterSuccess
    <3>3. /\ p.reply.name = p.from[1]
          /\ p.reply.name \in s7[p.from]
      BY <3>1, <3>2 DEF GateInv, AnswersTrue
    <3> QED
      BY <2>1, <3>2, <3>3
  <2> HIDE DEF view, q
  <2>5. V!TypeOK'
    BY <2>1, <2>2, <2>3 DEF GateInv, V!TypeOK
  <2>6. OnlineTrue'
    BY <2>1, <2>2, <2>4 DEF GateInv, V!TypeOK, OnlineTrue
  <2>7. AnswersTrue'
    BY <2>2 DEF GateInv, AnswersTrue, V!Identified
  <2>8. V!ArmNamesChain' /\ V!PermitsArmed' /\ V!PermitsBorneOut'
    BY <2>2 DEF GateInv, V!ArmNamesChain, V!PermitsArmed, V!PermitsBorneOut
  <2> QED
    BY <2>5, <2>6, <2>7, <2>8 DEF GateInv
<1>4. ASSUME NEW typed \in Network, V!Arm(typed) PROVE GateInv'
  BY <1>4 DEF V!Arm, GateInv, V!TypeOK, V!ArmNamesChain, AnswersTrue, OnlineTrue,
              V!PermitsArmed, V!PermitsBorneOut, V!Identified
<1>5. ASSUME V!Disarm PROVE GateInv'
  BY <1>5 DEF V!Disarm, GateInv, V!TypeOK, V!ArmNamesChain, AnswersTrue, OnlineTrue,
              V!PermitsArmed, V!PermitsBorneOut, V!Identified
<1>6. ASSUME NEW c \in Network, V!SwitchNetwork(c) PROVE GateInv'
  BY <1>6, FreshTyped
  DEF V!SwitchNetwork, GateInv, V!TypeOK, V!ArmNamesChain, AnswersTrue, OnlineTrue,
      V!PermitsArmed, V!PermitsBorneOut, V!Identified
<1>7. ASSUME V!Restart PROVE GateInv'
  BY <1>7, FreshTyped
  DEF V!Restart, GateInv, V!TypeOK, V!ArmNamesChain, AnswersTrue, OnlineTrue,
      V!PermitsArmed, V!PermitsBorneOut, V!Identified
<1>8. ASSUME V!Spend PROVE GateInv'
  <2> DEFINE permit == [network  |-> s2[s3].network,
                        endpoint |-> <<s1, s3>>,
                        word     |-> IF s4 THEN s6 ELSE NoChain]
  <2>1. /\ s8' = s8 \cup {permit}
        /\ UNCHANGED <<s1, s2, s3, s4, s5, s6, s7>>
    BY <1>8 DEF V!Spend
  <2>2. /\ permit.network = s2[s3].network
        /\ permit.endpoint = <<s1, s3>>
        /\ permit.word = IF s4 THEN s6 ELSE NoChain
    OBVIOUS
  <2>3. /\ s2[s3].status = "online"
        /\ s2[s3].network = s1
        /\ s2[s3].network \in Worthless \/ s4
    BY <1>8 DEF V!Spend, V!Permitted
  <2>4. permit \in V!Permit
    BY <2>3 DEF GateInv, V!TypeOK, V!Permit, V!Endpoint
  <2> HIDE DEF permit
  <2>5. permit.network \in Worthless \/ permit.word = permit.network
    BY <2>2, <2>3 DEF GateInv, V!ArmNamesChain
  <2>6. permit.network \in s7[permit.endpoint]
    BY <2>2, <2>3 DEF GateInv, V!TypeOK, OnlineTrue
  <2>7. V!PermitsArmed' /\ V!PermitsBorneOut'
    BY <2>1, <2>5, <2>6 DEF GateInv, V!PermitsArmed, V!PermitsBorneOut
  <2>8. V!TypeOK'
    BY <2>1, <2>4 DEF GateInv, V!TypeOK
  <2>9. V!ArmNamesChain' /\ AnswersTrue' /\ OnlineTrue'
    BY <2>1 DEF GateInv, V!ArmNamesChain, AnswersTrue, OnlineTrue, V!Identified
  <2> QED
    BY <2>7, <2>8, <2>9 DEF GateInv
<1>9. CASE UNCHANGED V!vars
  BY <1>9 DEF V!vars, GateInv, V!TypeOK, V!ArmNamesChain, AnswersTrue, OnlineTrue,
              V!PermitsArmed, V!PermitsBorneOut, V!Identified
<1> QED
  BY <1>1, <1>2, <1>3, <1>4, <1>5, <1>6, <1>7, <1>8, <1>9 DEF V!Next

GateIs == part = "gate" => GateInv

\* In the part of the gate, its invariant is one.
LEMMA GateAlways == Spec => []GateIs
<1>1. Init => GateIs
  BY PartInit, GateInit DEF GateIs
<1>2. GateIs /\ [Next]_vars => GateIs'
  <2> SUFFICES ASSUME GateIs, [Next]_vars, part' = "gate" PROVE GateInv'
    BY DEF GateIs
  <2> QED
    BY PartStep, GateNext DEF GateIs
<1> QED
  BY <1>1, <1>2, PTL DEF Spec

\* Spending is on only for the chain whose name was typed to turn it on, also
\* after any number of changes of chain.
THEOREM ArmStaysOnItsChain == Spec => []ArmNamesChain
<1>1. GateIs => ArmNamesChain
  BY DEF GateIs, GateInv, ArmNamesChain
<1> QED
  BY GateAlways, <1>1, PTL

\* No permit for a chain that may be real money without that chain's own name.
THEOREM NoUnarmedPermit == Spec => []PermitsArmed
<1>1. GateIs => PermitsArmed
  BY DEF GateIs, GateInv, PermitsArmed
<1> QED
  BY GateAlways, <1>1, PTL

\* No permit through an endpoint that has not itself named the chain, however
\* late the answers of other endpoints are.
THEOREM NoBorrowedIdentity == Spec => []PermitsBorneOut
<1>1. GateIs => PermitsBorneOut
  BY DEF GateIs, GateInv, PermitsBorneOut
<1> QED
  BY GateAlways, <1>1, PTL

-----------------------------------------------------------------------------
(* Sequences *)

\* What is left of a queue when its head is taken.
LEMMA Taken ==
    ASSUME NEW Set, NEW queue \in Seq(Set), queue # <<>>
    PROVE  /\ Head(queue) \in Set /\ Head(queue) = queue[1] /\ 1 \in 1 .. Len(queue)
           /\ Tail(queue) \in Seq(Set)
           /\ \A q \in 1 .. Len(Tail(queue)) :
                q + 1 \in 1 .. Len(queue) /\ Tail(queue)[q] = queue[q + 1]
  OBVIOUS

\* What a queue holds when something is added to it.
LEMMA Added ==
    ASSUME NEW Set, NEW queue \in Seq(Set), NEW new \in Set
    PROVE  /\ Append(queue, new) \in Seq(Set) /\ Len(Append(queue, new)) = Len(queue) + 1
           /\ \A q \in 1 .. Len(queue) : Append(queue, new)[q] = queue[q]
           /\ Append(queue, new)[Len(queue) + 1] = new
           /\ Len(queue) \in Nat
  OBVIOUS

\* What is said, one thing after another.
LEMMA Said ==
    ASSUME NEW Set, NEW queue \in Seq(Set), NEW more \in Seq(Set)
    PROVE  /\ queue \o more \in Seq(Set)
           /\ \A q \in 1 .. Len(queue \o more) :
                \/ q \in 1 .. Len(queue) /\ (queue \o more)[q] = queue[q]
                \/ \E u \in 1 .. Len(more) : (queue \o more)[q] = more[u]
<1>1. /\ queue \o more \in Seq(Set) /\ Len(queue) \in Nat /\ Len(more) \in Nat
      /\ Len(queue \o more) = Len(queue) + Len(more)
  OBVIOUS
<1>2. ASSUME NEW q \in 1 .. Len(queue \o more), q \notin 1 .. Len(queue)
      PROVE  \E u \in 1 .. Len(more) : (queue \o more)[q] = more[u]
  <2>1. q - Len(queue) \in 1 .. Len(more) /\ (queue \o more)[q] = more[q - Len(queue)]
    BY <1>1, <1>2
  <2> QED
    BY <2>1
<1>3. ASSUME NEW q \in 1 .. Len(queue) PROVE (queue \o more)[q] = queue[q]
  BY <1>1
<1> QED
  BY <1>1, <1>2, <1>3

-----------------------------------------------------------------------------
(* The panels: s1 is what each shows, s2 the ticket it shows, s5 the commands and  *)
(* s6 the events under way, s7 the last ticket, s8 what is held, s9 the jobs, s13  *)
(* the reviews somebody said yes to, s15 what was handed to a node.                *)
(*                                                                            *)
(* A ticket is given out once, and goes from what is being built to what is    *)
(* held to what was sent: it is in one place at a time. What was sent was asked *)
(* for by a command, which a press put in the queue after it marked the review. *)

\* Every ticket that is about was given out.
GivenOut ==
    /\ \A h \in s8 : h.ticket \in 1 .. s7
    /\ \A b \in s9 : b.ticket \in 1 .. s7
    /\ \A q \in 1 .. Len(s15) : s15[q].ticket \in 1 .. s7

\* What is announced has a ticket, and what failed a panel.
Announced ==
    \A q \in 1 .. Len(s6) : /\ s6[q].say = "review" => s6[q].ticket # 0
                            /\ s6[q].say = "failed" => s6[q].panel \in Panels

\* What a job works on.
Of(b) == [panel |-> b.panel, ticket |-> b.ticket]

\* A ticket is in one place.
InOnePlace ==
    /\ \A q \in 1 .. Len(s15) : s15[q] \notin s8
    /\ \A b \in s9 : b.do = "build" =>
        Of(b) \notin s8 /\ \A q \in 1 .. Len(s15) : s15[q] # Of(b)

\* What a command asks to be sent, somebody said yes to.
PressedFor ==
    \A q \in 1 .. Len(s5) : /\ s5[q].do = "confirm" => Of(s5[q]) \in s13
                            /\ s5[q].do # "switch" => s5[q].panel \in Panels

PanelsInv ==
    P!TypeOK /\ GivenOut /\ Announced /\ InOnePlace /\ PressedFor /\ P!SentWasShown /\ P!SentOnce

LEMMA PanelsConstants ==
    /\ Panels \subseteq {"send", "convert", "launch", "change"}
    /\ MaxTickets \in Nat /\ MaxKept \in Nat /\ MaxSwitches \in Nat /\ MaxQueue \in Nat
  BY ScreensAssumption DEF P!PanelsAssumption

LEMMA PanelsInit == ASSUME P!Init PROVE PanelsInv
<1>1. /\ s1 = [p \in Panels |-> "form"] /\ s2 = [p \in Panels |-> 0] /\ s3 = {} /\ s4 = {}
      /\ s5 = <<>> /\ s6 = <<>> /\ s7 = 0 /\ s8 = {} /\ s9 = {} /\ s10 = FALSE
      /\ s11 = 0 /\ s12 = 0 /\ s13 = {} /\ s14 = {} /\ s15 = <<>>
  BY DEF P!Init
<1>2. P!TypeOK
  <2>1. s1 \in [Panels -> P!Step] /\ s2 \in [Panels -> P!Ticket] /\ s7 \in P!Ticket
    BY <1>1, PanelsConstants DEF P!Step, P!Ticket
  <2>2. s5 \in Seq(P!Command) /\ s6 \in Seq(P!Event) /\ s15 \in Seq(P!Held)
    BY <1>1
  <2>3. \A p \in Panels : s1[p] = "review" => s2[p] # 0
    BY <1>1
  <2>4. /\ s3 \subseteq Panels /\ s4 \subseteq Panels /\ s8 \subseteq P!Held /\ s9 \subseteq P!Job
        /\ s10 \in BOOLEAN /\ s11 \in 0 .. MaxKept /\ s12 \in 0 .. MaxSwitches
        /\ s13 \subseteq P!Held /\ s14 \subseteq P!Held
    <3>1. 0 \in 0 .. MaxKept /\ 0 \in 0 .. MaxSwitches
      BY PanelsConstants
    <3>2. /\ s3 = {} /\ s4 = {} /\ s8 = {} /\ s9 = {} /\ s10 = FALSE
          /\ s11 = 0 /\ s12 = 0 /\ s13 = {} /\ s14 = {}
      BY <1>1
    <3> QED
      BY ONLY <3>1, <3>2
  <2> QED
    BY <2>1, <2>2, <2>3, <2>4 DEF P!TypeOK
<1> QED
  BY <1>1, <1>2
  DEF PanelsInv, GivenOut, Announced, InOnePlace, PressedFor, P!SentWasShown, P!SentOnce

\* A press that asks for something other than to send, or asks to send what is shown.
LEMMA Pressed ==
    ASSUME PanelsInv, NEW do \in {"prepare", "confirm", "cancel", "switch"},
           NEW p \in Panels \cup {"none"}, NEW t \in P!Ticket, P!Dispatch(do, p, t),
           s13 \subseteq s13', do # "switch" => p \in Panels, do = "confirm" => [panel |-> p, ticket |-> t] \in s13'
    PROVE  s5' \in Seq(P!Command) /\ PressedFor'
<1> DEFINE new == [do |-> do, panel |-> p, ticket |-> t]
<1>1. /\ s5' = Append(s5, new) /\ new \in P!Command /\ s5 \in Seq(P!Command)
      /\ new.do = do /\ new.panel = p /\ Of(new) = [panel |-> p, ticket |-> t]
  BY DEF P!Dispatch, P!Command, PanelsInv, P!TypeOK, Of
<1> HIDE DEF new
<1>2. /\ s5' \in Seq(P!Command) /\ Len(s5') = Len(s5) + 1 /\ Len(s5) \in Nat
      /\ \A q \in 1 .. Len(s5) : s5'[q] = s5[q]
      /\ s5'[Len(s5) + 1] = new
  BY <1>1, Added
<1>3. ASSUME NEW q \in 1 .. Len(s5')
      PROVE  /\ s5'[q].do = "confirm" => Of(s5'[q]) \in s13'
             /\ s5'[q].do # "switch" => s5'[q].panel \in Panels
  <2>1. CASE q \in 1 .. Len(s5)
    BY <2>1, <1>2, <1>3 DEF PanelsInv, PressedFor
  <2>2. CASE q = Len(s5) + 1
    BY <2>2, <1>1, <1>2, <1>3
  <2> QED
    BY <2>1, <2>2, <1>2
<1> QED
  BY <1>2, <1>3 DEF PressedFor, Of

\* A press leaves the core, and what was sent, as it is.
LEMMA AllElse ==
    ASSUME PanelsInv, s6' = s6, s7' = s7, s8' = s8, s9' = s9, s15' = s15, s13 \subseteq s13'
    PROVE  GivenOut' /\ Announced' /\ InOnePlace' /\ P!SentWasShown' /\ P!SentOnce'
  BY DEF PanelsInv, GivenOut, Announced, InOnePlace, P!SentWasShown, P!SentOnce, Of

LEMMA PressReviews ==
    ASSUME PanelsInv, NEW p \in Panels, P!PressReview(p) PROVE PanelsInv'
<1>1. /\ P!Dispatch("prepare", p, 0)
      /\ s4' = IF p \in {"send", "convert"} THEN s4 \ {p} ELSE s4
      /\ s1' = s1 /\ s2' = s2 /\ s3' = s3 /\ s6' = s6
      /\ UNCHANGED <<s7, s8, s9, s10, s11, s12>> /\ UNCHANGED <<s13, s14, s15>>
  BY DEF P!PressReview, P!core, P!history
<1>2. s5' \in Seq(P!Command) /\ PressedFor'
  BY <1>1, Pressed, PanelsConstants DEF P!Ticket
<1>3. P!TypeOK'
  BY <1>1, <1>2 DEF PanelsInv, P!TypeOK
<1> QED
  BY <1>1, <1>2, <1>3, AllElse DEF PanelsInv

LEMMA PressSends ==
    ASSUME PanelsInv, NEW p \in Panels, P!PressSend(p) PROVE PanelsInv'
<1> DEFINE h == [panel |-> p, ticket |-> s2[p]]
<1>1. /\ P!Dispatch("confirm", p, s2[p]) /\ s13' = s13 \cup {h}
      /\ s3' \in {s3, s3 \cup {p}} /\ s4' \in {s4, s4 \ {p}}
      /\ s1' = s1 /\ s2' = s2 /\ s6' = s6
      /\ UNCHANGED <<s7, s8, s9, s10, s11, s12>> /\ s14' = s14 /\ s15' = s15
  BY DEF P!PressSend, P!core
<1>2. s2[p] \in P!Ticket /\ h \in P!Held
  BY DEF PanelsInv, P!TypeOK, P!Held
<1>3. s5' \in Seq(P!Command) /\ PressedFor'
  BY <1>1, <1>2, Pressed
<1>4. P!TypeOK'
  BY <1>1, <1>2, <1>3 DEF PanelsInv, P!TypeOK
<1> QED
  BY <1>1, <1>3, <1>4, AllElse DEF PanelsInv

LEMMA PressBacks ==
    ASSUME PanelsInv, NEW p \in Panels, P!PressBack(p) PROVE PanelsInv'
<1> DEFINE h == [panel |-> p, ticket |-> s2[p]]
<1>1. /\ P!Dispatch("cancel", p, s2[p]) /\ s14' = s14 \cup {h}
      /\ s4' \in {s4, s4 \ {p}} /\ s1' \in {s1, [s1 EXCEPT ![p] = "form"]}
      /\ s2' = s2 /\ s3' = s3 /\ s6' = s6
      /\ UNCHANGED <<s7, s8, s9, s10, s11, s12>> /\ s13' = s13 /\ s15' = s15
  BY DEF P!PressBack, P!core
<1>2. s2[p] \in P!Ticket /\ h \in P!Held
  BY DEF PanelsInv, P!TypeOK, P!Held
<1>3. s5' \in Seq(P!Command) /\ PressedFor'
  BY <1>1, <1>2, Pressed
<1>4. s1' \in [Panels -> P!Step] /\ \A q \in Panels : s1'[q] = "review" => s1[q] = "review"
  BY <1>1 DEF PanelsInv, P!TypeOK, P!Step
<1>5. P!TypeOK'
  BY <1>1, <1>2, <1>3, <1>4 DEF PanelsInv, P!TypeOK
<1> QED
  BY <1>1, <1>3, <1>5, AllElse DEF PanelsInv

\* A form is shown, and no command sent: Done, and the search.
LEMMA FormShown ==
    ASSUME PanelsInv, NEW p \in Panels, s1' = [s1 EXCEPT ![p] = "form"], s4' \subseteq s4,
           s2' = s2, s3' = s3, s5' = s5, s6' = s6,
           UNCHANGED <<s7, s8, s9, s10, s11, s12>>, UNCHANGED <<s13, s14, s15>>
    PROVE  PanelsInv'
<1>1. s1' \in [Panels -> P!Step] /\ \A q \in Panels : s1'[q] = "review" => s1[q] = "review"
  BY DEF PanelsInv, P!TypeOK, P!Step
<1>2. P!TypeOK'
  BY <1>1 DEF PanelsInv, P!TypeOK
<1>3. PressedFor'
  BY DEF PanelsInv, PressedFor, Of
<1> QED
  BY <1>2, <1>3, AllElse DEF PanelsInv

LEMMA PressSwitches ==
    ASSUME PanelsInv, P!PressSwitch PROVE PanelsInv'
<1>1. /\ P!Dispatch("switch", "none", 0)
      /\ s1' = s1 /\ s2' = s2 /\ s3' = s3 /\ s4' = s4 /\ s6' = s6
      /\ UNCHANGED <<s7, s8, s9, s10, s11, s12>> /\ UNCHANGED <<s13, s14, s15>>
  BY DEF P!PressSwitch, P!core, P!history
<1>2. s5' \in Seq(P!Command) /\ PressedFor'
  BY <1>1, Pressed, PanelsConstants DEF P!Ticket
<1>3. P!TypeOK'
  BY <1>1, <1>2 DEF PanelsInv, P!TypeOK
<1> QED
  BY <1>1, <1>2, <1>3, AllElse DEF PanelsInv

\* A change of one panel's step, or of its ticket.
LEMMA PanelChanged ==
    ASSUME PanelsInv, NEW p, NEW step \in P!Step, NEW t \in P!Ticket, step = "review" => t # 0
    PROVE  /\ [s1 EXCEPT ![p] = step] \in [Panels -> P!Step]
           /\ [s2 EXCEPT ![p] = t] \in [Panels -> P!Ticket]
           /\ \A q \in Panels : [s1 EXCEPT ![p] = step][q] = "review" =>
                [s2 EXCEPT ![p] = t][q] # 0
           /\ step # "review" =>
                \A q \in Panels : [s1 EXCEPT ![p] = step][q] = "review" => s2[q] # 0
  BY DEF PanelsInv, P!TypeOK

LEMMA Applies ==
    ASSUME PanelsInv, P!Apply PROVE PanelsInv'
<1> DEFINE e == Head(s6)
<1>1. /\ s6 # <<>> /\ s6' = Tail(s6) /\ s5' = s5
      /\ P!ApplyReview(e) \/ P!ApplySent(e) \/ P!ApplyFailed(e) \/ P!ApplyClosed(e)
         \/ P!ApplyBusy(e)
      /\ UNCHANGED <<s7, s8, s9, s10, s11, s12>> /\ UNCHANGED <<s13, s14, s15>>
  BY DEF P!Apply, P!core, P!history
<1>2. /\ e \in P!Event /\ e = s6[1] /\ 1 \in 1 .. Len(s6) /\ s6' \in Seq(P!Event)
      /\ \A q \in 1 .. Len(s6') : q + 1 \in 1 .. Len(s6) /\ s6'[q] = s6[q + 1]
  BY <1>1, Taken DEF PanelsInv, P!TypeOK
<1>3. (e.say = "review" => e.ticket # 0) /\ (e.say = "failed" => e.panel \in Panels)
  BY <1>2 DEF PanelsInv, Announced
<1>4. e.ticket \in P!Ticket /\ 0 \in P!Ticket
  BY <1>2, PanelsConstants DEF P!Event, P!Ticket
<1>5. /\ s1' \in [Panels -> P!Step] /\ s2' \in [Panels -> P!Ticket]
      /\ \A p \in Panels : s1'[p] = "review" => s2'[p] # 0
      /\ s3' \subseteq Panels /\ s4' \subseteq Panels
  <2>1. CASE P!ApplyReview(e)
    <3>1. e.say = "review" /\ s1' = [s1 EXCEPT ![e.panel] = "review"]
          /\ s2' = [s2 EXCEPT ![e.panel] = e.ticket] /\ s4' = s4 \ {e.panel}
          /\ s3' \in {s3, s3 \ {e.panel}}
      BY <2>1 DEF P!ApplyReview
    <3> QED
      BY <3>1, <1>3, <1>4, PanelChanged DEF P!Step, PanelsInv, P!TypeOK
  <2>2. CASE P!ApplySent(e)
    <3>1. e.say \in {"sent", "uncertain"} /\ s1' = [s1 EXCEPT ![e.panel] = e.say]
          /\ s2' = s2 /\ s4' \in {s4, s4 \ {e.panel}} /\ s3' = s3
      BY <2>2 DEF P!ApplySent
    <3> QED
      BY <3>1, <1>4, PanelChanged DEF P!Step, PanelsInv, P!TypeOK
  <2>3. CASE P!ApplyFailed(e)
    BY <2>3, <1>3 DEF P!ApplyFailed, PanelsInv, P!TypeOK
  <2>4. CASE P!ApplyClosed(e)
    <3>1. s1' = [s1 EXCEPT ![e.panel] = "form"] /\ s2' = [s2 EXCEPT ![e.panel] = 0]
          /\ s3' = s3 \ {e.panel} /\ s4' = s4
      BY <2>4 DEF P!ApplyClosed
    <3>2. "form" \in P!Step /\ "form" # "review"
      BY DEF P!Step
    <3> QED
      BY <3>1, <3>2, <1>4, PanelChanged DEF PanelsInv, P!TypeOK
  <2>5. CASE P!ApplyBusy(e)
    BY <2>5 DEF P!ApplyBusy, PanelsInv, P!TypeOK
  <2> QED
    BY <1>1, <2>1, <2>2, <2>3, <2>4, <2>5
<1>6. P!TypeOK'
  BY <1>1, <1>2, <1>5 DEF PanelsInv, P!TypeOK
<1>7. Announced'
  BY <1>2 DEF PanelsInv, Announced
<1>8. GivenOut' /\ InOnePlace' /\ PressedFor' /\ P!SentWasShown' /\ P!SentOnce'
  BY <1>1 DEF PanelsInv, GivenOut, InOnePlace, PressedFor, P!SentWasShown, P!SentOnce, Of
<1> QED
  BY <1>6, <1>7, <1>8 DEF PanelsInv

\* The core takes a command and says something.
LEMMA TakesCommand ==
    ASSUME PanelsInv, NEW do, P!Next1(do), P!Took, s13' = s13
    PROVE  /\ Head(s5) \in P!Command /\ Head(s5).do = do
           /\ do = "confirm" => Of(Head(s5)) \in s13
           /\ do # "switch" => Head(s5).panel \in Panels
           /\ s5' \in Seq(P!Command) /\ PressedFor'
<1>1. s5 # <<>> /\ Head(s5).do = do /\ s5' = Tail(s5) /\ s5 \in Seq(P!Command)
  BY DEF P!Next1, P!Took, PanelsInv, P!TypeOK
<1>2. /\ Head(s5) \in P!Command /\ Head(s5) = s5[1] /\ 1 \in 1 .. Len(s5)
      /\ s5' \in Seq(P!Command)
      /\ \A q \in 1 .. Len(s5') : q + 1 \in 1 .. Len(s5) /\ s5'[q] = s5[q + 1]
  BY <1>1, Taken
<1> QED
  BY <1>1, <1>2 DEF PanelsInv, PressedFor, Of

LEMMA Emitted ==
    ASSUME PanelsInv, NEW said \in Seq(P!Event), P!Emit(said),
           \A q \in 1 .. Len(said) : /\ said[q].say = "review" => said[q].ticket # 0
                                     /\ said[q].say = "failed" => said[q].panel \in Panels
    PROVE  s6' \in Seq(P!Event) /\ Announced'
<1>1. s6' = s6 \o said /\ s6 \in Seq(P!Event)
  BY DEF P!Emit, PanelsInv, P!TypeOK
<1>2. /\ s6' \in Seq(P!Event)
      /\ \A q \in 1 .. Len(s6') :
            \/ q \in 1 .. Len(s6) /\ s6'[q] = s6[q]
            \/ \E u \in 1 .. Len(said) : s6'[q] = said[u]
  BY <1>1, Said
<1> QED
  BY <1>2 DEF PanelsInv, Announced

\* What is said: nothing, one thing or two.
LEMMA Sayings ==
    ASSUME NEW say \in {"review", "sent", "uncertain", "failed", "closed", "busy", "idle"},
           NEW p \in Panels \cup {"send", "none"}, NEW t \in P!Ticket
    PROVE  /\ P!Say(say, p, t) \in P!Event /\ P!Say(say, p, t).say = say
           /\ P!Say(say, p, t).panel = p /\ P!Say(say, p, t).ticket = t
  BY DEF P!Say, P!Event

LEMMA OneSaid ==
    ASSUME PanelsInv, NEW first \in P!Event, P!Emit(<<first>>),
           first.say = "review" => first.ticket # 0,
           first.say = "failed" => first.panel \in Panels
    PROVE  s6' \in Seq(P!Event) /\ Announced'
<1> DEFINE said == <<first>>
<1>1. said \in Seq(P!Event) /\ \A q \in 1 .. Len(said) : said[q] = first
  OBVIOUS
<1>2. P!Emit(said)
  OBVIOUS
<1> HIDE DEF said
<1> QED
  BY <1>1, <1>2, Emitted

LEMMA TwoSaid ==
    ASSUME PanelsInv, NEW first \in P!Event, NEW second \in P!Event,
           P!Emit(<<first, second>>),
           first.say = "review" => first.ticket # 0,
           first.say = "failed" => first.panel \in Panels,
           second.say = "review" => second.ticket # 0,
           second.say = "failed" => second.panel \in Panels
    PROVE  s6' \in Seq(P!Event) /\ Announced'
<1> DEFINE said == <<first, second>>
<1>1. said \in Seq(P!Event) /\ \A q \in 1 .. Len(said) : said[q] \in {first, second}
  <2>1. said \in Seq(P!Event) /\ Len(said) = 2 /\ said[1] = first /\ said[2] = second
    OBVIOUS
  <2>2. 1 .. 2 = {1, 2}
    OBVIOUS
  <2> HIDE DEF said
  <2> QED
    BY <2>1, <2>2
<1>2. P!Emit(said)
  OBVIOUS
<1> HIDE DEF said
<1> QED
  BY <1>1, <1>2, Emitted

\* The same of two sequences of one.
LEMMA BothSaid ==
    ASSUME PanelsInv, NEW first \in P!Event, NEW second \in P!Event,
           P!Emit(<<first>> \o <<second>>), first.say # "review", second.say # "review",
           first.say = "failed" => first.panel \in Panels,
           second.say = "failed" => second.panel \in Panels
    PROVE  s6' \in Seq(P!Event) /\ Announced'
<1> DEFINE said == <<first>> \o <<second>>
<1>1. <<first>> \in Seq(P!Event) /\ <<second>> \in Seq(P!Event)
      /\ <<first>> \in Seq({first, second}) /\ <<second>> \in Seq({first, second})
  OBVIOUS
<1>2. said \in Seq(P!Event) /\ said \in Seq({first, second})
  BY <1>1, Said
<1>3. P!Emit(said)
  OBVIOUS
<1> HIDE DEF said
<1>4. \A q \in 1 .. Len(said) : said[q] \in {first, second}
  BY <1>2
<1> QED
  BY <1>2, <1>3, <1>4, Emitted

LEMMA Tasks == \A p : P!Task(p) \in {"convert", "send"} /\ (P!Task(p) = "convert" => p = "convert")
  BY DEF P!Task

LEMMA Prepares ==
    ASSUME PanelsInv, P!Prepare PROVE PanelsInv'
<1> DEFINE p == Head(s5).panel
           job == [do |-> "build", panel |-> p, ticket |-> s7 + 1]
<1>1. /\ P!Next1("prepare") /\ P!Took
      /\ \/ /\ s7 < MaxTickets /\ s7' = s7 + 1 /\ s9' = s9 \cup {job}
            /\ P!Emit(<<P!Say("busy", P!Task(p), 0)>>)
         \/ s7' = s7 /\ s9' = s9 /\ s6' = s6
         \/ /\ p = "send" /\ P!Emit(<<P!Say("failed", p, 0)>>) /\ s7' = s7 /\ s9' = s9
      /\ UNCHANGED <<s1, s2, s3, s4>> /\ UNCHANGED <<s8, s10, s11, s12>>
      /\ UNCHANGED <<s13, s14, s15>>
  BY DEF P!Prepare, P!window, P!history
<1>2. p \in Panels /\ s5' \in Seq(P!Command) /\ PressedFor'
  BY <1>1, TakesCommand
<1>3. 0 \in P!Ticket /\ s7 \in Nat /\ s7 \in P!Ticket
  BY PanelsConstants DEF PanelsInv, P!TypeOK, P!Ticket
<1>4. s6' \in Seq(P!Event) /\ Announced'
  <2>1. CASE P!Emit(<<P!Say("busy", P!Task(p), 0)>>)
    <3>1. P!Task(p) \in Panels \cup {"send", "none"}
      BY <1>2, Tasks
    <3>2. PICK said : said = P!Say("busy", P!Task(p), 0)
      OBVIOUS
    <3>3. said \in P!Event /\ said.say = "busy"
      BY <3>1, <3>2, <1>3, Sayings
    <3>4. P!Emit(<<said>>)
      BY <2>1, <3>2
    <3> QED
      BY <3>3, <3>4, OneSaid
  <2>2. CASE p = "send" /\ P!Emit(<<P!Say("failed", p, 0)>>)
    BY <2>2, <1>2, <1>3, Sayings, OneSaid
  <2>3. CASE s6' = s6
    BY <2>3 DEF PanelsInv, P!TypeOK, Announced
  <2> QED
    BY <1>1, <2>1, <2>2, <2>3
<1>5. /\ s7' \in P!Ticket /\ s7' \in Nat /\ s7 <= s7' /\ s9' \subseteq P!Job
      /\ \/ s9' = s9
         \/ s9' = s9 \cup {job} /\ job.do = "build" /\ job.ticket = s7 + 1 /\ s7' = s7 + 1
  <2>1. s7 < MaxTickets => s7 + 1 \in P!Ticket /\ job \in P!Job
    BY <1>2, <1>3, PanelsConstants DEF P!Ticket, P!Job
  <2> QED
    BY <1>1, <1>3, <2>1 DEF PanelsInv, P!TypeOK
<1> HIDE DEF job
<1>6. P!TypeOK'
  BY <1>1, <1>2, <1>4, <1>5 DEF PanelsInv, P!TypeOK
<1>7. GivenOut'
  <2>1. \A t \in 1 .. s7 : t \in 1 .. s7'
    BY <1>3, <1>5
  <2>2. job.ticket = s7 + 1 /\ s7' = s7 + 1 => job.ticket \in 1 .. s7'
    BY <1>3
  <2> QED
    BY <1>1, <1>5, <2>1, <2>2 DEF PanelsInv, GivenOut
<1>8. InOnePlace'
  <2>1. Of(job).ticket = job.ticket
    BY DEF Of
  <2>2. job.ticket = s7 + 1 => Of(job) \notin s8 /\ \A q \in 1 .. Len(s15) : s15[q] # Of(job)
    BY <2>1, <1>3 DEF PanelsInv, GivenOut
  <2> QED
    BY <1>1, <1>5, <2>2 DEF PanelsInv, InOnePlace, Of
<1>9. P!SentWasShown' /\ P!SentOnce'
  BY <1>1 DEF PanelsInv, P!SentWasShown, P!SentOnce
<1> QED
  BY <1>2, <1>4, <1>6, <1>7, <1>8, <1>9 DEF PanelsInv

LEMMA Prepared ==
    ASSUME PanelsInv, NEW b \in s9, P!FinishPrepare(b) PROVE PanelsInv'
<1> DEFINE h == [panel |-> b.panel, ticket |-> b.ticket]
           idle == P!Say("idle", P!Task(b.panel), 0)
           review == P!Say("review", b.panel, b.ticket)
           failed == P!Say("failed", b.panel, 0)
<1>1. /\ b.do = "build" /\ s9' = s9 \ {b}
      /\ \/ s8' = s8 \cup {h} /\ P!Emit(<<idle, review>>)
         \/ s8' = s8 /\ (P!Emit(<<idle, failed>>) \/ P!Emit(<<idle>>))
      /\ UNCHANGED <<s1, s2, s3, s4>> /\ UNCHANGED <<s5, s7, s10, s11, s12>>
      /\ UNCHANGED <<s13, s14, s15>>
  BY DEF P!FinishPrepare, P!window, P!history
<1>2. /\ b \in P!Job /\ b.panel \in Panels /\ b.ticket \in P!Ticket /\ 0 \in P!Ticket
      /\ b.ticket \in 1 .. s7 /\ b.ticket # 0 /\ h \in P!Held /\ h = Of(b)
      /\ h.ticket = b.ticket
  BY PanelsConstants DEF PanelsInv, P!TypeOK, GivenOut, P!Job, P!Ticket, P!Held, Of
<1>3. P!Task(b.panel) \in Panels \cup {"send", "none"}
  BY <1>2, Tasks
<1>4. /\ idle \in P!Event /\ idle.say = "idle" /\ failed \in P!Event /\ failed.say = "failed"
      /\ failed.panel \in Panels /\ review \in P!Event /\ review.say = "review"
      /\ review.ticket # 0
  <2>1. idle \in P!Event /\ idle.say = "idle"
    <3>1. 0 \in P!Ticket
      BY <1>2
    <3> QED
      BY ONLY <3>1, <1>3, Sayings
  <2>2. failed \in P!Event /\ failed.say = "failed" /\ failed.panel = b.panel
    BY <1>2, Sayings
  <2>3. review \in P!Event /\ review.say = "review" /\ review.ticket = b.ticket
    BY <1>2, Sayings
  <2> QED
    BY <2>1, <2>2, <2>3, <1>2
<1> HIDE DEF idle, review, failed
<1>5. s6' \in Seq(P!Event) /\ Announced'
  BY <1>1, <1>4, OneSaid, TwoSaid
<1> HIDE DEF h
<1>6. P!TypeOK'
  BY <1>1, <1>2, <1>5 DEF PanelsInv, P!TypeOK
<1>7. GivenOut'
  BY <1>1, <1>2 DEF PanelsInv, GivenOut
<1>8. InOnePlace'
  <2>1. \A q \in 1 .. Len(s15) : s15[q] # h
    BY <1>1, <1>2 DEF PanelsInv, InOnePlace
  <2>2. ASSUME NEW a \in s9', a.do = "build" PROVE Of(a) # h
    <3>1. a \in s9 /\ a # b /\ a \in P!Job /\ b \in P!Job
      BY <1>1, <2>2 DEF PanelsInv, P!TypeOK
    <3> QED
      BY <3>1, <2>2, <1>1, <1>2 DEF P!Job, Of
  <2> QED
    BY <1>1, <2>1, <2>2 DEF PanelsInv, InOnePlace, Of
<1>9. PressedFor' /\ P!SentWasShown' /\ P!SentOnce'
  BY <1>1 DEF PanelsInv, PressedFor, P!SentWasShown, P!SentOnce, Of
<1> QED
  BY <1>5, <1>6, <1>7, <1>8, <1>9 DEF PanelsInv

\* What is handed over leaves what is held, and is the last of what was sent.
LEMMA HandedOver ==
    ASSUME PanelsInv, NEW h \in s8, h \in s13, s8' = s8 \ {h}, s15' = Append(s15, h),
           s13' = s13, s7' = s7,
           s9' = s9 \cup {[do |-> "send", panel |-> h.panel, ticket |-> h.ticket]}
    PROVE  GivenOut' /\ InOnePlace' /\ P!SentWasShown' /\ P!SentOnce' /\ s15' \in Seq(P!Held)
<1> DEFINE job == [do |-> "send", panel |-> h.panel, ticket |-> h.ticket]
<1>1. /\ h \in P!Held /\ s15 \in Seq(P!Held) /\ h.ticket \in 1 .. s7
      /\ \A q \in 1 .. Len(s15) : s15[q] # h
      /\ \A b \in s9 : b.do = "build" => Of(b) # h
  BY DEF PanelsInv, P!TypeOK, GivenOut, InOnePlace
<1>2. /\ s15' \in Seq(P!Held) /\ Len(s15') = Len(s15) + 1 /\ Len(s15) \in Nat
      /\ \A q \in 1 .. Len(s15) : s15'[q] = s15[q]
      /\ s15'[Len(s15) + 1] = h
  BY <1>1, Added
<1>3. \A q \in 1 .. Len(s15') :
        (q \in 1 .. Len(s15) /\ s15'[q] = s15[q]) \/ (q = Len(s15) + 1 /\ s15'[q] = h)
  BY <1>2
<1>4. s9' = s9 \cup {job} /\ job.do = "send" /\ job.ticket = h.ticket
  OBVIOUS
<1> HIDE DEF job
<1>5. GivenOut'
  BY <1>1, <1>3, <1>4 DEF PanelsInv, GivenOut
<1>6. InOnePlace'
  <2>1. ASSUME NEW q \in 1 .. Len(s15') PROVE s15'[q] \notin s8'
    BY <2>1, <1>3 DEF PanelsInv, InOnePlace
  <2>2. ASSUME NEW b \in s9', b.do = "build"
        PROVE  Of(b) \notin s8' /\ \A q \in 1 .. Len(s15') : s15'[q] # Of(b)
    <3>1. b \in s9
      BY <2>2, <1>4
    <3> QED
      BY <3>1, <2>2, <1>1, <1>3 DEF PanelsInv, InOnePlace
  <2> QED
    BY <2>1, <2>2 DEF InOnePlace, Of
<1>7. P!SentWasShown'
  BY <1>3 DEF PanelsInv, P!SentWasShown
<1>8. P!SentOnce'
  BY <1>1, <1>3 DEF PanelsInv, P!SentOnce
<1> QED
  BY <1>2, <1>5, <1>6, <1>7, <1>8

LEMMA Confirms ==
    ASSUME PanelsInv, P!Confirm PROVE PanelsInv'
<1> DEFINE c == Head(s5)
           h == [panel |-> c.panel, ticket |-> c.ticket]
           job == [do |-> "send", panel |-> h.panel, ticket |-> h.ticket]
<1>1. /\ P!Next1("confirm") /\ P!Took /\ s1' = s1 /\ s2' = s2 /\ s3' = s3 /\ s4' = s4
      /\ \/ /\ s6' = s6 /\ UNCHANGED <<s7, s8, s9, s10, s12>> /\ s11' \in {s11, s11 + 1}
            /\ s11' # s11 => s11 < MaxKept
            /\ UNCHANGED <<s13, s14, s15>>
         \/ /\ h \in s8 /\ s8' = s8 \ {h} /\ s9' = s9 \cup {job}
            /\ s10' = (s10 \/ h.panel \in {"send", "convert"})
            /\ s15' = Append(s15, h) /\ P!Emit(<<P!Say("busy", P!Task(h.panel), 0)>>)
            /\ UNCHANGED <<s7, s11, s12, s13, s14>>
  BY DEF P!Confirm, P!window, P!core, P!history
<1>2. s13' = s13
  BY <1>1
<1>3. h \in s13 /\ s5' \in Seq(P!Command) /\ PressedFor'
  <2>1. Of(c) \in s13 /\ s5' \in Seq(P!Command) /\ PressedFor'
    BY <1>1, <1>2, TakesCommand
  <2> QED
    BY <2>1 DEF Of
<1> HIDE DEF h
<1>4. CASE h \in s8 /\ s15' = Append(s15, h)
  <2>1. /\ s8' = s8 \ {h} /\ s9' = s9 \cup {job}
        /\ s10' = (s10 \/ h.panel \in {"send", "convert"})
        /\ P!Emit(<<P!Say("busy", P!Task(h.panel), 0)>>)
        /\ UNCHANGED <<s7, s11, s12, s13, s14>>
    <3>1. Append(s15, h) # s15
      <4>1. s15 \in Seq(P!Held) /\ h \in P!Held
        BY <1>4 DEF PanelsInv, P!TypeOK
      <4>2. Len(Append(s15, h)) = Len(s15) + 1 /\ Len(s15) \in Nat
        BY <4>1, Added
      <4> QED
        BY <4>2
    <3> QED
      BY <1>1, <1>4, <3>1
  <2>2. /\ h \in P!Held /\ h.panel \in Panels /\ h.ticket \in P!Ticket /\ 0 \in P!Ticket
        /\ job \in P!Job
    BY <1>4, PanelsConstants DEF PanelsInv, P!TypeOK, P!Held, P!Job, P!Ticket
  <2>3. P!Task(h.panel) \in Panels \cup {"send", "none"}
    BY <2>2, Tasks
  <2>4. s6' \in Seq(P!Event) /\ Announced'
    BY <2>1, <2>2, <2>3, Sayings, OneSaid
  <2>5. GivenOut' /\ InOnePlace' /\ P!SentWasShown' /\ P!SentOnce' /\ s15' \in Seq(P!Held)
    BY <1>3, <1>4, <2>1, HandedOver
  <2>6. s10' \in BOOLEAN
    BY <2>1
  <2> HIDE DEF job
  <2>7. P!TypeOK'
    BY <1>1, <1>3, <2>1, <2>2, <2>4, <2>5, <2>6 DEF PanelsInv, P!TypeOK
  <2> QED
    BY <1>3, <2>4, <2>5, <2>7 DEF PanelsInv
<1>5. CASE ~(h \in s8 /\ s15' = Append(s15, h))
  <2>1. /\ s6' = s6 /\ UNCHANGED <<s7, s8, s9, s10, s12>> /\ s11' \in {s11, s11 + 1}
        /\ s11' # s11 => s11 < MaxKept
        /\ UNCHANGED <<s13, s14, s15>>
    BY <1>1, <1>5
  <2>2. s11' \in 0 .. MaxKept
    BY <2>1, PanelsConstants DEF PanelsInv, P!TypeOK
  <2>3. P!TypeOK'
    BY <1>1, <1>3, <2>1, <2>2 DEF PanelsInv, P!TypeOK
  <2> QED
    BY <1>3, <2>1, <2>3, AllElse DEF PanelsInv
<1> QED
  BY <1>4, <1>5

LEMMA SendsFinish ==
    ASSUME PanelsInv, NEW b \in s9, P!FinishSend(b) PROVE PanelsInv'
<1> DEFINE idle == P!Say("idle", P!Task(b.panel), 0)
<1>1. /\ b.do = "send" /\ s9' = s9 \ {b}
      /\ s10' = (s10 /\ b.panel \in {"launch", "change"})
      /\ \/ P!Emit(<<idle>> \o <<>>)
         \/ \E say \in {"sent", "uncertain", "failed", "closed"} :
                P!Emit(<<idle>> \o <<P!Say(say, b.panel, 0)>>)
      /\ UNCHANGED <<s1, s2, s3, s4>> /\ UNCHANGED <<s5, s7, s8, s11, s12>>
      /\ UNCHANGED <<s13, s14, s15>>
  BY DEF P!FinishSend, P!window, P!history
<1>2. b.panel \in Panels /\ 0 \in P!Ticket
  BY PanelsConstants DEF PanelsInv, P!TypeOK, P!Job, P!Ticket
<1>3. idle \in P!Event /\ idle.say = "idle"
  <2>1. P!Task(b.panel) \in Panels \cup {"send", "none"}
    BY <1>2, Tasks
  <2> QED
    BY <2>1, <1>2, Sayings
<1> HIDE DEF idle
<1>4. s6' \in Seq(P!Event) /\ Announced'
  <2>1. CASE P!Emit(<<idle>> \o <<>>)
    <3>1. <<idle>> \o <<>> = <<idle>>
      BY <1>3
    <3> QED
      BY <2>1, <3>1, <1>3, OneSaid
  <2>2. ASSUME NEW say \in {"sent", "uncertain", "failed", "closed"},
               P!Emit(<<idle>> \o <<P!Say(say, b.panel, 0)>>)
        PROVE  s6' \in Seq(P!Event) /\ Announced'
    <3> DEFINE second == P!Say(say, b.panel, 0)
    <3>1. /\ second \in P!Event /\ second.say = say /\ second.panel = b.panel
      BY <1>2, Sayings
    <3> HIDE DEF second
    <3>2. P!Emit(<<idle>> \o <<second>>)
      BY <2>2 DEF second
    <3> QED
      BY <3>1, <3>2, <1>2, <1>3, BothSaid
  <2> QED
    BY <1>1, <2>1, <2>2
<1>5. P!TypeOK'
  <2>1. s10' \in BOOLEAN /\ s9' \subseteq P!Job
    BY <1>1 DEF PanelsInv, P!TypeOK
  <2> QED
    BY <1>1, <1>4, <2>1 DEF PanelsInv, P!TypeOK
<1>6. GivenOut' /\ InOnePlace' /\ PressedFor' /\ P!SentWasShown' /\ P!SentOnce'
  BY <1>1 DEF PanelsInv, GivenOut, InOnePlace, PressedFor, P!SentWasShown, P!SentOnce, Of
<1> QED
  BY <1>4, <1>5, <1>6 DEF PanelsInv

\* Something held is let go of.
LEMMA LetGo ==
    ASSUME PanelsInv, s8' \subseteq s8, s7' = s7, s9' = s9, s13' = s13, s15' = s15
    PROVE  GivenOut' /\ InOnePlace' /\ P!SentWasShown' /\ P!SentOnce'
  BY DEF PanelsInv, GivenOut, InOnePlace, P!SentWasShown, P!SentOnce, Of

LEMMA Cancels ==
    ASSUME PanelsInv, P!Cancel PROVE PanelsInv'
<1> DEFINE c == Head(s5)
<1>1. /\ P!Next1("cancel") /\ P!Took /\ s8' = s8 \ {[panel |-> c.panel, ticket |-> c.ticket]}
      /\ P!Emit(IF c.panel = "launch" THEN <<P!Say("closed", "launch", 0)>> ELSE <<>>)
      /\ UNCHANGED <<s1, s2, s3, s4>> /\ UNCHANGED <<s7, s9, s10, s11, s12>>
      /\ UNCHANGED <<s13, s14, s15>>
  BY DEF P!Cancel, P!window, P!history
<1>2. c.panel \in Panels /\ s5' \in Seq(P!Command) /\ PressedFor'
  BY <1>1, TakesCommand
<1>3. s6' \in Seq(P!Event) /\ Announced'
  <2>1. CASE c.panel = "launch"
    <3>1. "launch" \in Panels /\ 0 \in P!Ticket
      BY <2>1, <1>2, PanelsConstants DEF P!Ticket
    <3> QED
      BY <1>1, <2>1, <3>1, Sayings, OneSaid
  <2>2. CASE c.panel # "launch"
    <3> DEFINE said == <<>>
    <3>1. P!Emit(said)
      BY <1>1, <2>2
    <3>2. said \in Seq(P!Event) /\ 1 .. Len(said) = {}
      OBVIOUS
    <3> HIDE DEF said
    <3> QED
      BY <3>1, <3>2, Emitted
  <2> QED
    BY <2>1, <2>2
<1>4. P!TypeOK'
  BY <1>1, <1>2, <1>3 DEF PanelsInv, P!TypeOK
<1> QED
  BY <1>1, <1>2, <1>3, <1>4, LetGo DEF PanelsInv

LEMMA PanelsSwitch ==
    ASSUME PanelsInv, P!SwitchNetwork PROVE PanelsInv'
<1>1. /\ P!Next1("switch") /\ P!Took /\ s8' \subseteq s8
      /\ s12' = s12 \/ (s12' = s12 + 1 /\ s12 # MaxSwitches)
      /\ UNCHANGED <<s1, s2, s3, s4>> /\ UNCHANGED <<s6, s7, s9, s10, s11>>
      /\ UNCHANGED <<s13, s14, s15>>
  BY DEF P!SwitchNetwork, P!window, P!history
<1>2. s5' \in Seq(P!Command) /\ PressedFor'
  BY <1>1, TakesCommand
<1>3. s12' \in 0 .. MaxSwitches
  BY <1>1, PanelsConstants DEF PanelsInv, P!TypeOK
<1>4. P!TypeOK' /\ Announced'
  BY <1>1, <1>2, <1>3 DEF PanelsInv, P!TypeOK, Announced
<1> QED
  BY <1>1, <1>2, <1>4, LetGo DEF PanelsInv

LEMMA PanelsNext == ASSUME PanelsInv, [P!Next]_(P!vars) PROVE PanelsInv'
<1>1. ASSUME NEW p \in Panels,
             P!PressReview(p) \/ P!PressSend(p) \/ P!PressBack(p) \/ P!PressDone(p)
      PROVE  PanelsInv'
  <2>1. CASE P!PressDone(p)
    BY <2>1, FormShown DEF P!PressDone, P!core, P!history
  <2> QED
    BY <1>1, <2>1, PressReviews, PressSends, PressBacks
<1>2. CASE P!PickAddress
  BY <1>2, FormShown DEF P!PickAddress, P!core, P!history
<1>3. CASE UNCHANGED (P!vars)
  BY <1>3 DEF P!vars, PanelsInv, P!TypeOK, GivenOut, Announced, InOnePlace, PressedFor,
              P!SentWasShown, P!SentOnce, Of
<1>4. CASE P!User
  BY <1>4, <1>1, <1>2, PressSwitches DEF P!User
<1>5. CASE P!Core
  BY <1>5, Prepares, Confirms, Cancels, PanelsSwitch DEF P!Core
<1>6. CASE P!Work
  BY <1>6, Prepared, SendsFinish DEF P!Work
<1> QED
  BY <1>3, <1>4, <1>5, <1>6, Applies DEF P!Next

-----------------------------------------------------------------------------
(* The names: s1 is the chain, s2 what the names mean, s4 what is typed, s5 the    *)
(* answer that is held, s6 the name being looked up, s7 the store, s8 the lookups, *)
(* s9 what was paid, s10 all that could ever be paid.                              *)
(*                                                                            *)
(* While nothing else is typed before an answer is in, there is one lookup at  *)
(* most, of the name that stands there, on the chain that is open. So what is  *)
(* held is of this chain and of its own name: the answer carries neither.      *)

\* Of a name on a chain, something a node said it meant: it could be paid.
CouldBePaid(c, name, address, revoked) ==
    address # NoAddress /\ ~revoked => [chain |-> c, name |-> name, to |-> address] \in s10

\* One lookup at most, of what is typed, and only if that is not answered yet.
OneLookup ==
    \/ DOMAIN s8 = {} /\ s6 = NoName
    \/ \E q \in 1 .. Slots :
        /\ DOMAIN s8 = {q} /\ s6 = s4 /\ s4 # NoName /\ s5.typed # s4
        /\ s8[q].name = s4 /\ s8[q].chain = s1

\* What an answer says is what the chain said.
AnswersFit ==
    \A q \in DOMAIN s8 :
        /\ CouldBePaid(s8[q].chain, s8[q].name, s8[q].meaning.address, s8[q].meaning.revoked)
        /\ s8[q].outcome = "found" => s8[q].meaning.address # NoAddress

NamesInv ==
    /\ N!TypeOK /\ OneLookup /\ AnswersFit
    /\ CouldBePaid(s1, s5.typed, s5.address, s5.revoked)
    /\ N!Payable(s2) \subseteq s10
    /\ N!PaysWhatItMeant

LEMMA NamesConstants ==
    /\ FirstChain \in Chain /\ NoName \notin Name /\ NoAddress \notin Address
    /\ Home \in [Chain -> [Name -> Address \cup {NoAddress}]]
    /\ Slots \in Nat /\ MaxChanges \in Nat
  BY ScreensAssumption DEF N!NamesAssumption

\* What a name means now could be paid.
LEMMA NowPayable ==
    ASSUME N!TypeOK, N!Payable(s2) \subseteq s10, NEW c \in Chain, NEW name \in Name
    PROVE  /\ s2[c][name] \in N!Meanings
           /\ CouldBePaid(c, name, s2[c][name].address, s2[c][name].revoked)
<1>1. s2[c][name] \in N!Meanings
  BY DEF N!TypeOK
<1>2. ASSUME s2[c][name].address # NoAddress, ~s2[c][name].revoked
      PROVE  [chain |-> c, name |-> name, to |-> s2[c][name].address] \in s10
  <2> DEFINE p == <<c, name>>
  <2>1. /\ p \in Chain \X Name /\ p[1] = c /\ p[2] = name
    OBVIOUS
  <2> HIDE DEF p
  <2>2. p \in {q \in Chain \X Name : s2[q[1]][q[2]].address # NoAddress
                                      /\ ~s2[q[1]][q[2]].revoked}
    BY <2>1, <1>2
  <2>3. [chain |-> p[1], name |-> p[2], to |-> s2[p[1]][p[2]].address] \in N!Payable(s2)
    BY <2>2 DEF N!Payable
  <2> QED
    BY <2>1, <2>3
<1> QED
  BY <1>1, <1>2 DEF CouldBePaid

LEMMA NamesInit == ASSUME N!Init PROVE NamesInv
<1>1. /\ s1 = FirstChain /\ s3 = 0 /\ s4 = NoName /\ s5 = N!NoIdentity /\ s6 = NoName
      /\ s2 = [c \in Chain |-> [name \in Name |-> [address |-> Home[c][name], revoked |-> FALSE]]]
      /\ s7 = [c \in Chain |-> [name \in Name |-> NoAddress]]
      /\ DOMAIN s8 = {} /\ s9 = N!Unpaid /\ s10 = N!Payable(s2)
  BY DEF N!Init
<1>2. s5.typed = NoName /\ s5.address = NoAddress /\ s5.revoked = FALSE /\ s5.was = NoAddress
  BY <1>1 DEF N!NoIdentity
<1>3. N!TypeOK
  <2>1. s2 \in [Chain -> [Name -> N!Meanings]]
    BY <1>1, NamesConstants DEF N!Meanings
  <2>2. s5 \in [typed : Name \cup {NoName}, address : Address \cup {NoAddress},
                revoked : BOOLEAN, was : Address \cup {NoAddress}]
    BY <1>1 DEF N!NoIdentity
  <2>3. s7 \in [Chain -> [Name -> Address \cup {NoAddress}]] /\ s3 \in 0 .. MaxChanges
    BY <1>1, NamesConstants
  <2> QED
    BY <1>1, <2>1, <2>2, <2>3, NamesConstants DEF N!TypeOK
<1> QED
  BY <1>1, <1>2, <1>3
  DEF NamesInv, OneLookup, AnswersFit, CouldBePaid, N!PaysWhatItMeant

\* What is typed is looked up, when nothing is.
LEMMA Resolves ==
    ASSUME NEW name \in Name \cup {NoName}, NEW held, NEW out, DOMAIN out = {},
           N!MaybeResolve(name, held, NoName, out)
    PROVE  \/ /\ name \in Name /\ held.typed # name /\ s6' = name /\ 1 \in 1 .. Slots
              /\ s8' = [q \in {1} |-> [name |-> name, chain |-> s1, outcome |-> "out",
                                       meaning |-> N!Unknown]]
           \/ (name = NoName \/ held.typed = name) /\ s6' = NoName /\ s8' = out
<1>1. CASE name # NoName /\ held.typed # name
  <2>1. DOMAIN out # 1 .. Slots /\ s6' = name /\ s8' = N!Posted(out, name)
    BY <1>1 DEF N!MaybeResolve
  <2>2. 1 \in 1 .. Slots
    BY <2>1, NamesConstants
  <2>3. N!Lowest((1 .. Slots) \ DOMAIN out) = 1
    <3>1. N!Lowest(1 .. Slots) = 1
      BY <2>2, NamesConstants DEF N!Lowest
    <3> QED
      BY <3>1
  <2>4. s8' = [q \in {1} |-> [name |-> name, chain |-> s1, outcome |-> "out",
                              meaning |-> N!Unknown]]
    BY <2>1, <2>3 DEF N!Posted
  <2> QED
    BY <1>1, <2>1, <2>2, <2>4
<1>2. CASE name = NoName \/ held.typed = name
  BY <1>2 DEF N!MaybeResolve
<1> QED
  BY <1>1, <1>2

\* The lookup that was sent.
LEMMA LookupFits ==
    ASSUME N!TypeOK, s1' = s1, NEW name \in Name, s6' = name, s4' = name, s5'.typed # name,
           1 \in 1 .. Slots,
           s8' = [q \in {1} |-> [name |-> name, chain |-> s1, outcome |-> "out",
                                 meaning |-> N!Unknown]]
    PROVE  /\ DOMAIN s8' \subseteq 1 .. Slots /\ \A q \in DOMAIN s8' : s8'[q] \in N!Job
           /\ OneLookup' /\ AnswersFit'
<1>1. /\ DOMAIN s8' = {1} /\ s8'[1].name = name /\ s8'[1].chain = s1
      /\ s8'[1].outcome = "out" /\ s8'[1].meaning = N!Unknown
      /\ s8'[1] = [name |-> name, chain |-> s1, outcome |-> "out", meaning |-> N!Unknown]
  OBVIOUS
<1>2. N!Unknown.address = NoAddress /\ N!Unknown \in N!Meanings
  BY DEF N!Unknown, N!Meanings
<1>3. s8'[1] \in N!Job
  BY <1>1, <1>2 DEF N!Job, N!Outcome, N!TypeOK
<1>4. OneLookup'
  BY <1>1, NamesConstants DEF OneLookup
<1>5. AnswersFit'
  BY <1>1, <1>2 DEF AnswersFit, CouldBePaid
<1> QED
  BY <1>1, <1>3, <1>4, <1>5

LEMMA Types ==
    ASSUME NamesInv, NEW name \in Name \cup {NoName}, N!Type(name) PROVE NamesInv'
<1>1. /\ name # s4 => DOMAIN s8 = {}
      /\ s4' = name /\ N!MaybeResolve(name, s5, s6, s8)
      /\ s1' = s1 /\ s2' = s2 /\ s3' = s3 /\ s5' = s5 /\ s7' = s7 /\ s9' = s9 /\ s10' = s10
  BY DEF N!Type
<1>2. CASE DOMAIN s8 = {} /\ s6 = NoName
  <2>1. CASE /\ name \in Name /\ s5.typed # name /\ s6' = name /\ 1 \in 1 .. Slots
             /\ s8' = [q \in {1} |-> [name |-> name, chain |-> s1, outcome |-> "out",
                                      meaning |-> N!Unknown]]
    <3>1. /\ DOMAIN s8' \subseteq 1 .. Slots /\ \A q \in DOMAIN s8' : s8'[q] \in N!Job
          /\ OneLookup' /\ AnswersFit'
      BY <1>1, <2>1, LookupFits DEF NamesInv
    <3>2. N!TypeOK'
      BY <1>1, <2>1, <3>1 DEF NamesInv, N!TypeOK
    <3> QED
      BY <1>1, <3>1, <3>2 DEF NamesInv, CouldBePaid, N!PaysWhatItMeant
  <2>2. CASE s6' = NoName /\ s8' = s8
    <3>1. OneLookup' /\ AnswersFit'
      BY <1>2, <2>2 DEF OneLookup, AnswersFit
    <3>2. N!TypeOK'
      BY <1>1, <1>2, <2>2 DEF NamesInv, N!TypeOK
    <3> QED
      BY <1>1, <3>1, <3>2 DEF NamesInv, CouldBePaid, N!PaysWhatItMeant
  <2> QED
    BY <1>1, <1>2, <2>1, <2>2, Resolves
<1>3. CASE ~(DOMAIN s8 = {} /\ s6 = NoName)
  <2>1. PICK q \in 1 .. Slots :
            /\ DOMAIN s8 = {q} /\ s6 = s4 /\ s4 # NoName /\ s5.typed # s4
            /\ s8[q].name = s4 /\ s8[q].chain = s1
    BY <1>3 DEF NamesInv, OneLookup
  <2>2. name = s4
    BY <1>1, <2>1
  <2>3. s6' = s6 /\ s8' = s8 /\ s4' = s4
    BY <1>1, <2>1, <2>2 DEF N!MaybeResolve
  <2> QED
    BY <1>1, <2>3 DEF NamesInv, N!TypeOK, OneLookup, AnswersFit, CouldBePaid, N!PaysWhatItMeant
<1> QED
  BY <1>2, <1>3

LEMMA Answers ==
    ASSUME NamesInv, NEW q \in DOMAIN s8, N!Answer(q) PROVE NamesInv'
<1> DEFINE job == s8[q]
           now == s2[job.chain][job.name]
<1>1. PICK outcome \in {"unknown", "found", "failed"} :
        /\ outcome = "found" => now.address # NoAddress
        /\ s8' = [s8 EXCEPT ![q] = [@ EXCEPT !.outcome = outcome,
                     !.meaning = IF outcome = "found" THEN now ELSE N!Unknown]]
        /\ s1' = s1 /\ s2' = s2 /\ s3' = s3 /\ s4' = s4 /\ s5' = s5 /\ s6' = s6 /\ s7' = s7
        /\ s9' = s9 /\ s10' = s10
  BY DEF N!Answer
<1>2. PICK slot \in 1 .. Slots :
        /\ DOMAIN s8 = {slot} /\ s6 = s4 /\ s4 # NoName /\ s5.typed # s4
        /\ s8[slot].name = s4 /\ s8[slot].chain = s1
  BY DEF NamesInv, OneLookup
<1>3. slot = q /\ job \in N!Job
  BY <1>2 DEF NamesInv, N!TypeOK
<1> DEFINE said == IF outcome = "found" THEN now ELSE N!Unknown
<1>4. /\ said \in N!Meanings /\ CouldBePaid(job.chain, job.name, said.address, said.revoked)
      /\ outcome = "found" => said.address # NoAddress
  <2>1. job.chain \in Chain /\ job.name \in Name
    BY <1>3 DEF N!Job
  <2>2. now \in N!Meanings /\ CouldBePaid(job.chain, job.name, now.address, now.revoked)
    BY <2>1, NowPayable DEF NamesInv
  <2>3. N!Unknown.address = NoAddress /\ N!Unknown \in N!Meanings
    BY DEF N!Unknown, N!Meanings
  <2> QED
    BY <1>1, <2>2, <2>3 DEF CouldBePaid
<1>5. /\ DOMAIN s8' = {q} /\ s8'[q].name = job.name /\ s8'[q].chain = job.chain
      /\ s8'[q].outcome = outcome /\ s8'[q].meaning = said /\ s8'[q] \in N!Job
  <2>1. s8'[q] = [job EXCEPT !.outcome = outcome, !.meaning = said] /\ DOMAIN s8' = {q}
    BY <1>1, <1>2, <1>3
  <2> HIDE DEF said, job
  <2> QED
    BY <2>1, <1>3, <1>4 DEF N!Job, N!Outcome
<1> HIDE DEF said, job, now
<1>6. OneLookup'
  BY <1>1, <1>2, <1>3, <1>5 DEF OneLookup, job
<1>7. AnswersFit'
  <2>1. /\ CouldBePaid(s8'[q].chain, s8'[q].name, s8'[q].meaning.address, s8'[q].meaning.revoked)
        /\ s8'[q].outcome = "found" => s8'[q].meaning.address # NoAddress
    BY <1>4, <1>5
  <2>2. s10' = s10 /\ DOMAIN s8' = {q}
    BY <1>1, <1>5
  <2> QED
    BY ONLY <2>1, <2>2 DEF AnswersFit, CouldBePaid
<1>8. N!TypeOK'
  BY <1>1, <1>5 DEF NamesInv, N!TypeOK
<1> QED
  BY <1>1, <1>6, <1>7, <1>8 DEF NamesInv, CouldBePaid, N!PaysWhatItMeant

\* What the actor makes of an answer, in the words of N!Finish.
HeldFrom(job, before) ==
    [typed |-> job.name, address |-> job.meaning.address, revoked |-> job.meaning.revoked,
     was |-> IF job.outcome = "found" /\ before # job.meaning.address
             THEN before ELSE NoAddress]

\* The only lookup is finished: what is held is of the name that is typed, and nothing
\* is asked again.
LEMMA Finished ==
    ASSUME NamesInv, NEW q \in DOMAIN s8, N!Finish(q)
    PROVE  /\ s8[q] \in N!Job /\ s8[q].name = s4 /\ s8[q].chain = s1 /\ s5.typed # s4
           /\ s5' = HeldFrom(s8[q], s7[s1][s4]) /\ s5'.typed = s4
           /\ s6' = NoName /\ DOMAIN s8' = {} /\ s4 \in Name /\ s1 \in Chain
           /\ s7' = IF s8[q].outcome = "found"
                    THEN [s7 EXCEPT ![s1][s4] = s8[q].meaning.address] ELSE s7
           /\ s1' = s1 /\ s2' = s2 /\ s3' = s3 /\ s4' = s4 /\ s9' = s9 /\ s10' = s10
<1> DEFINE job == s8[q]
           rest == [t \in DOMAIN s8 \ {q} |-> s8[t]]
           held == HeldFrom(job, s7[s1][job.name])
<1>1. /\ s5' = held
      /\ s7' = IF job.outcome = "found" THEN [s7 EXCEPT ![s1][job.name] = job.meaning.address]
               ELSE s7
      /\ N!MaybeResolve(s4, held, IF s6 = job.name THEN NoName ELSE s6, rest)
      /\ s1' = s1 /\ s2' = s2 /\ s3' = s3 /\ s4' = s4 /\ s9' = s9 /\ s10' = s10
  BY DEF N!Finish, HeldFrom
<1>2. PICK slot \in 1 .. Slots :
        /\ DOMAIN s8 = {slot} /\ s6 = s4 /\ s4 # NoName /\ s5.typed # s4
        /\ s8[slot].name = s4 /\ s8[slot].chain = s1
  BY DEF NamesInv, OneLookup
<1>3. /\ slot = q /\ job \in N!Job /\ job.name = s4 /\ job.chain = s1 /\ s4 \in Name
      /\ s1 \in Chain
  BY <1>2 DEF NamesInv, N!TypeOK
<1>4. held.typed = s4
  BY <1>3 DEF HeldFrom
<1>5. DOMAIN rest = {}
  BY <1>2, <1>3
<1>6. N!MaybeResolve(s4, held, NoName, rest)
  BY <1>1, <1>2, <1>3
<1> HIDE DEF held, rest
<1>7. s6' = NoName /\ s8' = rest
  BY <1>3, <1>4, <1>5, <1>6, Resolves
<1> QED
  BY <1>1, <1>2, <1>3, <1>4, <1>5, <1>7 DEF held

LEMMA Finishes ==
    ASSUME NamesInv, NEW q \in DOMAIN s8, N!Finish(q) PROVE NamesInv'
<1> DEFINE job == s8[q]
<1>1. /\ job \in N!Job /\ job.name = s4 /\ job.chain = s1
      /\ s5' = HeldFrom(job, s7[s1][s4])
      /\ s6' = NoName /\ DOMAIN s8' = {} /\ s4 \in Name /\ s1 \in Chain
      /\ s7' = IF job.outcome = "found"
               THEN [s7 EXCEPT ![s1][s4] = job.meaning.address] ELSE s7
      /\ s1' = s1 /\ s2' = s2 /\ s3' = s3 /\ s4' = s4 /\ s9' = s9 /\ s10' = s10
  BY Finished
<1>2. CouldBePaid(job.chain, job.name, job.meaning.address, job.meaning.revoked)
  BY DEF NamesInv, AnswersFit
<1>3. /\ job.meaning.address \in Address \cup {NoAddress} /\ job.meaning.revoked \in BOOLEAN
      /\ job.name \in Name
  BY <1>1 DEF N!Job, N!Meanings
<1>4. s7[s1][s4] \in Address \cup {NoAddress}
  BY <1>1 DEF NamesInv, N!TypeOK
<1> HIDE DEF job
<1>5. /\ s5' \in [typed : Name \cup {NoName}, address : Address \cup {NoAddress},
                  revoked : BOOLEAN, was : Address \cup {NoAddress}]
      /\ s5'.typed = job.name /\ s5'.address = job.meaning.address
      /\ s5'.revoked = job.meaning.revoked
  BY <1>1, <1>3, <1>4 DEF HeldFrom
<1>6. s7' \in [Chain -> [Name -> Address \cup {NoAddress}]]
  BY <1>1, <1>3 DEF NamesInv, N!TypeOK
<1>7. N!TypeOK'
  BY <1>1, <1>5, <1>6 DEF NamesInv, N!TypeOK
<1>8. OneLookup' /\ AnswersFit'
  BY <1>1 DEF OneLookup, AnswersFit
<1>9. CouldBePaid(s1, s5.typed, s5.address, s5.revoked)'
  BY <1>1, <1>2, <1>5 DEF CouldBePaid
<1> QED
  BY <1>1, <1>7, <1>8, <1>9 DEF NamesInv, N!PaysWhatItMeant

LEMMA Pays == ASSUME NamesInv, N!Prepare PROVE NamesInv'
<1>1. /\ s5.typed = s4 /\ s5.address # NoAddress /\ ~s5.revoked
      /\ s9' = [chain |-> s1, name |-> s4, to |-> s5.address]
      /\ s1' = s1 /\ s2' = s2 /\ s3' = s3 /\ s4' = s4 /\ s5' = s5 /\ s6' = s6 /\ s7' = s7
      /\ s8' = s8 /\ s10' = s10
  BY DEF N!Prepare, N!ResolvedFor
<1>2. s9' \in s10
  BY <1>1 DEF NamesInv, CouldBePaid
<1> QED
  BY <1>1, <1>2
  DEF NamesInv, N!TypeOK, OneLookup, AnswersFit, CouldBePaid, N!PaysWhatItMeant

LEMMA Moves ==
    ASSUME NamesInv, NEW c \in Chain, NEW name \in Name, N!Change(c, name) PROVE NamesInv'
<1>1. PICK new \in N!Meanings : s2' = [s2 EXCEPT ![c][name] = new]
  BY DEF N!Change
<1>2. /\ s3 < MaxChanges /\ s3' = s3 + 1 /\ s10' = s10 \cup N!Payable(s2')
      /\ s1' = s1 /\ s4' = s4 /\ s5' = s5 /\ s6' = s6 /\ s7' = s7 /\ s8' = s8 /\ s9' = s9
  BY DEF N!Change
<1>3. N!Payable(s2)' = N!Payable(s2')
  BY DEF N!Payable
<1>4. s2' \in [Chain -> [Name -> N!Meanings]] /\ s3' \in 0 .. MaxChanges
  BY <1>1, <1>2, NamesConstants DEF NamesInv, N!TypeOK
<1>5. N!TypeOK'
  BY <1>2, <1>4 DEF NamesInv, N!TypeOK
<1> QED
  BY <1>2, <1>3, <1>5
  DEF NamesInv, OneLookup, AnswersFit, CouldBePaid, N!PaysWhatItMeant

LEMMA NamesSwitch ==
    ASSUME NamesInv, NEW c \in Chain, N!Switch(c) PROVE NamesInv'
<1>1. /\ DOMAIN s8 = {} /\ s1' = c /\ s4' = NoName /\ s5' = N!NoIdentity /\ s6' = NoName
      /\ s2' = s2 /\ s3' = s3 /\ s7' = s7 /\ s8' = s8 /\ s9' = s9 /\ s10' = s10
  BY DEF N!Switch
<1>2. /\ s5'.address = NoAddress
      /\ s5' \in [typed : Name \cup {NoName}, address : Address \cup {NoAddress},
                  revoked : BOOLEAN, was : Address \cup {NoAddress}]
  BY <1>1 DEF N!NoIdentity
<1>3. N!TypeOK'
  BY <1>1, <1>2 DEF NamesInv, N!TypeOK
<1> QED
  BY <1>1, <1>2, <1>3
  DEF NamesInv, OneLookup, AnswersFit, CouldBePaid, N!PaysWhatItMeant

LEMMA NamesNext == ASSUME NamesInv, [N!Next]_(N!vars) PROVE NamesInv'
<1>1. CASE UNCHANGED (N!vars)
  BY <1>1
  DEF N!vars, NamesInv, N!TypeOK, OneLookup, AnswersFit, CouldBePaid, N!PaysWhatItMeant
<1>2. CASE N!Next
  BY <1>2, Pays, Types, Answers, Finishes, Moves, NamesSwitch DEF N!Next
<1> QED
  BY <1>1, <1>2

\* A name is asked about once at a time.
LEMMA NamesAskOnce == ASSUME NamesInv PROVE N!AskedOnce
  BY DEF NamesInv, OneLookup, N!AskedOnce

\* What a step does to the answer that is held, and to the store.
LEMMA HeldSteps ==
    ASSUME NamesInv, [N!Next]_(N!vars)
    PROVE  \/ s5' = s5 /\ s7' = s7
           \/ s4' = NoName /\ s7' = s7
           \/ \E q \in DOMAIN s8 : N!Finish(q)
<1>1. CASE UNCHANGED (N!vars)
  BY <1>1 DEF N!vars
<1>2. ASSUME NEW name \in Name \cup {NoName}, N!Type(name) PROVE s5' = s5 /\ s7' = s7
  BY <1>2 DEF N!Type
<1>3. ASSUME NEW q \in DOMAIN s8, N!Answer(q) PROVE s5' = s5 /\ s7' = s7
  BY <1>3 DEF N!Answer
<1>4. ASSUME NEW c \in Chain, N!Switch(c) PROVE s4' = NoName /\ s7' = s7
  BY <1>4 DEF N!Switch
<1>5. ASSUME NEW c \in Chain, NEW name \in Name, N!Change(c, name) PROVE s5' = s5 /\ s7' = s7
  BY <1>5 DEF N!Change
<1>6. CASE N!Prepare
  BY <1>6 DEF N!Prepare
<1> QED
  BY <1>1, <1>2, <1>3, <1>4, <1>5, <1>6 DEF N!Next

\* A warning stands: the name it is about is not looked up again while it stands there.
LEMMA NamesWarn == ASSUME NamesInv, [N!Next]_(N!vars) PROVE N!WarningStands
<1> SUFFICES ASSUME N!Note = "moved", s4' = s4 PROVE N!Note' \in {"moved", "unknown"}
  BY DEF N!WarningStands
<1>1. s4 # NoName /\ s5.typed = s4 /\ s5.address # NoAddress /\ s5.was # NoAddress
  BY DEF N!Note, N!ResolvedFor
<1>2. CASE s5' = s5
  BY <1>1, <1>2 DEF N!Note, N!ResolvedFor
<1>3. ASSUME NEW q \in DOMAIN s8, N!Finish(q) PROVE FALSE
  BY <1>1, <1>3, Finished
<1> QED
  BY <1>1, <1>2, <1>3, HeldSteps

\* What a name meant is written over only in a step that shows it.
LEMMA NamesForget == ASSUME NamesInv, [N!Next]_(N!vars) PROVE N!ForgottenOnceShown
<1> SUFFICES ASSUME NEW c \in Chain, NEW name \in Name,
                    s7[c][name] \notin {NoAddress, s7'[c][name]}
             PROVE  s4 = name /\ N!Note' = "moved"
  BY DEF N!ForgottenOnceShown
<1>1. s7' # s7
  OBVIOUS
<1>2. PICK q \in DOMAIN s8 : N!Finish(q)
  BY <1>1, HeldSteps
<1> DEFINE job == s8[q]
<1>3. /\ s5' = HeldFrom(job, s7[s1][s4]) /\ s5'.typed = s4 /\ s4' = s4 /\ s4 \in Name
      /\ s1 \in Chain
      /\ s7' = IF job.outcome = "found"
               THEN [s7 EXCEPT ![s1][s4] = job.meaning.address] ELSE s7
  BY <1>2, Finished
<1>4. job.outcome = "found" /\ job.meaning.address # NoAddress
  BY <1>1, <1>3 DEF NamesInv, AnswersFit
<1>5. s7 \in [Chain -> [Name -> Address \cup {NoAddress}]]
  BY DEF NamesInv, N!TypeOK
<1> HIDE DEF job
<1>6. c = s1 /\ name = s4 /\ s7[s1][s4] # job.meaning.address /\ s7[s1][s4] # NoAddress
  BY <1>3, <1>4, <1>5
<1>7. s5'.address # NoAddress /\ s5'.was # NoAddress
  BY <1>3, <1>4, <1>6 DEF HeldFrom
<1>8. s4' # NoName
  BY <1>3, NamesConstants
<1> QED
  BY <1>3, <1>6, <1>7, <1>8 DEF N!Note, N!ResolvedFor

-----------------------------------------------------------------------------
(* The markets: s9 is the draft, s10 its ticket, s11 what was ready to be estimated, *)
(* s12 the floor, s13 the quote on the screen, s14 what was signed, s15 the readings *)
(* under way.                                                                        *)
(*                                                                            *)
(* Every edit is a new ticket, so an estimate, a floor and a quote that carry  *)
(* the ticket that is current are of the draft that is there, in whatever      *)
(* order readings come back.                                                   *)

\* The estimates under way are of tickets that were given out, and the current one's
\* is of the draft.
EstimatesFit ==
    \A r \in s15 : r.kind = "estimate" =>
        r.ticket \in 1 .. s10 /\ (r.ticket = s10 => r.draft = s9 /\ s11.draft = s9)

\* A floor with the current ticket is of the draft.
FloorFits == s12.ticket \in 0 .. s10 /\ (s12.ticket = s10 => s12.draft = s9)

\* A price beside a floor with the current ticket is of that ticket and the draft.
QuoteFits == s13.priced /\ s12.ticket = s10 => s13 = K!Priced(s10, s9)

MarketsInv ==
    /\ s10 \in Nat /\ EstimatesFit /\ FloorFits /\ QuoteFits
    /\ K!FloorWasShown /\ K!QuoteIsOfDraft

LEMMA MarketsInit == ASSUME K!Init PROVE MarketsInv
<1>1. s9 = K!Unpicked /\ s10 = 0 /\ s12 = K!NoFloor /\ s13 = K!Refusal(0, K!Unpicked)
      /\ s14 = {} /\ s15 = {}
  BY DEF K!Init
<1>2. s12.ticket = 0 /\ s12.draft = s9 /\ ~s13.priced /\ s13.draft = s9
  BY <1>1 DEF K!NoFloor, K!Refusal
<1> QED
  BY <1>1, <1>2
  DEF MarketsInv, EstimatesFit, FloorFits, QuoteFits, K!FloorWasShown, K!QuoteIsOfDraft

\* The draft is edited, or checked once more against other balances.
LEMMA Edits ==
    ASSUME MarketsInv, NEW d, NEW held, K!Drafted(d, held), s12' = s12, s14' = s14
    PROVE  MarketsInv'
<1>1. s10' = s10 + 1 /\ s10' \in Nat /\ s10 \in Nat /\ s9' = d
  BY DEF K!Drafted, MarketsInv
<1>2. FloorFits' /\ QuoteFits'
  BY <1>1 DEF MarketsInv, FloorFits, QuoteFits
<1>3. K!FloorWasShown'
  BY DEF MarketsInv, K!FloorWasShown
<1>4. CASE s13' = K!Refusal(s10', d) /\ s15' = s15
  <2>1. s13'.draft = s9'
    BY ONLY <1>1, <1>4 DEF K!Refusal
  <2>2. EstimatesFit'
    BY <1>1, <1>4 DEF MarketsInv, EstimatesFit
  <2> QED
    BY <1>1, <1>2, <1>3, <2>1, <2>2 DEF MarketsInv, K!QuoteIsOfDraft
<1>5. CASE /\ s11' = [draft |-> d, pool |-> K!Route(s4)] /\ s13' = s13
           /\ s15' = s15 \cup {K!Reading("estimate", s10', d)}
  <2> DEFINE new == K!Reading("estimate", s10', d)
  <2>1. /\ new.kind = "estimate" /\ new.ticket = s10' /\ new.draft = d /\ s11'.draft = d
        /\ s15' = s15 \cup {new}
    BY ONLY <1>5 DEF K!Reading
  <2> HIDE DEF new
  <2>2. EstimatesFit'
    BY <1>1, <2>1 DEF MarketsInv, EstimatesFit
  <2>3. K!QuoteIsOfDraft'
    BY <2>1 DEF K!QuoteIsOfDraft
  <2> QED
    BY <1>1, <1>2, <1>3, <2>2, <2>3 DEF MarketsInv
<1> QED
  BY <1>1, <1>4, <1>5 DEF K!Drafted

\* An estimate comes back.
LEMMA Estimates ==
    ASSUME MarketsInv, NEW r \in s15, K!FinishConvertEstimate(r) PROVE MarketsInv'
<1>1. /\ r.kind = "estimate" /\ s15' = s15 \ {r}
      /\ \/ r.ticket # s10 /\ s12' = s12 /\ s13' = s13
         \/ /\ r.ticket = s10 /\ s12'.ticket = s10 /\ s12'.draft = r.draft
            /\ s13' = K!Priced(s10, s11.draft)
         \/ r.ticket = s10 /\ s13' = K!Refusal(s10, s9) /\ s12' = s12
      /\ s9' = s9 /\ s10' = s10 /\ s11' = s11 /\ s14' = s14
  BY DEF K!FinishConvertEstimate
<1>2. r.ticket = s10 => r.draft = s9 /\ s11.draft = s9
  BY <1>1 DEF MarketsInv, EstimatesFit
<1>3. EstimatesFit' /\ K!FloorWasShown'
  BY <1>1 DEF MarketsInv, EstimatesFit, K!FloorWasShown
<1>4. CASE r.ticket # s10
  <2>1. FloorFits' /\ QuoteFits' /\ K!QuoteIsOfDraft'
    BY <1>1, <1>4 DEF MarketsInv, FloorFits, QuoteFits, K!QuoteIsOfDraft
  <2> QED
    BY <1>1, <1>3, <2>1 DEF MarketsInv
<1>5. CASE /\ r.ticket = s10 /\ s12'.ticket = s10 /\ s12'.draft = r.draft
           /\ s13' = K!Priced(s10, s11.draft)
  <2>1. s13' = K!Priced(s10, s9) /\ s13'.draft = s9
    BY ONLY <1>2, <1>5 DEF K!Priced
  <2>2. s10 \in Nat /\ s9' = s9 /\ s10' = s10
    BY <1>1 DEF MarketsInv
  <2>3. FloorFits'
    BY ONLY <1>2, <1>5, <2>2 DEF FloorFits
  <2>4. QuoteFits'
    BY ONLY <2>1, <2>2 DEF QuoteFits, K!Priced
  <2>5. K!QuoteIsOfDraft'
    BY ONLY <2>1, <2>2 DEF K!QuoteIsOfDraft
  <2> QED
    BY <1>3, <2>2, <2>3, <2>4, <2>5 DEF MarketsInv
<1>6. CASE r.ticket = s10 /\ s13' = K!Refusal(s10, s9) /\ s12' = s12
  <2>1. s13'.priced = FALSE /\ s13'.draft = s9
    BY ONLY <1>6 DEF K!Refusal
  <2>2. s10 \in Nat /\ s9' = s9 /\ s10' = s10
    BY <1>1 DEF MarketsInv
  <2>3. FloorFits' /\ QuoteFits'
    BY <1>6, <2>1, <2>2 DEF MarketsInv, FloorFits, QuoteFits
  <2>4. K!QuoteIsOfDraft'
    BY ONLY <2>1, <2>2 DEF K!QuoteIsOfDraft
  <2> QED
    BY <1>3, <2>2, <2>3, <2>4 DEF MarketsInv
<1> QED
  BY <1>1, <1>4, <1>5, <1>6

\* A conversion is signed, or refused on the screen.
LEMMA Converts == ASSUME MarketsInv, K!PrepareConversion PROVE MarketsInv'
<1> DEFINE new == [of |-> s4.of, chain |-> s1, draft |-> s9, shown |-> s13, floor |-> s12]
<1>1. /\ s13.priced
      /\ \/ s13' = K!Refusal(s10, s9) /\ s14' = s14
         \/ s12.ticket = s10 /\ s13' = s13 /\ s14' \in {s14, s14 \cup {new}}
      /\ s9' = s9 /\ s10' = s10 /\ s11' = s11 /\ s12' = s12 /\ s15' = s15
  BY DEF K!PrepareConversion
<1>2. EstimatesFit' /\ FloorFits'
  BY <1>1 DEF MarketsInv, EstimatesFit, FloorFits
<1>3. CASE s13' = K!Refusal(s10, s9) /\ s14' = s14
  <2>1. s13'.priced = FALSE /\ s13'.draft = s9
    BY ONLY <1>3 DEF K!Refusal
  <2>2. s10' \in Nat /\ s9' = s9
    BY <1>1 DEF MarketsInv
  <2>3. QuoteFits'
    BY ONLY <2>1 DEF QuoteFits
  <2>4. K!FloorWasShown'
    BY ONLY MarketsInv, <1>3 DEF MarketsInv, K!FloorWasShown
  <2>5. K!QuoteIsOfDraft'
    BY ONLY <2>1, <2>2 DEF K!QuoteIsOfDraft
  <2> QED
    BY <1>2, <2>2, <2>3, <2>4, <2>5 DEF MarketsInv
<1>4. CASE s12.ticket = s10 /\ s13' = s13 /\ s14' \in {s14, s14 \cup {new}}
  <2>1. /\ new.floor = s12 /\ new.draft = s9 /\ new.shown = s13
        /\ s14' \in {s14, s14 \cup {new}}
    BY <1>4
  <2> HIDE DEF new
  <2>2. s12.draft = s9 /\ s13 = K!Priced(s12.ticket, s9)
    BY <1>1, <1>4 DEF MarketsInv, FloorFits, QuoteFits
  <2>3. K!Priced(s12.ticket, s9)' = K!Priced(s12.ticket, s9)
    BY <1>1 DEF K!Priced
  <2>4. K!FloorWasShown'
    BY <2>1, <2>2 DEF MarketsInv, K!FloorWasShown, K!Priced
  <2> QED
    BY <1>1, <1>2, <1>4, <2>4 DEF MarketsInv, QuoteFits, K!QuoteIsOfDraft, K!Priced
<1> QED
  BY <1>1, <1>3, <1>4

\* Neither the form, nor the floor, nor the quote is touched, and no estimate.
LEMMA FormStays ==
    ASSUME MarketsInv, s9' = s9, s10' = s10, s11' = s11, s12' = s12, s13' = s13,
           s14' = s14 \/ s14' = {},
           \A r : r.kind = "estimate" => (r \in s15' <=> r \in s15)
    PROVE  MarketsInv'
<1>1. EstimatesFit' /\ FloorFits' /\ QuoteFits'
  BY DEF MarketsInv, EstimatesFit, FloorFits, QuoteFits, K!Priced
<1>2. K!FloorWasShown'
  BY DEF MarketsInv, K!FloorWasShown
<1>3. K!QuoteIsOfDraft'
  BY DEF MarketsInv, K!QuoteIsOfDraft
<1> QED
  BY <1>1, <1>2, <1>3 DEF MarketsInv

LEMMA MarketsNext == ASSUME MarketsInv, [K!Next]_(K!vars) PROVE MarketsInv'
<1>1. CASE UNCHANGED (K!vars) \/ K!Notarize \/ K!FinishHalt
  BY <1>1, FormStays DEF K!vars, K!Notarize, K!FinishHalt, K!UnchangedForm
<1>2. CASE K!RefreshMarkets
  <2> DEFINE new == K!Reading("markets", 0, K!Unpicked)
  <2>1. /\ s15' = s15 \cup {new}
        /\ s9' = s9 /\ s10' = s10 /\ s11' = s11 /\ s12' = s12 /\ s13' = s13 /\ s14' = s14
    BY <1>2 DEF K!RefreshMarkets, K!UnchangedForm
  <2>2. new.kind = "markets"
    BY DEF K!Reading
  <2> HIDE DEF new
  <2>3. \A r : r.kind = "estimate" => (r \in s15' <=> r \in s15)
    BY <2>1, <2>2
  <2> QED
    BY <2>1, <2>3, FormStays
<1>3. ASSUME NEW r \in s15, K!FinishMarkets(r) PROVE MarketsInv'
  <2>1. /\ r.kind = "markets" /\ s15' = s15 \ {r}
        /\ s9' = s9 /\ s10' = s10 /\ s11' = s11 /\ s12' = s12 /\ s13' = s13 /\ s14' = s14
    BY <1>3 DEF K!FinishMarkets, K!UnchangedForm
  <2>2. \A q : q.kind = "estimate" => (q \in s15' <=> q \in s15)
    BY <2>1
  <2> QED
    BY <2>1, <2>2, FormStays
<1>4. ASSUME NEW d, K!SetConvertDraft(d) PROVE MarketsInv'
  BY <1>4, Edits DEF K!SetConvertDraft
<1>5. ASSUME NEW held, K!FinishRefresh(held) PROVE MarketsInv'
  <2>1. CASE s9.from = Nowhere
    BY <1>5, <2>1, FormStays DEF K!FinishRefresh
  <2>2. CASE s9.from # Nowhere
    BY <1>5, <2>2, Edits DEF K!FinishRefresh
  <2> QED
    BY <2>1, <2>2
<1>6. ASSUME NEW c, K!SwitchNetwork(c) PROVE MarketsInv'
  BY <1>6, FormStays DEF K!SwitchNetwork
<1>7. CASE K!SwapConvertLegs
  BY <1>7, <1>4 DEF K!SwapConvertLegs
<1>8. CASE K!Next
  BY <1>8, <1>1, <1>2, <1>3, <1>4, <1>5, <1>6, <1>7, Estimates, Converts DEF K!Next
<1> QED
  BY <1>1, <1>8

-----------------------------------------------------------------------------
(* The address book: s1 is the open chain, s2 the tables, s3 the addresses in memory, *)
(* s4 the entries of the ledgers, s5 the last of them, s7 the look-ups under way, s11 *)
(* what was paid, s13 what was forgotten.                                       *)
(*                                                                            *)
(* Two instances, one of which dies between two writes, take steps of the same *)
(* few kinds, so the steps are told apart for each and the rest is said once.  *)
(* A chain's table may get rows nobody in memory knows of, from names that come *)
(* late, so memory is not the table; but who was paid has a row in the chain's  *)
(* table, and is in memory while the chain is open.                            *)

Rows == [in : BOOLEAN, label : BOOLEAN, name : BOOLEAN, payments : Nat]
Entries == [id : Nat, to : Address, conversion : BOOLEAN]

BookRest(chains, converts) ==
    /\ s4 \in [chains -> SUBSET Entries] /\ s5 \in Nat
    /\ \A c \in chains : \A e \in s4[c] : e.conversion => converts
    /\ \A q \in s7 : q.wanted \subseteq Address
    /\ s13 \in [chains -> SUBSET Address]

BookInv(chains, exact) ==
    /\ s1 \in chains
    /\ s2 \in [chains -> [Address -> Rows]]
    /\ s11 \in [chains -> [Address -> Nat]]
    /\ BookRest(chains, ~exact)
    /\ \A c \in chains, a \in Address : s11[c][a] > 0 => s2[c][a].in
    /\ \A a \in Address : s11[s1][a] > 0 => a \in s3
    /\ exact => \A c \in chains, a \in Address : s2[c][a].payments = s11[c][a]

\* One row of the open chain's table is another.
RowSet(a, row) == s1' = s1 /\ s2' = [s2 EXCEPT ![s1] = [s2[s1] EXCEPT ![a] = row]]

RowCounted(a, row) ==
    /\ RowSet(a, row)
    /\ row.in /\ row.label = s2[s1][a].label /\ row.payments = s2[s1][a].payments + 1

\* The kinds of steps.
CountsPayment(exact) ==
    \E a \in Address, row \in Rows :
        /\ RowCounted(a, row) /\ s3' = s3 \cup {a}
        /\ \/ s11' = [s11 EXCEPT ![s1] = [s11[s1] EXCEPT ![a] = @ + 1]]
           \/ ~exact /\ s11' = s11
CountsAndDies ==
    \E a \in Address, row \in Rows :
        RowCounted(a, row) /\ s3' = {k \in Address : s2'[s1][k].in} /\ s11' = s11
SetsLabel ==
    \E a \in Address, row \in Rows :
        /\ RowSet(a, row) /\ s3' = s3 \cup {a} /\ s11' = s11
        /\ row.in /\ row.payments = s2[s1][a].payments
        /\ row.label \/ A!Label(a, FALSE)
ForgetsRow ==
    \E a \in Address :
        /\ RowSet(a, A!NoRow) /\ s3' = s3 \ {a}
        /\ s11' = [s11 EXCEPT ![s1] = [s11[s1] EXCEPT ![a] = 0]]
        /\ a \in s13'[s1]
TakesNames ==
    \E found \in SUBSET Address :
        /\ s1' = s1 /\ s3' = s3 /\ s11' = s11
        /\ s2' = [s2 EXCEPT ![s1] =
               [a \in Address |-> IF a \in found
                                  THEN [s2[s1][a] EXCEPT !.in = TRUE, !.name = TRUE]
                                  ELSE s2[s1][a]]]
OpensBook(chains) ==
    \E c \in chains :
        s1' = c /\ s2' = s2 /\ s3' = {a \in Address : s2[c][a].in} /\ s11' = s11

BookStep(chains, exact) ==
    /\ BookRest(chains, ~exact)'
    /\ \/ s1' = s1 /\ s2' = s2 /\ s3' = s3 /\ s11' = s11
       \/ CountsPayment(exact) \/ (~exact /\ CountsAndDies)
       \/ SetsLabel \/ ForgetsRow \/ TakesNames \/ OpensBook(chains)

\* What the operations on a table make of a row.
LEMMA RowCalled ==
    ASSUME NEW r \in Rows, NEW new, new = [r EXCEPT !.in = TRUE, !.name = TRUE]
    PROVE  new \in Rows /\ new.in /\ new.label = r.label /\ new.payments = r.payments
<1> DEFINE there == [r EXCEPT !.in = TRUE]
<1>1. there \in Rows /\ there.in /\ there.label = r.label /\ there.payments = r.payments
  BY DEF Rows
<1>2. new = [there EXCEPT !.name = TRUE]
  BY Zenon DEF there
<1> HIDE DEF there
<1>3. new \in Rows
  BY <1>1, <1>2 DEF Rows
<1>4. new.in /\ new.payments = there.payments
  BY <1>1, <1>2 DEF Rows
<1>5. new.label = there.label
  BY <1>1, <1>2 DEF Rows
<1> QED
  BY <1>1, <1>3, <1>4, <1>5

LEMMA RowPaid ==
    ASSUME NEW r \in Rows, NEW new, new = [r EXCEPT !.in = TRUE, !.payments = @ + 1]
    PROVE  new \in Rows /\ new.in /\ new.label = r.label /\ new.payments = r.payments + 1
<1> DEFINE there == [r EXCEPT !.in = TRUE]
<1>1. there \in Rows /\ there.in /\ there.label = r.label /\ there.payments = r.payments
  BY DEF Rows
<1>2. new = [there EXCEPT !.payments = r.payments + 1]
  BY Zenon DEF there
<1> HIDE DEF there
<1>3. new \in Rows
  BY <1>1, <1>2 DEF Rows
<1>4. new.in /\ new.payments = r.payments + 1
  BY <1>1, <1>2 DEF Rows
<1>5. new.label = there.label
  BY <1>1, <1>2 DEF Rows
<1> QED
  BY <1>1, <1>3, <1>4, <1>5

LEMMA RowSpoken ==
    ASSUME NEW r \in Rows, NEW naming \in BOOLEAN,
           NEW new, new = [r EXCEPT !.in = TRUE, !.label = naming]
    PROVE  new \in Rows /\ new.in /\ new.label = naming /\ new.payments = r.payments
<1> DEFINE there == [r EXCEPT !.in = TRUE]
<1>1. there \in Rows /\ there.in /\ there.payments = r.payments
  BY DEF Rows
<1>2. new = [there EXCEPT !.label = naming]
  BY Zenon DEF there
<1> HIDE DEF there
<1>3. new \in Rows
  BY <1>1, <1>2 DEF Rows
<1>4. new.in /\ new.payments = there.payments
  BY <1>1, <1>2 DEF Rows
<1>5. new.label = naming
  BY <1>1, <1>2 DEF Rows
<1> QED
  BY <1>1, <1>3, <1>4, <1>5

LEMMA RowNoted ==
    ASSUME NEW t \in [Address -> Rows], NEW a \in Address,
           NEW new \in {A!NotePayment(t, a), A!NameAddress(A!NotePayment(t, a), a)}
    PROVE  \E row \in Rows :
               /\ new = [t EXCEPT ![a] = row]
               /\ row.in /\ row.label = t[a].label /\ row.payments = t[a].payments + 1
<1> DEFINE counted == [t[a] EXCEPT !.in = TRUE, !.payments = @ + 1]
<1> DEFINE called == [counted EXCEPT !.in = TRUE, !.name = TRUE]
<1>1. /\ counted \in Rows /\ counted.in /\ counted.label = t[a].label
      /\ counted.payments = t[a].payments + 1
  BY RowPaid
<1>2. called \in Rows /\ called.in /\ called.label = counted.label
      /\ called.payments = counted.payments
  BY <1>1, RowCalled
<1>3. A!NotePayment(t, a) = [t EXCEPT ![a] = counted]
  BY DEF A!NotePayment
<1>4. A!NameAddress([t EXCEPT ![a] = counted], a) = [t EXCEPT ![a] = called]
  BY <1>1 DEF A!NameAddress
<1> HIDE DEF counted, called
<1> QED
  BY <1>1, <1>2, <1>3, <1>4

LEMMA RowLabelled ==
    ASSUME NEW t \in [Address -> Rows], NEW a \in Address, NEW naming \in BOOLEAN
    PROVE  \E row \in Rows :
               /\ A!LabelRow(t, a, naming) = [t EXCEPT ![a] = row]
               /\ row.in /\ row.label = naming /\ row.payments = t[a].payments
<1>1. PICK old \in Rows : old = t[a]
  OBVIOUS
<1>2. PICK new : new = [old EXCEPT !.in = TRUE, !.label = naming]
  OBVIOUS
<1>3. new \in Rows /\ new.in /\ new.label = naming /\ new.payments = old.payments
  BY <1>2, RowSpoken, Zenon
<1>4. A!LabelRow(t, a, naming) = [t EXCEPT ![a] = new]
  BY <1>1, <1>2, Zenon DEF A!LabelRow
<1> QED
  BY <1>1, <1>3, <1>4

\* One entry of one chain's table is another.
LEMMA OneSet ==
    ASSUME NEW chains, NEW Z, NEW t \in [chains -> [Address -> Z]],
           NEW c \in chains, NEW a \in Address, NEW x1 \in Z,
           NEW new, new = [t EXCEPT ![c] = [t[c] EXCEPT ![a] = x1]]
    PROVE  /\ new \in [chains -> [Address -> Z]]
           /\ \A d \in chains, k \in Address :
                  new[d][k] = IF d = c /\ k = a THEN x1 ELSE t[d][k]
<1>1. [t[c] EXCEPT ![a] = x1] \in [Address -> Z]
  OBVIOUS
<1>2. \A d \in chains : new[d] = IF d = c THEN [t[c] EXCEPT ![a] = x1] ELSE t[d]
  OBVIOUS
<1> QED
  BY <1>1, <1>2

\* The steps keep the invariant.
LEMMA BookCounts ==
    ASSUME NEW chains, NEW exact \in BOOLEAN, BookInv(chains, exact),
           BookRest(chains, ~exact)', NEW a \in Address, NEW row \in Rows, RowCounted(a, row),
           a \in s3', \A k \in Address : s11[s1][k] > 0 => k \in s3',
           \/ s11' = [s11 EXCEPT ![s1] = [s11[s1] EXCEPT ![a] = @ + 1]]
           \/ ~exact /\ s11' = s11
    PROVE  BookInv(chains, exact)'
<1>1. /\ s1 \in chains /\ s2 \in [chains -> [Address -> Rows]]
      /\ s11 \in [chains -> [Address -> Nat]]
      /\ \A c \in chains, k \in Address : s11[c][k] > 0 => s2[c][k].in
      /\ exact => \A c \in chains, k \in Address : s2[c][k].payments = s11[c][k]
  BY DEF BookInv
<1>2. s1' = s1 /\ s2' = [s2 EXCEPT ![s1] = [s2[s1] EXCEPT ![a] = row]]
      /\ row.in /\ row.payments = s2[s1][a].payments + 1
  BY DEF RowCounted, RowSet
<1>3. /\ s2' \in [chains -> [Address -> Rows]]
      /\ \A c \in chains, k \in Address :
             s2'[c][k] = IF c = s1 /\ k = a THEN row ELSE s2[c][k]
  BY <1>1, <1>2, OneSet
<1>4. /\ s11' \in [chains -> [Address -> Nat]]
      /\ \A c \in chains, k \in Address : ~(c = s1 /\ k = a) => s11'[c][k] = s11[c][k]
      /\ exact => s11'[s1][a] = s11[s1][a] + 1
  <2>1. CASE s11' = s11
    <3>1. ~exact \/ s11'[s1] = [s11[s1] EXCEPT ![a] = s11[s1][a] + 1]
      BY <1>1
    <3> QED
      BY <1>1, <2>1, <3>1
  <2>2. CASE s11' = [s11 EXCEPT ![s1] = [s11[s1] EXCEPT ![a] = s11[s1][a] + 1]]
    BY <1>1, <2>2, s11[s1][a] + 1 \in Nat, OneSet
  <2> QED
    BY <2>1, <2>2
<1>5. \A c \in chains, k \in Address : s11'[c][k] > 0 => s2'[c][k].in
  BY <1>1, <1>2, <1>3, <1>4
<1>6. \A k \in Address : s11'[s1'][k] > 0 => k \in s3'
  BY <1>1, <1>2, <1>4
<1>7. exact => \A c \in chains, k \in Address : s2'[c][k].payments = s11'[c][k]
  <2> SUFFICES ASSUME exact, NEW c \in chains, NEW k \in Address
               PROVE  s2'[c][k].payments = s11'[c][k]
    OBVIOUS
  <2> QED
    BY <1>1, <1>2, <1>3, <1>4
<1> QED
  BY <1>1, <1>2, <1>3, <1>4, <1>5, <1>6, <1>7 DEF BookInv

LEMMA BookKept ==
    ASSUME NEW chains, NEW exact \in BOOLEAN, BookInv(chains, exact), BookStep(chains, exact)
    PROVE  BookInv(chains, exact)'
<1>0. /\ s1 \in chains /\ s2 \in [chains -> [Address -> Rows]]
      /\ s11 \in [chains -> [Address -> Nat]]
      /\ \A c \in chains, k \in Address : s11[c][k] > 0 => s2[c][k].in
      /\ \A k \in Address : s11[s1][k] > 0 => k \in s3
      /\ exact => \A c \in chains, k \in Address : s2[c][k].payments = s11[c][k]
  BY DEF BookInv
<1>00. BookRest(chains, ~exact)'
  BY DEF BookStep
<1>1. CASE s1' = s1 /\ s2' = s2 /\ s3' = s3 /\ s11' = s11
  BY <1>0, <1>00, <1>1 DEF BookInv
<1>2. CASE CountsPayment(exact)
  <2>1. PICK a \in Address, row \in Rows :
           /\ RowCounted(a, row) /\ s3' = s3 \cup {a}
           /\ \/ s11' = [s11 EXCEPT ![s1] = [s11[s1] EXCEPT ![a] = @ + 1]]
              \/ ~exact /\ s11' = s11
    BY <1>2 DEF CountsPayment
  <2>2. a \in s3' /\ \A k \in Address : s11[s1][k] > 0 => k \in s3'
    BY <1>0, <2>1
  <2> QED
    BY <1>00, <2>1, <2>2, BookCounts
<1>3. CASE ~exact /\ CountsAndDies
  <2>1. PICK a \in Address, row \in Rows :
           RowCounted(a, row) /\ s3' = {k \in Address : s2'[s1][k].in} /\ s11' = s11
    BY <1>3 DEF CountsAndDies
  <2>2. \A k \in Address : s2'[s1][k] = IF k = a THEN row ELSE s2[s1][k]
    BY <1>0, <2>1 DEF RowCounted, RowSet
  <2>3. a \in s3' /\ \A k \in Address : s11[s1][k] > 0 => k \in s3'
    BY <1>0, <2>1, <2>2 DEF RowCounted
  <2> QED
    BY <1>3, <1>00, <2>1, <2>3, BookCounts
<1>4. CASE SetsLabel
  <2>1. PICK a \in Address, row \in Rows :
           /\ RowSet(a, row) /\ s3' = s3 \cup {a} /\ s11' = s11
           /\ row.in /\ row.payments = s2[s1][a].payments
    BY <1>4 DEF SetsLabel
  <2>2. /\ s1' = s1 /\ s2' \in [chains -> [Address -> Rows]]
        /\ \A c \in chains, k \in Address :
               s2'[c][k] = IF c = s1 /\ k = a THEN row ELSE s2[c][k]
    <3>1. s1' = s1 /\ s2' = [s2 EXCEPT ![s1] = [s2[s1] EXCEPT ![a] = row]]
      BY <2>1 DEF RowSet
    <3>2. s1 \in chains /\ s2 \in [chains -> [Address -> Rows]]
      BY <1>0
    <3> QED
      BY <3>1, <3>2, OneSet, Zenon
  <2>3. \A c \in chains, k \in Address : s11'[c][k] > 0 => s2'[c][k].in
    BY <1>0, <2>1, <2>2
  <2>4. exact => \A c \in chains, k \in Address : s2'[c][k].payments = s11'[c][k]
    BY ZenonT(60), <1>0, <2>1, <2>2
  <2>5. \A k \in Address : s11'[s1'][k] > 0 => k \in s3'
    BY <1>0, <2>1, <2>2
  <2> QED
    BY <1>0, <1>00, <2>1, <2>2, <2>3, <2>4, <2>5 DEF BookInv
<1>5. CASE ForgetsRow
  <2>1. PICK a \in Address :
           /\ RowSet(a, A!NoRow) /\ s3' = s3 \ {a}
           /\ s11' = [s11 EXCEPT ![s1] = [s11[s1] EXCEPT ![a] = 0]]
    BY <1>5 DEF ForgetsRow
  <2>0. A!NoRow \in Rows /\ A!NoRow.payments = 0
    BY DEF A!NoRow, Rows
  <2>2. /\ s1' = s1 /\ s2' \in [chains -> [Address -> Rows]]
        /\ \A c \in chains, k \in Address :
               s2'[c][k] = IF c = s1 /\ k = a THEN A!NoRow ELSE s2[c][k]
    BY <1>0, <2>0, <2>1, OneSet DEF RowSet
  <2>3. /\ s11' \in [chains -> [Address -> Nat]]
        /\ \A c \in chains, k \in Address :
               s11'[c][k] = IF c = s1 /\ k = a THEN 0 ELSE s11[c][k]
    BY <1>0, <2>1, OneSet
  <2>4. \A c \in chains, k \in Address : s11'[c][k] > 0 => s2'[c][k].in
    BY <1>0, <2>2, <2>3
  <2>5. \A k \in Address : s11'[s1'][k] > 0 => k \in s3'
    BY <1>0, <2>1, <2>2, <2>3
  <2>6. exact => \A c \in chains, k \in Address : s2'[c][k].payments = s11'[c][k]
    BY <1>0, <2>0, <2>2, <2>3
  <2> QED
    BY <1>0, <1>00, <2>2, <2>3, <2>4, <2>5, <2>6 DEF BookInv
<1>6. CASE TakesNames
  <2>1. PICK found \in SUBSET Address :
           /\ s1' = s1 /\ s3' = s3 /\ s11' = s11
           /\ s2' = [s2 EXCEPT ![s1] =
                  [a \in Address |-> IF a \in found
                                     THEN [s2[s1][a] EXCEPT !.in = TRUE, !.name = TRUE]
                                     ELSE s2[s1][a]]]
    BY <1>6 DEF TakesNames
  <2>2. \A a \in Address :
           LET row == [s2[s1][a] EXCEPT !.in = TRUE, !.name = TRUE] IN
           row \in Rows /\ row.in /\ row.payments = s2[s1][a].payments
    <3> TAKE a \in Address
    <3>1. s2[s1][a] \in Rows
      BY <1>0
    <3> QED
      BY <3>1, RowCalled
  <2>3. PICK table :
           /\ table = [a \in Address |-> IF a \in found
                                         THEN [s2[s1][a] EXCEPT !.in = TRUE, !.name = TRUE]
                                         ELSE s2[s1][a]]
           /\ s2' = [s2 EXCEPT ![s1] = table]
    BY <2>1
  <2>4. s1 \in chains /\ s2 \in [chains -> [Address -> Rows]]
    BY <1>0
  <2>5. \A a \in Address :
           /\ table[a] \in Rows /\ (s2[s1][a].in => table[a].in)
           /\ table[a].payments = s2[s1][a].payments
    <3> TAKE a \in Address
    <3>1. CASE a \in found
      BY <2>2, <2>3, <3>1
    <3>2. CASE a \notin found
      BY <2>3, <2>4, <3>2
    <3> QED
      BY <3>1, <3>2
  <2>6. table \in [Address -> Rows]
    BY <2>3, <2>5
  <2>7. /\ s2' \in [chains -> [Address -> Rows]]
        /\ \A c \in chains, k \in Address :
              /\ s2[c][k].in => s2'[c][k].in
              /\ s2'[c][k].payments = s2[c][k].payments
    <3>1. \A c \in chains : s2'[c] = IF c = s1 THEN table ELSE s2[c]
      BY <2>3, <2>4, Zenon
    <3>2. s2' \in [chains -> [Address -> Rows]]
      BY <2>3, <2>4, <2>6, Zenon
    <3> QED
      BY <3>1, <3>2, <2>5
  <2> QED
    BY ZenonT(60), <1>0, <1>00, <2>1, <2>7 DEF BookInv
<1>7. CASE OpensBook(chains)
  BY <1>0, <1>00, <1>7 DEF BookInv, OpensBook
<1> QED
  BY <1>1, <1>2, <1>3, <1>4, <1>5, <1>6, <1>7 DEF BookStep

\* A label goes by the owner's hand only.
LEMMA LabelsStay ==
    ASSUME NEW chains, NEW exact \in BOOLEAN, BookInv(chains, exact), BookStep(chains, exact),
           NEW c \in chains, NEW a \in Address, s2[c][a].label, ~s2'[c][a].label
    PROVE  a \in s13'[c] \/ A!Label(a, FALSE)
<1>0. s1 \in chains /\ s2 \in [chains -> [Address -> Rows]]
  BY DEF BookInv
<1>1. ASSUME NEW k \in Address, NEW row \in Rows, RowSet(k, row)
      PROVE  c = s1 /\ a = k /\ s2'[c][a] = row
  BY <1>0, <1>1 DEF RowSet
<1>2. CASE CountsPayment(exact) \/ CountsAndDies
  BY <1>0, <1>1, <1>2 DEF CountsPayment, CountsAndDies, RowCounted
<1>3. CASE SetsLabel
  BY <1>1, <1>3 DEF SetsLabel
<1>4. CASE ForgetsRow
  <2>1. A!NoRow \in Rows
    BY DEF A!NoRow, Rows
  <2> QED
    BY <1>1, <1>4, <2>1 DEF ForgetsRow
<1>5. CASE TakesNames
  <2>1. PICK found \in SUBSET Address :
           s2' = [s2 EXCEPT ![s1] =
                  [k \in Address |-> IF k \in found
                                     THEN [s2[s1][k] EXCEPT !.in = TRUE, !.name = TRUE]
                                     ELSE s2[s1][k]]]
    BY <1>5 DEF TakesNames
  <2>2. \A k \in Address : [s2[s1][k] EXCEPT !.in = TRUE, !.name = TRUE].label = s2[s1][k].label
    <3> TAKE k \in Address
    <3>1. s2[s1][k] \in Rows
      BY <1>0
    <3> QED
      BY <3>1, RowCalled
  <2> QED
    BY <1>0, <2>1, <2>2
<1> QED
  BY <1>2, <1>3, <1>4, <1>5 DEF BookStep, OpensBook

\* The steps of the address book are of these kinds.
LEMMA EntryMade ==
    ASSUME NEW chains, NEW exact \in BOOLEAN, BookInv(chains, exact),
           NEW a \in Address, NEW conversion \in BOOLEAN, conversion => ~exact,
           s4' = [s4 EXCEPT ![s1] =
                     @ \cup {[id |-> s5 + 1, to |-> a, conversion |-> conversion]}],
           s5' = s5 + 1, UNCHANGED <<s1, s2, s3, s7, s11, s13>>
    PROVE  BookStep(chains, exact)
<1>0. /\ s1 \in chains /\ s4 \in [chains -> SUBSET Entries] /\ s5 \in Nat
      /\ \A c \in chains : \A e \in s4[c] : e.conversion => ~exact
      /\ \A q \in s7 : q.wanted \subseteq Address
      /\ s13 \in [chains -> SUBSET Address]
  BY DEF BookInv, BookRest
<1> DEFINE e == [id |-> s5 + 1, to |-> a, conversion |-> conversion]
<1>1. e \in Entries /\ (e.conversion => ~exact)
  BY <1>0 DEF Entries
<1> HIDE DEF e
<1>2. s4' = [s4 EXCEPT ![s1] = s4[s1] \cup {e}]
  BY DEF e
<1>3. s4' \in [chains -> SUBSET Entries]
  BY <1>0, <1>1, <1>2
<1>4. \A c \in chains : \A f \in s4'[c] : f.conversion => ~exact
  BY <1>0, <1>1, <1>2
<1>5. s5' \in Nat
  BY <1>0
<1> QED
  BY <1>0, <1>3, <1>4, <1>5 DEF BookStep, BookRest

LEMMA EntryClosed ==
    ASSUME NEW chains, NEW exact \in BOOLEAN, BookInv(chains, exact), NEW r \in s4[s1],
           s4' = [s4 EXCEPT ![s1] = @ \ {r}], s5' = s5, s7' = s7,
           NEW left \in SUBSET Address, s13' = s13 \/ s13' = [s13 EXCEPT ![s1] = left]
    PROVE  BookRest(chains, ~exact)'
<1>0. /\ s1 \in chains /\ s4 \in [chains -> SUBSET Entries] /\ s5 \in Nat
      /\ \A c \in chains : \A e \in s4[c] : e.conversion => ~exact
      /\ \A q \in s7 : q.wanted \subseteq Address
      /\ s13 \in [chains -> SUBSET Address]
  BY DEF BookInv, BookRest
<1>1. s4' \in [chains -> SUBSET Entries]
  BY <1>0
<1>2. \A c \in chains : \A f \in s4'[c] : f.conversion => ~exact
  BY <1>0
<1>3. s13' \in [chains -> SUBSET Address]
  BY <1>0
<1> QED
  BY <1>0, <1>1, <1>2, <1>3 DEF BookRest

\* Whatever has to do with neither table nor memory.
LEMMA RestStays ==
    ASSUME NEW chains, NEW exact \in BOOLEAN, BookInv(chains, exact),
           s4' = s4, s5' = s5, s7' \subseteq s7,
           NEW left \in SUBSET Address, s13' = s13 \/ s13' = [s13 EXCEPT ![s1] = left]
    PROVE  BookRest(chains, ~exact)'
  BY DEF BookInv, BookRest

LEMMA PaymentConfirmed ==
    ASSUME NEW chains, NEW exact \in BOOLEAN, BookInv(chains, exact),
           NEW r \in s4[s1], NEW late \in BOOLEAN, A!Confirmed(r, late)
    PROVE  BookStep(chains, exact)
<1>0. /\ s1 \in chains /\ s2 \in [chains -> [Address -> Rows]]
      /\ s4 \in [chains -> SUBSET Entries] /\ s13 \in [chains -> SUBSET Address]
      /\ \A c \in chains : \A e \in s4[c] : e.conversion => ~exact
  BY DEF BookInv, BookRest
<1>1. r \in Entries /\ r.to \in Address /\ (r.conversion => ~exact)
  <2>1. r \in Entries
    BY <1>0
  <2> QED
    BY <1>0, <2>1 DEF Entries
<1>2. /\ s1' = s1 /\ s4' = [s4 EXCEPT ![s1] = @ \ {r}] /\ s5' = s5 /\ s7' = s7
      /\ s11' = IF r.conversion THEN s11 ELSE [s11 EXCEPT ![s1] = [s11[s1] EXCEPT ![r.to] = @ + 1]]
      /\ s13' = IF r.conversion THEN s13 ELSE [s13 EXCEPT ![s1] = s13[s1] \ {r.to}]
  BY DEF A!Confirmed, A!Taken
<1>3. BookRest(chains, ~exact)'
  <2>1. s13[s1] \ {r.to} \in SUBSET Address
    BY <1>0
  <2> QED
    BY <1>2, <2>1, EntryClosed
<1>4. CASE r.conversion /\ ~late
  <2>1. s2' = s2 /\ s3' = s3 /\ s11' = s11
    BY <1>2, <1>4 DEF A!Confirmed
  <2> QED
    BY <1>2, <1>3, <2>1 DEF BookStep
<1>5. CASE ~(r.conversion /\ ~late)
  <2>1. A!RememberRecipient(r)
    BY <1>5 DEF A!Confirmed
  <2>2. PICK new \in {A!NotePayment(s2[s1], r.to),
                      A!NameAddress(A!NotePayment(s2[s1], r.to), r.to)} :
           s2' = [s2 EXCEPT ![s1] = new]
    BY <2>1 DEF A!RememberRecipient
  <2>3. s3' = s3 \cup {r.to}
    BY <2>1 DEF A!RememberRecipient
  <2>4. PICK row \in Rows :
           /\ new = [s2[s1] EXCEPT ![r.to] = row]
           /\ row.in /\ row.label = s2[s1][r.to].label
           /\ row.payments = s2[s1][r.to].payments + 1
    BY <1>0, <1>1, RowNoted
  <2>5. RowCounted(r.to, row)
    BY <1>2, <2>2, <2>4 DEF RowCounted, RowSet
  <2>6. \/ s11' = [s11 EXCEPT ![s1] = [s11[s1] EXCEPT ![r.to] = @ + 1]]
        \/ ~exact /\ s11' = s11
    BY <1>1, <1>2
  <2>7. CountsPayment(exact)
    BY <1>1, <2>3, <2>5, <2>6 DEF CountsPayment
  <2> QED
    BY <1>3, <2>7 DEF BookStep
<1> QED
  BY <1>4, <1>5

LEMMA PaymentAbandoned ==
    ASSUME NEW chains, NEW exact \in BOOLEAN, BookInv(chains, exact),
           NEW r \in s4[s1], A!Abandoned(r)
    PROVE  BookStep(chains, exact)
<1>1. /\ s4' = [s4 EXCEPT ![s1] = @ \ {r}]
      /\ UNCHANGED <<s1, s2, s3, s5, s7, s11, s13>>
  BY DEF A!Abandoned
<1>2. BookRest(chains, ~exact)'
  BY <1>1, {} \in SUBSET Address, EntryClosed
<1> QED
  BY <1>1, <1>2 DEF BookStep

LEMMA DiesCounting ==
    ASSUME NEW chains, NEW exact \in BOOLEAN, BookInv(chains, exact), ~exact,
           NEW r \in s4[s1], B!DieAfterCounting(r)
    PROVE  BookStep(chains, exact)
<1>0. /\ s1 \in chains /\ s2 \in [chains -> [Address -> Rows]]
      /\ s4 \in [chains -> SUBSET Entries]
  BY DEF BookInv, BookRest
<1>1. r.to \in Address
  BY <1>0 DEF Entries
<1>2. /\ s1' = s1 /\ s2' = [s2 EXCEPT ![s1] = B!NotePayment(s2[s1], r.to)]
      /\ s3' = {k \in Address : B!NotePayment(s2[s1], r.to)[k].in}
      /\ s4' = s4 /\ s5' = s5 /\ s7' = {} /\ s11' = s11 /\ s13' = s13
  BY DEF B!DieAfterCounting, B!Opened, B!KnownAddresses
<1>3. BookRest(chains, ~exact)'
  BY <1>2, {} \in SUBSET Address, RestStays
<1>4. B!NotePayment(s2[s1], r.to) = A!NotePayment(s2[s1], r.to)
  BY DEF A!NotePayment, B!NotePayment
<1>5. PICK row \in Rows :
         /\ A!NotePayment(s2[s1], r.to) = [s2[s1] EXCEPT ![r.to] = row]
         /\ row.in /\ row.label = s2[s1][r.to].label
         /\ row.payments = s2[s1][r.to].payments + 1
  <2>1. s2[s1] \in [Address -> Rows]
    BY <1>0
  <2>2. A!NotePayment(s2[s1], r.to) \in
            {A!NotePayment(s2[s1], r.to), A!NameAddress(A!NotePayment(s2[s1], r.to), r.to)}
    OBVIOUS
  <2> QED
    BY ONLY <1>1, <2>1, <2>2, RowNoted
<1>6. RowCounted(r.to, row)
  BY <1>2, <1>4, <1>5 DEF RowCounted, RowSet
<1>7. s3' = {k \in Address : s2'[s1][k].in}
  <2>1. s2'[s1] = B!NotePayment(s2[s1], r.to)
    BY <1>0, <1>2
  <2> QED
    BY <1>2, <2>1
<1>8. CountsAndDies
  BY <1>1, <1>2, <1>6, <1>7 DEF CountsAndDies
<1> QED
  BY <1>3, <1>8 DEF BookStep

LEMMA AddressLabelled ==
    ASSUME NEW chains, NEW exact \in BOOLEAN, BookInv(chains, exact),
           NEW a \in Address, NEW naming \in BOOLEAN, A!Label(a, naming)
    PROVE  BookStep(chains, exact)
<1>0. /\ s1 \in chains /\ s2 \in [chains -> [Address -> Rows]]
      /\ s13 \in [chains -> SUBSET Address]
  BY DEF BookInv, BookRest
<1>1. /\ s1' = s1 /\ s2' = [s2 EXCEPT ![s1] = A!LabelRow(s2[s1], a, naming)]
      /\ s3' = s3 \cup {a} /\ s4' = s4 /\ s5' = s5 /\ s7' = s7 /\ s11' = s11
      /\ s13' = [s13 EXCEPT ![s1] = s13[s1] \ {a}]
  BY DEF A!Label
<1>2. BookRest(chains, ~exact)'
  BY <1>0, <1>1, s13[s1] \ {a} \in SUBSET Address, RestStays
<1>3. PICK row \in Rows :
         /\ A!LabelRow(s2[s1], a, naming) = [s2[s1] EXCEPT ![a] = row]
         /\ row.in /\ row.label = naming /\ row.payments = s2[s1][a].payments
  BY <1>0, RowLabelled
<1>4. row.label \/ A!Label(a, FALSE)
  BY <1>3
<1>5. SetsLabel
  BY <1>1, <1>3, <1>4 DEF SetsLabel, RowSet
<1> QED
  BY <1>2, <1>5 DEF BookStep

LEMMA AddressForgotten ==
    ASSUME NEW chains, NEW exact \in BOOLEAN, BookInv(chains, exact), NEW a \in Address, A!Forget(a)
    PROVE  BookStep(chains, exact)
<1>0. s1 \in chains /\ s13 \in [chains -> SUBSET Address]
  BY DEF BookInv, BookRest
<1>1. /\ s1' = s1 /\ s2' = [s2 EXCEPT ![s1] = [s2[s1] EXCEPT ![a] = A!NoRow]]
      /\ s3' = s3 \ {a} /\ s4' = s4 /\ s5' = s5 /\ s7' = s7
      /\ s11' = [s11 EXCEPT ![s1] = [s11[s1] EXCEPT ![a] = 0]]
      /\ s13' = [s13 EXCEPT ![s1] = s13[s1] \cup {a}]
  BY DEF A!Forget, A!ForgetAddress
<1>2. BookRest(chains, ~exact)'
  BY <1>0, <1>1, s13[s1] \cup {a} \in SUBSET Address, RestStays
<1>3. ForgetsRow
  BY <1>0, <1>1 DEF ForgetsRow, RowSet
<1> QED
  BY <1>2, <1>3 DEF BookStep

LEMMA NamesAsked ==
    ASSUME NEW chains, NEW exact \in BOOLEAN, BookInv(chains, exact), A!NameKnownIdentities
    PROVE  BookStep(chains, exact)
<1>1. UNCHANGED <<s1, s2, s3, s4, s5, s11, s13>>
  BY DEF A!NameKnownIdentities
<1>2. \A q \in s7' : q \in s7 \/ q.wanted \subseteq Address
  BY DEF A!NameKnownIdentities, A!KnownAddresses
<1> QED
  BY <1>1, <1>2 DEF BookStep, BookInv, BookRest

LEMMA NamesTaken ==
    ASSUME NEW chains, NEW exact \in BOOLEAN, BookInv(chains, exact),
           NEW l \in s7, A!FinishAddressNames(l)
    PROVE  BookStep(chains, exact)
<1>0. /\ s1 \in chains /\ s2 \in [chains -> [Address -> Rows]]
      /\ \A q \in s7 : q.wanted \subseteq Address
  BY DEF BookInv, BookRest
<1>1. PICK found \in SUBSET l.wanted :
         s2' = [s2 EXCEPT ![s1] =
             [a \in Address |-> IF a \in found THEN A!NameAddress(s2[s1], a)[a] ELSE s2[s1][a]]]
  BY DEF A!FinishAddressNames
<1>2. /\ UNCHANGED <<s1, s3, s4, s5, s11, s13>> /\ s7' \subseteq s7
  BY DEF A!FinishAddressNames
<1>3. BookRest(chains, ~exact)'
  BY <1>2, {} \in SUBSET Address, RestStays
<1>4. \A a \in Address :
         A!NameAddress(s2[s1], a)[a] = [s2[s1][a] EXCEPT !.in = TRUE, !.name = TRUE]
  BY <1>0 DEF A!NameAddress
<1>5. TakesNames
  <2>1. found \in SUBSET Address
    BY <1>0
  <2>2. s2' = [s2 EXCEPT ![s1] =
             [a \in Address |-> IF a \in found
                                THEN [s2[s1][a] EXCEPT !.in = TRUE, !.name = TRUE]
                                ELSE s2[s1][a]]]
    BY <1>1, <1>4
  <2> QED
    BY <1>2, <2>1, <2>2 DEF TakesNames
<1> QED
  BY <1>3, <1>5 DEF BookStep

LEMMA BookOpened ==
    ASSUME NEW chains, NEW exact \in BOOLEAN, BookInv(chains, exact), NEW c \in chains,
           A!Opened(c, s2[c]), UNCHANGED <<s2, s4, s5, s11, s13>>, s7' \subseteq s7
    PROVE  BookStep(chains, exact)
<1>1. BookRest(chains, ~exact)'
  BY {} \in SUBSET Address, RestStays
<1> QED
  BY <1>1 DEF BookStep, OpensBook, A!Opened, A!KnownAddresses

LEMMA ContactsStep ==
    ASSUME BookInv(Chain, TRUE), [A!Next]_(A!vars)
    PROVE  BookStep(Chain, TRUE)
<1>0. BookRest(Chain, FALSE) /\ s1 \in Chain
  BY DEF BookInv
<1>1. CASE UNCHANGED A!vars
  BY <1>0, <1>1 DEF A!vars, BookStep, BookRest
<1>2. ASSUME NEW a \in Address, NEW conversion \in BOOLEAN, A!Commit(a, conversion)
      PROVE  BookStep(Chain, TRUE)
  BY <1>2, EntryMade DEF A!Commit
<1>3. ASSUME NEW a \in Address, A!FinishPrepare(a) PROVE BookStep(Chain, TRUE)
  BY <1>0, <1>3 DEF A!FinishPrepare, BookStep, BookRest
<1>4. ASSUME NEW c \in Chain, A!SwitchNetwork(c) PROVE BookStep(Chain, TRUE)
  BY <1>4, BookOpened DEF A!SwitchNetwork
<1>5. CASE A!Restart
  BY <1>0, <1>5, BookOpened DEF A!Restart
<1>6. ASSUME NEW r, A!DieAfterCounting(r) PROVE FALSE
  BY <1>6 DEF A!DieAfterCounting
<1>7. CASE A!Next
  BY <1>7, <1>2, <1>3, <1>4, <1>5, <1>6, AddressLabelled, AddressForgotten, PaymentConfirmed,
     PaymentAbandoned, NamesAsked, NamesTaken DEF A!Next
<1> QED
  BY <1>1, <1>7

\* All but payments and changes of chain is in both instances the same.
LEMMA SameSteps ==
    /\ \A a, naming : B!Label(a, naming) => A!Label(a, naming)
    /\ \A a : B!Forget(a) => A!Forget(a)
    /\ \A r, late : B!Confirmed(r, late) => A!Confirmed(r, late)
    /\ \A r : B!Abandoned(r) => A!Abandoned(r)
    /\ B!NameKnownIdentities => A!NameKnownIdentities
    /\ \A q : B!FinishAddressNames(q) => A!FinishAddressNames(q)
    /\ \A c, table : B!Opened(c, table) => A!Opened(c, table)
<1>1. \A a, naming : B!Label(a, naming) => A!Label(a, naming)
  BY DEF A!Label, B!Label, A!LabelRow, B!LabelRow, A!KnownAddresses, B!KnownAddresses
<1>2. \A a : B!Forget(a) => A!Forget(a)
  BY DEF A!Forget, B!Forget, A!ForgetAddress, B!ForgetAddress, A!NoRow, B!NoRow,
     A!KnownAddresses, B!KnownAddresses
<1>3. \A r, late : B!Confirmed(r, late) => A!Confirmed(r, late)
  BY DEF A!Confirmed, B!Confirmed, A!Taken, B!Taken, A!RememberRecipient, B!RememberRecipient,
     A!NotePayment, B!NotePayment, A!NameAddress, B!NameAddress
<1>4. \A r : B!Abandoned(r) => A!Abandoned(r)
  BY DEF A!Abandoned, B!Abandoned
<1>5. B!NameKnownIdentities => A!NameKnownIdentities
  BY DEF A!NameKnownIdentities, B!NameKnownIdentities, A!KnownAddresses, B!KnownAddresses
<1>6. \A q : B!FinishAddressNames(q) => A!FinishAddressNames(q)
  BY DEF A!FinishAddressNames, B!FinishAddressNames, A!NameAddress, B!NameAddress
<1>7. \A c, table : B!Opened(c, table) => A!Opened(c, table)
  BY DEF A!Opened, B!Opened, A!KnownAddresses, B!KnownAddresses
<1> QED
  BY <1>1, <1>2, <1>3, <1>4, <1>5, <1>6, <1>7

LEMMA DiesStep ==
    ASSUME BookInv({FirstChain}, FALSE), [B!Next]_(B!vars)
    PROVE  BookStep({FirstChain}, FALSE)
<1>0. BookRest({FirstChain}, TRUE) /\ s1 \in {FirstChain}
  BY DEF BookInv
<1>1. CASE UNCHANGED B!vars
  BY <1>0, <1>1 DEF B!vars, BookStep, BookRest
<1>2. ASSUME NEW a \in Address, NEW conversion \in BOOLEAN, B!Commit(a, conversion)
      PROVE  BookStep({FirstChain}, FALSE)
  BY <1>2, EntryMade DEF B!Commit
<1>3. ASSUME NEW a \in Address, B!FinishPrepare(a) PROVE BookStep({FirstChain}, FALSE)
  BY <1>0, <1>3 DEF B!FinishPrepare, BookStep, BookRest
<1>4. ASSUME NEW c \in {FirstChain}, B!SwitchNetwork(c) PROVE FALSE
  BY <1>0, <1>4 DEF B!SwitchNetwork
<1>5. CASE B!Restart
  BY <1>0, <1>5, BookOpened, SameSteps DEF B!Restart
<1>6. ASSUME NEW r \in s4[s1], B!DieAfterCounting(r) PROVE BookStep({FirstChain}, FALSE)
  BY <1>6, DiesCounting
<1>7. CASE B!Next
  <2>1. ASSUME NEW a \in Address,
               \/ \E conversion \in BOOLEAN : B!Commit(a, conversion)
               \/ B!FinishPrepare(a)
               \/ \E naming \in BOOLEAN : B!Label(a, naming)
               \/ B!Forget(a)
        PROVE  BookStep({FirstChain}, FALSE)
    BY <2>1, <1>2, <1>3, SameSteps, AddressLabelled, AddressForgotten
  <2>2. ASSUME NEW r \in s4[s1],
               (\E late \in BOOLEAN : B!Confirmed(r, late)) \/ B!Abandoned(r)
        PROVE  BookStep({FirstChain}, FALSE)
    BY <2>2, SameSteps, PaymentConfirmed, PaymentAbandoned
  <2>3. CASE B!NameKnownIdentities \/ \E q \in s7 : B!FinishAddressNames(q)
    BY <2>3, SameSteps, NamesAsked, NamesTaken
  <2> QED
    BY <1>7, <1>4, <1>5, <1>6, <2>1, <2>2, <2>3 DEF B!Next
<1> QED
  BY <1>1, <1>7

LEMMA ContactsInit == ASSUME A!Init PROVE BookInv(Chain, TRUE)
<1>1. A!NoRow \in Rows /\ A!NoRow.payments = 0
  BY DEF A!NoRow, Rows
<1>2. FirstChain \in Chain
  BY ScreensAssumption DEF A!AddressBookAssumption
<1> QED
  BY <1>1, <1>2 DEF A!Init, BookInv, BookRest

LEMMA DiesInit == ASSUME B!Init PROVE BookInv({FirstChain}, FALSE)
<1>1. B!NoRow \in Rows
  BY DEF B!NoRow, Rows
<1> QED
  BY <1>1 DEF B!Init, BookInv, BookRest

-----------------------------------------------------------------------------
(* The watched identities: s1 is the chain, s5 what is watched, s6 what is stored, s7 *)
(* the sheet that is open, s11 the readings under way. No invariant is needed: a *)
(* step that puts an identity on the screen has the reading in its hand.        *)

LEMMA WatchedSteps ==
    ASSUME [I!Next]_(I!vars)
    PROVE  I!UnwatchedStays /\ I!OpensWhatWasAsked
<1>1. CASE s5' = s5 /\ s7' = s7
  BY <1>1 DEF I!UnwatchedStays, I!OpensWhatWasAsked
<1>2. ASSUME NEW r \in s11, I!FinishDetail(r)
      PROVE  I!UnwatchedStays /\ I!OpensWhatWasAsked
  <2>1. /\ r.kind = "detail"
        /\ s5' = s5 \/ (r.open /\ s5' = s5 \cup {r.of})
        /\ s7' = s7 \/ (r.open /\ s7' = r.of)
    BY <1>2 DEF I!FinishDetail
  <2> QED
    BY <2>1 DEF I!UnwatchedStays, I!OpensWhatWasAsked
<1>3. CASE I!Restart
  BY <1>3 DEF I!Restart, I!Emptied, I!UnwatchedStays, I!OpensWhatWasAsked
<1>4. ASSUME NEW c \in {FirstChain}, I!SwitchNetwork(c) PROVE FALSE
  BY <1>4 DEF I!SwitchNetwork
<1>5. ASSUME NEW k \in Ids, I!UnwatchIdentity(k)
      PROVE  I!UnwatchedStays /\ I!OpensWhatWasAsked
  BY <1>5 DEF I!UnwatchIdentity, I!UnwatchedStays, I!OpensWhatWasAsked
<1>6. CASE I!ClearLookups
  BY <1>6 DEF I!ClearLookups, I!None, I!UnwatchedStays, I!OpensWhatWasAsked
<1>7. CASE UNCHANGED I!vars
  BY <1>1, <1>7 DEF I!vars
<1>8. CASE I!RefreshIdentities \/ I!EnterScreen \/ I!LeaveScreen
  BY <1>1, <1>8 DEF I!RefreshIdentities, I!EnterScreen, I!LeaveScreen
<1>9. ASSUME NEW k \in Ids, I!Transfer(k) \/ I!LookUp(k) PROVE s5' = s5 /\ s7' = s7
  BY <1>9 DEF I!Transfer, I!LookUp
<1>10. ASSUME NEW r \in s11, I!FinishIdentities(r) \/ I!FinishCurrencies(r)
       PROVE  s5' = s5 /\ s7' = s7
  BY <1>10 DEF I!FinishIdentities, I!FinishCurrencies
<1>11. CASE I!Next
  BY <1>11, <1>1, <1>2, <1>3, <1>4, <1>5, <1>6, <1>8, <1>9, <1>10 DEF I!Next
<1> QED
  BY <1>7, <1>11

-----------------------------------------------------------------------------
(* The pages that race: s1 is the chain, s2 the tips, s5 whether a refresh is out, s8 *)
(* what is out, s9 the tip of the newest page shown.                            *)
(*                                                                            *)
(* One refresh is out at a time, and its answer is of a tip that was read after  *)
(* the last one was shown. What a page holds is of no matter here.              *)

JobFits(job, out, shown, height) ==
    /\ DOMAIN job = {"kind", "chain", "before", "native", "read", "answer"}
    /\ job.chain = FirstChain
    /\ job.kind = "refresh" => out = TRUE
    /\ job.kind = "refresh" /\ job.read =>
           job.answer.tip \in Nat /\ shown <= job.answer.tip /\ job.answer.tip <= height

RacesInv ==
    /\ s1 = FirstChain
    /\ s2 \in [{FirstChain} -> Nat]
    /\ \A job \in s8 : JobFits(job, s5, s9, s2[FirstChain])
    /\ \A job, other \in s8 : job.kind = "refresh" /\ other.kind = "refresh" => job = other
    /\ s9 \in Nat /\ s9 <= s2[FirstChain]

LEMMA RacesInit == ASSUME R!Init PROVE RacesInv
<1>1. s1 = FirstChain /\ s2 \in [{FirstChain} -> Nat] /\ s5 = FALSE /\ s8 = {} /\ s9 = 0
  BY DEF R!Init
<1>2. s9 \in Nat /\ s9 <= s2[FirstChain]
  BY <1>1
<1> QED
  BY <1>1, <1>2 DEF RacesInv

\* An answer, and what is asked.
LEMMA AnswersAbove ==
    ASSUME RacesInv, NEW job \in s8, NEW fails, ~job.read,
           s8' = (s8 \ {job}) \cup
                     {[job EXCEPT !.read = TRUE, !.answer = R!Read(job, fails)]},
           UNCHANGED <<s1, s2, s5, s9>>
    PROVE  RacesInv'
<1> DEFINE answer == R!Read(job, fails)
<1> DEFINE new == [job EXCEPT !.read = TRUE, !.answer = answer]
<1>0. JobFits(job, s5, s9, s2[FirstChain])
  BY DEF RacesInv
<1>1. answer.tip = s2[FirstChain]
  <2>1. job.chain = FirstChain
    BY <1>0 DEF JobFits
  <2> QED
    BY <2>1 DEF R!Read
<1> HIDE DEF answer
<1>2. DOMAIN new = DOMAIN job /\ new.chain = FirstChain
  BY <1>0 DEF JobFits
<1>3. new.kind = job.kind /\ new.answer = answer
  BY <1>0 DEF JobFits
<1>5. s8' = (s8 \ {job}) \cup {new}
  BY DEF new, answer
<1> HIDE DEF new
<1>4. JobFits(new, s5, s9, s2[FirstChain])
  <2>1. DOMAIN new = {"kind", "chain", "before", "native", "read", "answer"}
    BY <1>0, <1>2 DEF JobFits
  <2>2. new.kind = "refresh" => s5 = TRUE
    BY <1>0, <1>3 DEF JobFits
  <2>3. /\ new.answer.tip \in Nat /\ s9 <= new.answer.tip
        /\ new.answer.tip <= s2[FirstChain]
    BY <1>1, <1>3 DEF RacesInv
  <2> QED
    BY ONLY <1>2, <2>1, <2>2, <2>3 DEF JobFits
<1>6. \A other \in s8' : JobFits(other, s5, s9, s2[FirstChain])
  BY <1>4, <1>5 DEF RacesInv
<1>7. \A one, other \in s8' : one.kind = "refresh" /\ other.kind = "refresh" => one = other
  BY <1>3, <1>5 DEF RacesInv
<1> QED
  BY <1>6, <1>7 DEF RacesInv

LEMMA Asks ==
    ASSUME RacesInv, NEW kind, NEW before, R!Ask(kind, before),
           UNCHANGED <<s1, s2, s9>>,
           kind = "refresh" => ~s5 /\ s5' = TRUE, kind # "refresh" => s5' = s5
    PROVE  RacesInv'
<1> DEFINE new == [kind |-> kind, chain |-> FirstChain, before |-> before, native |-> s6,
                   read |-> FALSE, answer |-> R!Unread]
<1>1. s8' = s8 \cup {new}
  BY DEF R!Ask, RacesInv
<1>2. JobFits(new, s5', s9, s2[FirstChain])
  BY DEF JobFits
<1>3. new.kind = kind
  OBVIOUS
<1> HIDE DEF new
<1>4. \A other \in s8 : other.kind = "refresh" => kind # "refresh"
  BY DEF RacesInv, JobFits
<1>5. \A other \in s8' : JobFits(other, s5', s9, s2[FirstChain])
  <2>1. \A other \in s8 : JobFits(other, s5', s9, s2[FirstChain])
    BY <1>4 DEF RacesInv, JobFits
  <2> QED
    BY <1>1, <1>2, <2>1
<1>6. \A one, other \in s8' : one.kind = "refresh" /\ other.kind = "refresh" => one = other
  BY <1>1, <1>3, <1>4 DEF RacesInv
<1> QED
  BY <1>5, <1>6 DEF RacesInv

LEMMA RacesNext == ASSUME RacesInv, [R!Next]_(R!vars) PROVE RacesInv' /\ R!NeverOlder
<1> DEFINE Recent == s9' = s9 \/ s9' = 0 \/ s9' >= s9
<1>1. ASSUME UNCHANGED <<s1, s2, s5, s8, s9>> PROVE RacesInv' /\ Recent
  BY <1>1 DEF RacesInv
<1>2. ASSUME R!Refresh PROVE RacesInv' /\ Recent
  <2>1. /\ R!Ask("refresh", 0) /\ UNCHANGED <<s1, s2, s9>> /\ ~s5 /\ s5' = TRUE
    BY <1>2 DEF R!Refresh
  <2> QED
    BY ONLY <2>1, RacesInv, Asks
<1>3. ASSUME R!LoadOlder PROVE RacesInv' /\ Recent
  <2>0. PICK before : R!Ask("older", before)
    BY <1>3 DEF R!LoadOlder
  <2>1. R!Ask("older", before) /\ UNCHANGED <<s1, s2, s9>> /\ s5' = s5
    BY <1>3, <2>0 DEF R!LoadOlder
  <2> QED
    BY ONLY <2>1, RacesInv, Asks
<1>4. ASSUME NEW job \in s8, R!Work(job) PROVE RacesInv' /\ Recent
  <2>1. ~job.read /\ UNCHANGED <<s1, s2, s5, s9>>
    BY <1>4 DEF R!Work
  <2>2. PICK fails \in SUBSET {"some", "history"} :
           s8' = (s8 \ {job}) \cup
                     {[job EXCEPT !.read = TRUE, !.answer = R!Read(job, fails)]}
    BY <1>4 DEF R!Work
  <2> QED
    BY <2>1, <2>2, AnswersAbove
<1>5. ASSUME NEW job \in s8, R!FinishRefresh(job) PROVE RacesInv' /\ Recent
  <2>1. /\ job.kind = "refresh" /\ job.read /\ s8' = s8 \ {job}
        /\ s5' = FALSE /\ s1' = s1 /\ s2' = s2
        /\ s9' = s9 \/ s9' = job.answer.tip
    BY <1>5 DEF R!FinishRefresh
  <2>2. /\ job.answer.tip \in Nat
        /\ s9 <= job.answer.tip /\ job.answer.tip <= s2[FirstChain]
    BY <2>1 DEF RacesInv, JobFits
  <2>3. \A other \in s8' : other.kind # "refresh"
    BY <2>1 DEF RacesInv
  <2>4. \A other \in s8' : JobFits(other, s5', s9', s2'[FirstChain])
    BY <2>1, <2>3 DEF RacesInv, JobFits
  <2> QED
    BY <2>1, <2>2, <2>3, <2>4 DEF RacesInv
<1>6. ASSUME NEW job \in s8, R!FinishOlder(job) PROVE RacesInv' /\ Recent
  BY <1>6 DEF R!FinishOlder, RacesInv
<1>7. ASSUME NEW c \in {FirstChain}, R!Switch(c) PROVE FALSE
  BY <1>7 DEF R!Switch, RacesInv
<1>8. ASSUME R!Lock \/ R!Unlock PROVE RacesInv' /\ Recent
  BY <1>1, <1>8 DEF R!Lock, R!Unlock
<1>9. ASSUME R!Restart PROVE RacesInv' /\ Recent
  BY <1>9 DEF R!Restart, RacesInv
<1>10. ASSUME NEW c \in {FirstChain}, R!Mine(c) PROVE RacesInv' /\ Recent
  <2>1. /\ s2' = [s2 EXCEPT ![FirstChain] = @ + 1]
        /\ UNCHANGED <<s1, s5, s8, s9>>
    BY <1>10 DEF R!Mine
  <2>2. s2' \in [{FirstChain} -> Nat] /\ s2'[FirstChain] = s2[FirstChain] + 1
    BY <2>1 DEF RacesInv
  <2>3. \A job \in s8' : JobFits(job, s5', s9', s2'[FirstChain])
    BY <2>1, <2>2 DEF RacesInv, JobFits
  <2> QED
    BY <2>1, <2>2, <2>3 DEF RacesInv
<1>11. ASSUME UNCHANGED R!vars PROVE RacesInv' /\ Recent
  BY <1>1, <1>11 DEF R!vars
<1>12. ASSUME R!Next PROVE RacesInv' /\ Recent
  BY <1>12, <1>1, <1>2, <1>3, <1>4, <1>5, <1>6, <1>7, <1>8, <1>9, <1>10 DEF R!Next
<1>13. RacesInv' /\ Recent
  BY <1>11, <1>12
<1> QED
  BY <1>13 DEF R!NeverOlder, RacesInv

-----------------------------------------------------------------------------
(* The basket: s1 is the form, s2 the tip, s4 what was built.                   *)

LEMMA Least ==
    ASSUME NEW Z \in SUBSET Nat, Z # {}
    PROVE  \E low \in Z : \A high \in Z : low <= high
<1> DEFINE Below == OpToRel(<, Nat)
<1>1. IsWellFoundedOn(Below, Nat)
  BY NatLessThanWellFounded
<1>2. \A low, high \in Nat : low < high => <<low, high>> \in Below
  BY DEF OpToRel
<1> HIDE DEF Below
<1>3. PICK low \in Z : \A high \in Z : <<high, low>> \notin Below
  BY <1>1, WFMin
<1>4. ASSUME NEW high \in Z PROVE low <= high
  <2>1. low \in Nat /\ high \in Nat /\ ~(high < low)
    BY <1>2, <1>3
  <2> QED
    BY <2>1
<1> QED
  BY <1>4

BasketInv ==
    /\ DOMAIN s1 = {"kind", "mintable", "delay", "reserves", "preallocations"}
    /\ s1.kind = "basket" /\ s1.delay \in Nat
    /\ s2 \in Nat

LEMMA BasketInit == ASSUME C!Init PROVE BasketInv
<1>1. PICK low \in Delays : low = C!Min(Delays)
  BY ScreensAssumption, Least DEF C!DraftAssumption, C!Min
<1>2. low \in Nat
  BY ScreensAssumption DEF C!DraftAssumption
<1>3. s1 = [kind |-> "basket", mintable |-> FALSE, delay |-> low, reserves |-> <<>>,
            preallocations |-> <<>>] /\ s2 = 1
  BY <1>1 DEF C!Init, C!Empty
<1> QED
  BY <1>2, <1>3 DEF BasketInv

\* The form keeps its kind, and its delay is one that can be chosen.
LEMMA BasketEdits ==
    ASSUME BasketInv, C!EditReserves \/ C!EditAllocations \/ C!EditTerms
    PROVE  BasketInv' /\ s2' = s2 /\ s4'.kind = "nothing"
<1>0. Delays \subseteq Nat
  BY ScreensAssumption DEF C!DraftAssumption
<1>1. ASSUME NEW d, C!Edit(d),
             DOMAIN d = DOMAIN s1, d.kind = "basket", d.delay \in Nat
      PROVE  BasketInv' /\ s2' = s2 /\ s4'.kind = "nothing"
  BY <1>1 DEF C!Edit, C!Nothing, BasketInv
<1>2. \A rows :
         LET d == [s1 EXCEPT !.reserves = rows] IN
         DOMAIN d = DOMAIN s1 /\ d.kind = "basket" /\ d.delay \in Nat
  BY DEF BasketInv
<1>3. \A rows :
         LET d == [s1 EXCEPT !.preallocations = rows] IN
         DOMAIN d = DOMAIN s1 /\ d.kind = "basket" /\ d.delay \in Nat
  BY DEF BasketInv
<1>4. CASE C!EditReserves
  <2>1. PICK rows : C!Edit([s1 EXCEPT !.reserves = rows])
    BY <1>4 DEF C!EditReserves
  <2> QED
    BY <1>1, <1>2, <2>1
<1>5. CASE C!EditAllocations
  <2>1. PICK rows : C!Edit([s1 EXCEPT !.preallocations = rows])
    BY <1>5 DEF C!EditAllocations
  <2> QED
    BY <1>1, <1>3, <2>1
<1>6. CASE C!EditTerms
  <2>1. ASSUME NEW k \in Delays, C!Edit([s1 EXCEPT !.delay = k])
        PROVE  BasketInv' /\ s2' = s2 /\ s4'.kind = "nothing"
    <3>1. LET d == [s1 EXCEPT !.delay = k] IN
          DOMAIN d = DOMAIN s1 /\ d.kind = "basket" /\ d.delay \in Nat
      BY <1>0 DEF BasketInv
    <3> QED
      BY <1>1, <2>1, <3>1
  <2>2. ASSUME NEW k \in {"basket"}, C!Edit([s1 EXCEPT !.kind = k])
        PROVE  BasketInv' /\ s2' = s2 /\ s4'.kind = "nothing"
    <3>1. LET d == [s1 EXCEPT !.kind = k] IN
          DOMAIN d = DOMAIN s1 /\ d.kind = "basket" /\ d.delay \in Nat
      BY DEF BasketInv
    <3> QED
      BY <1>1, <2>2, <3>1
  <2>3. ASSUME NEW b, C!Edit([s1 EXCEPT !.mintable = b])
        PROVE  BasketInv' /\ s2' = s2 /\ s4'.kind = "nothing"
    <3>1. LET d == [s1 EXCEPT !.mintable = b] IN
          DOMAIN d = DOMAIN s1 /\ d.kind = "basket" /\ d.delay \in Nat
      BY DEF BasketInv
    <3> QED
      BY <1>1, <2>3, <3>1
  <2> QED
    BY <1>6, <2>1, <2>2, <2>3 DEF C!EditTerms
<1> QED
  BY <1>4, <1>5, <1>6

LEMMA LeastOfTwo ==
    ASSUME NEW low \in Nat, NEW high \in Nat, low <= high
    PROVE  C!Min({low, high}) = low
<1>1. \E one \in {low, high} : \A other \in {low, high} : one <= other
  OBVIOUS
<1>2. \A one \in {low, high} : (\A other \in {low, high} : one <= other) => one = low
  OBVIOUS
<1> QED
  BY <1>1, <1>2 DEF C!Min

\* What is built is built for a start after the tip.
LEMMA BasketBuilt ==
    ASSUME BasketInv, C!PrepareLaunch
    PROVE  BasketInv' /\ C!StartsInTheFuture
<1>0. MaxTip \in Nat
  BY ScreensAssumption DEF C!DraftAssumption
<1>1. BasketInv'
  BY DEF C!PrepareLaunch, BasketInv
<1>2. CASE C!Stops(s1, s2)
  BY <1>1, <1>2 DEF C!PrepareLaunch, C!StartsInTheFuture
<1>3. CASE ~C!Stops(s1, s2)
  <2>1. s1.delay # 0 /\ s2 + s1.delay <= MaxTip
    BY <1>0, <1>3 DEF C!Stops, C!StartStops, BasketInv
  <2>2. C!Min({s2 + s1.delay, MaxTip}) = s2 + s1.delay
    BY <1>0, <2>1, LeastOfTwo DEF BasketInv
  <2>3. s4' = C!Definition(s1, s2 + s1.delay)
    BY <1>3, <2>2 DEF C!PrepareLaunch
  <2>4. s4' = C!Failed \/ s4'.start = s2 + s1.delay
    BY <2>3 DEF C!Definition, BasketInv
  <2>5. s4'.kind = "basket" => s4'.start > s2
    BY <2>1, <2>4 DEF C!Failed, BasketInv
  <2> QED
    BY <1>1, <2>5 DEF C!StartsInTheFuture
<1> QED
  BY <1>2, <1>3

LEMMA BasketNext ==
    ASSUME BasketInv, [C!Next]_(C!vars)
    PROVE  BasketInv' /\ C!StartsInTheFuture
<1>1. CASE UNCHANGED C!vars
  BY <1>1 DEF C!vars, BasketInv, C!StartsInTheFuture
<1>2. CASE C!Advance
  BY <1>2 DEF C!Advance, BasketInv, C!StartsInTheFuture
<1>3. CASE C!EditReserves \/ C!EditAllocations \/ C!EditTerms
  BY <1>3, BasketEdits DEF C!StartsInTheFuture
<1> QED
  BY <1>1, <1>2, <1>3, BasketBuilt DEF C!Next

-----------------------------------------------------------------------------
(* The life of an identity: s1 is the height, s6 the claim, s10 whether step two is *)
(* with a worker, s12 the identity on the chain, s16 the changes that are signed.  *)
(*                                                                            *)
(* No name is claimed here, so the identity changes by what was signed only; and *)
(* what was signed is described by the command it was signed for.                *)

IdFits(r) ==
    /\ r = [f \in DOMAIN r |-> r[f]]
    /\ DOMAIN r = {"ver", "locked", "after", "revoked", "held", "needed",
                   "revocation", "recovery"}
    /\ r.after \in Nat

SignedFits(q) ==
    /\ q.change \in L!Change
    /\ q.note = L!Describe(q.change)
    /\ q.word <=> q.change.kind = "revoke"
    /\ q.at \in Nat

LifeInv ==
    /\ s1 \in Nat
    /\ s6 = L!NoClaim /\ s10 = "no"
    /\ IdFits(s12)
    /\ \A q \in s16 : SignedFits(q)

LEMMA LifeConstants ==
    /\ LockDelays \subseteq Nat /\ Extra \subseteq Nat /\ Life \in Nat \ {0}
    /\ "" \notin Authorities
  BY ScreensAssumption DEF L!IdentityLifeAssumption

\* What a command makes of a record.
LEMMA ChangeApplies ==
    ASSUME NEW c \in L!Change, NEW r, IdFits(r), NEW at \in Nat, NEW new,
           new = L!Applied(c, r, at)
    PROVE  /\ IdFits(new)
           /\ L!Did(L!Describe(c), r, new)
           /\ L!Describe(c).code = "change-revoke" <=> c.kind = "revoke"
           /\ r.locked /\ ~new.locked => new.after >= at + Life + r.after
<1>0. r = [f \in DOMAIN r |-> r[f]]
      /\ DOMAIN r = {"ver", "locked", "after", "revoked", "held", "needed",
                     "revocation", "recovery"}
      /\ r.after \in Nat
  BY DEF IdFits
<1>1. CASE c.kind = "authorities"
  <2>0. /\ c.revocation \in Authorities \cup {""} /\ c.recovery \in Authorities \cup {""}
    BY <1>1 DEF L!Change
  <2>1. new = [r EXCEPT !.revocation = L!Or(c.revocation, @), !.recovery = L!Or(c.recovery, @)]
    BY <1>1 DEF L!Applied
  <2>2. /\ DOMAIN new = DOMAIN r /\ new = [f \in DOMAIN new |-> new[f]]
        /\ new.after = r.after /\ new.locked = r.locked
        /\ new.revocation = L!Or(c.revocation, r.revocation)
        /\ new.recovery = L!Or(c.recovery, r.recovery)
        /\ \A f \in DOMAIN r : f \notin {"revocation", "recovery"} => new[f] = r[f]
    BY <1>0, <2>1
  <2>3. IdFits(new)
    BY <1>0, <2>2 DEF IdFits
  <2>4. CASE c.revocation = "" /\ c.recovery = ""
    <3>0. new.revocation = r.revocation /\ new.recovery = r.recovery
      BY <2>2, <2>4 DEF L!Or
    <3>1. new = r
      <4>1. \A f \in DOMAIN r : new[f] = r[f]
        BY <2>2, <3>0
      <4> QED
        BY ONLY <1>0, <2>2, <4>1
    <3>2. L!Describe(c) = L!Plain("change-nothing")
      BY <1>1, <2>4 DEF L!Describe
    <3> QED
      BY <1>1, <2>2, <2>3, <3>1, <3>2 DEF L!Did, L!Plain
  <2>5. CASE c.revocation # "" /\ c.recovery = ""
    <3>1. new = [r EXCEPT !.revocation = c.revocation]
      BY <1>0, <2>2, <2>5 DEF L!Or
    <3>2. L!Describe(c) = L!With("change-revocation", <<c.revocation>>)
      BY <1>1, <2>5 DEF L!Describe
    <3> QED
      BY <1>1, <2>2, <2>3, <3>1, <3>2 DEF L!Did, L!With
  <2>6. CASE c.revocation = "" /\ c.recovery # ""
    <3>1. new = [r EXCEPT !.recovery = c.recovery]
      BY <1>0, <2>2, <2>6 DEF L!Or
    <3>2. L!Describe(c) = L!With("change-recovery", <<c.recovery>>)
      BY <1>1, <2>6 DEF L!Describe
    <3> QED
      BY <1>1, <2>2, <2>3, <3>1, <3>2 DEF L!Did, L!With
  <2>7. CASE c.revocation # "" /\ c.recovery # ""
    <3>1. new = [r EXCEPT !.revocation = c.revocation, !.recovery = c.recovery]
      BY <2>1, <2>7 DEF L!Or
    <3>2. L!Describe(c) = L!With("change-both-authorities", <<c.revocation, c.recovery>>)
      BY <1>1, <2>7 DEF L!Describe
    <3> QED
      BY <1>1, <2>2, <2>3, <3>1, <3>2 DEF L!Did, L!With
  <2> QED
    BY <2>4, <2>5, <2>6, <2>7
<1>2. CASE c.kind = "lock"
  <2>0. c.delay \in Nat
    BY <1>2, LifeConstants DEF L!Change
  <2>1. new = [r EXCEPT !.locked = TRUE, !.after = c.delay]
    BY <1>2 DEF L!Applied
  <2>2. DOMAIN new = DOMAIN r /\ new = [f \in DOMAIN new |-> new[f]]
        /\ new.after = c.delay /\ new.locked
    BY <1>0, <2>1
  <2>3. IdFits(new)
    BY <1>0, <2>0, <2>2 DEF IdFits
  <2>4. L!Describe(c) = L!With("change-lock", <<c.delay>>)
    BY <1>2 DEF L!Describe
  <2> QED
    BY <1>2, <2>1, <2>2, <2>3, <2>4 DEF L!Did, L!With
<1>3. CASE c.kind = "unlock"
  <2>0. c.extra \in Nat /\ Life \in Nat \ {0}
    BY <1>3, LifeConstants DEF L!Change
  <2>1. new = [r EXCEPT !.locked = FALSE, !.after = at + Life + @ + c.extra]
    BY <1>3 DEF L!Applied
  <2>2. DOMAIN new = DOMAIN r /\ new = [f \in DOMAIN new |-> new[f]]
        /\ new.after = at + Life + r.after + c.extra
    BY <1>0, <2>1
  <2>3. IdFits(new)
    BY <1>0, <2>0, <2>2 DEF IdFits
  <2>4. L!Describe(c) = L!Plain("change-unlock")
    BY <1>3 DEF L!Describe, L!Codes
  <2>5. new.after > r.after /\ new.after >= at + Life + r.after
    BY <1>0, <2>0, <2>2
  <2>6. new = [r EXCEPT !.locked = FALSE, !.after = new.after]
    BY <2>1, <2>2
  <2>7. L!Describe(c).code = "change-unlock"
    BY <2>4 DEF L!Plain
  <2>8. L!Did(L!Describe(c), r, new)
    BY <2>5, <2>6, <2>7 DEF L!Did
  <2> QED
    BY <1>3, <2>3, <2>5, <2>7, <2>8
<1>4. CASE c.kind = "revoke"
  <2>1. new = [r EXCEPT !.revoked = TRUE]
    BY <1>4 DEF L!Applied
  <2>2. DOMAIN new = DOMAIN r /\ new = [f \in DOMAIN new |-> new[f]]
        /\ new.after = r.after /\ new.locked = r.locked
    BY <1>0, <2>1
  <2>3. IdFits(new)
    BY <1>0, <2>2 DEF IdFits
  <2>4. L!Describe(c) = L!Plain("change-revoke")
    BY <1>4 DEF L!Describe, L!Codes
  <2> QED
    BY <1>4, <2>1, <2>2, <2>3, <2>4 DEF L!Did, L!Plain
<1>5. CASE c.kind = "recover"
  <2>1. new = [r EXCEPT !.revoked = FALSE]
    BY <1>5 DEF L!Applied
  <2>2. DOMAIN new = DOMAIN r /\ new = [f \in DOMAIN new |-> new[f]]
        /\ new.after = r.after /\ new.locked = r.locked
    BY <1>0, <2>1
  <2>3. IdFits(new)
    BY <1>0, <2>2 DEF IdFits
  <2>4. L!Describe(c) = L!Plain("change-recover")
    BY <1>5 DEF L!Describe, L!Codes
  <2> QED
    BY <1>5, <2>1, <2>2, <2>3, <2>4 DEF L!Did, L!Plain
<1> QED
  BY <1>1, <1>2, <1>3, <1>4, <1>5 DEF L!Change

\* A new version is told apart by its version only.
LEMMA VersionBack ==
    ASSUME NEW r, IdFits(r), NEW new, new = [r EXCEPT !.ver = @ + 1]
    PROVE  /\ IdFits(new)
           /\ [new EXCEPT !.ver = r.ver] = r
           /\ new.locked = r.locked /\ new.after = r.after
<1>0. r = [f \in DOMAIN r |-> r[f]]
      /\ DOMAIN r = {"ver", "locked", "after", "revoked", "held", "needed",
                     "revocation", "recovery"}
      /\ r.after \in Nat
  BY DEF IdFits
<1>1. /\ DOMAIN new = DOMAIN r /\ new = [f \in DOMAIN new |-> new[f]]
      /\ \A f \in DOMAIN r : f # "ver" => new[f] = r[f]
  BY <1>0
<1>2. new.locked = r.locked /\ new.after = r.after
  BY <1>0, <1>1
<1>3. [new EXCEPT !.ver = r.ver] = r
  BY <1>0, <1>1
<1> QED
  BY <1>0, <1>1, <1>2, <1>3 DEF IdFits

LEMMA LifeInit == ASSUME L!Init PROVE LifeInv
<1>1. \A held, needed, recovery : IdFits(L!Fresh(held, needed, recovery))
  BY DEF L!Fresh, IdFits
<1> QED
  BY <1>1 DEF L!Init, LifeInv

LEMMA LifeConfirms ==
    ASSUME LifeInv, NEW q \in s16, L!Confirm(q)
    PROVE  LifeInv' /\ L!DidWhatItSaid /\ L!ReleaseWaits
<1>0. SignedFits(q) /\ IdFits(s12) /\ s1 \in Nat
  BY DEF LifeInv
<1>1. UNCHANGED <<s1, s6, s10>> /\ s16' = s16 \ {q}
  BY DEF L!Confirm, L!Claiming
<1>2. CASE s12' = s12
  BY <1>1, <1>2 DEF LifeInv, L!DidWhatItSaid, L!ReleaseWaits, L!Taken
<1>3. CASE s12' # s12
  <2> DEFINE new == L!Applied(q.change, s12, q.at)
  <2>1. s12' = [new EXCEPT !.ver = @ + 1] /\ s1 <= q.at + Life
    BY <1>3 DEF L!Confirm
  <2>2. /\ IdFits(new)
        /\ L!Did(q.note, s12, new)
        /\ q.note.code = "change-revoke" <=> q.word
        /\ s12.locked /\ ~new.locked => new.after >= q.at + Life + s12.after
    BY <1>0, ChangeApplies DEF SignedFits
  <2>3. new.ver = s12.ver
    BY <1>0 DEF IdFits, SignedFits, L!Change, L!Applied
  <2> HIDE DEF new
  <2>4. /\ IdFits(s12') /\ [s12' EXCEPT !.ver = s12.ver] = new
        /\ s12'.locked = new.locked /\ s12'.after = new.after
    BY <2>1, <2>2, <2>3, VersionBack
  <2>5. LifeInv'
    BY <1>1, <2>4 DEF LifeInv, SignedFits
  <2>6. L!DidWhatItSaid
    <3> SUFFICES ASSUME NEW t \in s16, L!Taken(t)
                 PROVE  /\ L!Did(t.note, s12, [s12' EXCEPT !.ver = s12.ver])
                        /\ t.note.code = "change-revoke" <=> t.word
      BY DEF L!DidWhatItSaid
    <3>1. t = q
      BY <1>1 DEF L!Taken
    <3> QED
      BY <2>2, <2>4, <3>1
  <2>7. L!ReleaseWaits
    <3> SUFFICES ASSUME s12.locked, ~s12'.locked
                 PROVE  s12'.after >= s1 + s12.after
      BY DEF L!ReleaseWaits
    <3>1. s12'.after >= q.at + Life + s12.after
      BY <2>2, <2>4
    <3>2. s12.after \in Nat /\ s12'.after \in Nat /\ q.at \in Nat /\ Life \in Nat
      BY <1>0, <2>4, LifeConstants DEF IdFits, SignedFits
    <3> QED
      BY <1>0, <2>1, <3>1, <3>2
  <2> QED
    BY <2>5, <2>6, <2>7
<1> QED
  BY <1>2, <1>3

LEMMA LifeNext ==
    ASSUME LifeInv, [L!Next]_(L!vars)
    PROVE  LifeInv' /\ L!DidWhatItSaid /\ L!ReleaseWaits
<1>1. ASSUME s12' = s12, s6' = s6, s10' = s10, s16' \subseteq s16, s1' \in Nat
      PROVE  LifeInv' /\ L!DidWhatItSaid /\ L!ReleaseWaits
  BY <1>1 DEF LifeInv, L!DidWhatItSaid, L!ReleaseWaits, L!Taken
<1>2. ASSUME s12' = s12, s6' = s6, s10' = s10, s16' = s16, s1' = s1 \/ s1' = s1 + 1
      PROVE  LifeInv' /\ L!DidWhatItSaid /\ L!ReleaseWaits
  BY <1>1, <1>2 DEF LifeInv
<1>3. CASE UNCHANGED L!vars
  BY <1>2, <1>3 DEF L!vars
<1>4. CASE L!Grow \/ L!PollTip
  BY <1>2, <1>4 DEF L!Grow, L!PollTip, L!Claiming, L!Window
<1>5. ASSUME NEW name, NEW taken, L!FinishNameCheck(name, taken)
      PROVE  LifeInv' /\ L!DidWhatItSaid /\ L!ReleaseWaits
  BY <1>2, <1>5 DEF L!FinishNameCheck, L!Claiming, L!Window
<1>6. ASSUME \/ \E recovery : L!Reserve(recovery)
             \/ L!Commit \/ L!Mine \/ L!FinishRegistration \/ L!FinishRegistered
             \/ \E answer : L!PollRegistration(answer)
      PROVE  FALSE
  BY <1>6 DEF L!Reserve, L!Commit, L!Mine, L!FinishRegistration, L!FinishRegistered,
     L!PollRegistration, LifeInv
<1>7. CASE L!FinishPoll
  BY <1>2, <1>7 DEF L!FinishPoll, L!Window
<1>8. CASE L!Abandon
  BY <1>2, <1>8 DEF L!Abandon, L!Window, LifeInv
<1>9. CASE L!Restate
  BY <1>2, <1>9 DEF L!Restate, L!Window
<1>10. ASSUME NEW what, L!Read(what)
       PROVE  LifeInv' /\ L!DidWhatItSaid /\ L!ReleaseWaits
  BY <1>2, <1>10 DEF L!Read, L!Claiming, L!Window
<1>11. ASSUME NEW r, L!FinishRead(r)
       PROVE  LifeInv' /\ L!DidWhatItSaid /\ L!ReleaseWaits
  BY <1>2, <1>11 DEF L!FinishRead, L!Claiming
<1>12. ASSUME NEW c \in L!Change, L!PrepareChange(c)
       PROVE  LifeInv' /\ L!DidWhatItSaid /\ L!ReleaseWaits
  <2> DEFINE new == [change |-> c, note |-> L!Describe(c), word |-> L!NeedsTypedConfirmation(c),
                     of |-> s12.ver, at |-> s1]
  <2>1. /\ UNCHANGED <<s1, s6, s10, s12>> /\ s16' = s16 \cup {new}
    BY <1>12 DEF L!PrepareChange, L!Claiming
  <2>2. SignedFits(new)
    BY DEF SignedFits, L!NeedsTypedConfirmation, LifeInv
  <2> HIDE DEF new
  <2>3. LifeInv'
    BY <2>1, <2>2 DEF LifeInv
  <2> QED
    BY <2>1, <2>3 DEF L!DidWhatItSaid, L!ReleaseWaits, L!Taken
<1>13. ASSUME NEW q \in s16, L!Cancel(q)
       PROVE  LifeInv' /\ L!DidWhatItSaid /\ L!ReleaseWaits
  BY <1>1, <1>13 DEF L!Cancel, L!Claiming, LifeInv
<1>14. CASE L!Next
  BY <1>14, <1>4, <1>5, <1>6, <1>7, <1>8, <1>9, <1>10, <1>11, <1>12, <1>13, LifeConfirms
     DEF L!Next, Silent
<1> QED
  BY <1>3, <1>14

-----------------------------------------------------------------------------
(* What the run says of these parts *)

PartsInv ==
    /\ part = "panels" => PanelsInv
    /\ part = "names" => NamesInv
    /\ part = "markets" => MarketsInv
    /\ part = "contacts" => BookInv(Chain, TRUE)
    /\ part = "dies" => BookInv({FirstChain}, FALSE)
    /\ part = "races" => RacesInv
    /\ part = "basket" => BasketInv
    /\ part = "life" => LifeInv

\* In each of these parts, its invariant is one.
LEMMA PartsKept == ASSUME PartsInv, [Next]_vars PROVE PartsInv'
<1>1. part = "panels" => PanelsInv'
  BY PartStep, PanelsNext DEF PartsInv
<1>2. part = "names" => NamesInv'
  BY PartStep, NamesNext DEF PartsInv
<1>3. part = "markets" => MarketsInv'
  BY PartStep, MarketsNext DEF PartsInv
<1>4. part = "contacts" => BookInv(Chain, TRUE)'
  BY PartStep, ContactsStep, BookKept DEF PartsInv
<1>5. part = "dies" => BookInv({FirstChain}, FALSE)'
  BY PartStep, DiesStep, BookKept DEF PartsInv
<1>6. part = "races" => RacesInv'
  BY PartStep, RacesNext DEF PartsInv
<1>7. part = "basket" => BasketInv'
  BY PartStep, BasketNext DEF PartsInv
<1>8. part = "life" => LifeInv'
  BY PartStep, LifeNext DEF PartsInv
<1> QED
  BY <1>1, <1>2, <1>3, <1>4, <1>5, <1>6, <1>7, <1>8, PartStep DEF PartsInv

LEMMA PartsAlways == Spec => []PartsInv
<1>1. Init => PartsInv
  BY PartInit, PanelsInit, NamesInit, MarketsInit, ContactsInit, DiesInit, RacesInit, BasketInit,
     LifeInit DEF PartsInv
<1>2. PartsInv /\ [Next]_vars => PartsInv'
  BY PartsKept
<1> QED
  BY <1>1, <1>2, PTL DEF Spec

\* What leaves the wallet was on the screen when the user said yes, once: for any
\* panels, tickets and presses, and whatever is built, arrives or is searched for in
\* between; for any names, chains and changes of what they mean, an address that is
\* paid for a name is one it had; and for any edits, notarizations and failures a
\* conversion is signed with the floor of the quote of its own draft.
THEOREM OnlyWhatWasShownIsSent == Spec => []SentWasShown
<1>1. PartsInv => SentWasShown
  BY DEF PartsInv, PanelsInv, NamesInv, MarketsInv, SentWasShown
<1> QED
  BY PartsAlways, <1>1, PTL

\* For any addresses, chains, payments and starts of the program: each payment is
\* counted once, whoever was paid is known, also when the process dies between two
\* writes, and no name is asked about twice at a time.
THEOREM PaymentsAreCounted == Spec => []CountedOnce
<1>1. PartsInv => CountedOnce
  <2> SUFFICES ASSUME PartsInv PROVE CountedOnce
    OBVIOUS
  <2>1. part = "contacts" => A!CountedOnce /\ A!PaidIsKnown
    BY DEF PartsInv, BookInv, A!CountedOnce, A!PaidIsKnown
  <2>2. part = "dies" => B!PaidIsKnown
    BY DEF PartsInv, BookInv, B!PaidIsKnown
  <2>3. part = "names" => N!AskedOnce
    BY NamesAskOnce DEF PartsInv
  <2> QED
    BY <2>1, <2>2, <2>3 DEF CountedOnce
<1> QED
  BY PartsAlways, <1>1, PTL

\* What comes late takes nothing away: for any histories, answers and interleavings an
\* identity that is no longer watched stays away, no sheet opens unasked, no history
\* gets older, no warning, meaning or label goes unseen; a launch starts after its tip;
\* and a change of an identity does what its review said, whatever was changed in
\* between, and leaves a lock its delay.
THEOREM NothingShownIsUnsaid == Spec => ShownStays
<1> DEFINE Stays ==
        /\ part = "watched" => I!UnwatchedStays /\ I!OpensWhatWasAsked
        /\ part = "races" => R!NeverOlder
        /\ part = "names" => N!WarningStands /\ N!ForgottenOnceShown
        /\ part = "contacts" => A!LabelIsOwners
        /\ part = "dies" => B!LabelIsOwners
        /\ part = "basket" => C!StartsInTheFuture
        /\ part = "life" => L!DidWhatItSaid /\ L!ReleaseWaits
<1>1. PartsInv /\ [Next]_vars => Stays
  <2> SUFFICES ASSUME PartsInv, [Next]_vars PROVE Stays
    OBVIOUS
  <2>1. part = "watched" => I!UnwatchedStays /\ I!OpensWhatWasAsked
    BY PartStep, WatchedSteps
  <2>2. part = "races" => R!NeverOlder
    BY PartStep, RacesNext DEF PartsInv
  <2>3. part = "names" => N!WarningStands /\ N!ForgottenOnceShown
    BY PartStep, NamesWarn, NamesForget DEF PartsInv
  <2>4. part = "contacts" => A!LabelIsOwners
    <3> SUFFICES ASSUME part = "contacts", NEW c \in Chain, NEW a \in Address,
                        s2[c][a].label, ~s2'[c][a].label
                 PROVE  a \in s13'[c] \/ A!Label(a, FALSE)
      BY DEF A!LabelIsOwners
    <3>1. BookInv(Chain, TRUE) /\ BookStep(Chain, TRUE)
      BY PartStep, ContactsStep DEF PartsInv
    <3> QED
      BY <3>1, LabelsStay
  <2>5. part = "dies" => B!LabelIsOwners
    <3> SUFFICES ASSUME part = "dies", NEW c \in {FirstChain}, NEW a \in Address,
                        s2[c][a].label, ~s2'[c][a].label
                 PROVE  a \in s13'[c] \/ B!Label(a, FALSE)
      BY DEF B!LabelIsOwners
    <3>1. BookInv({FirstChain}, FALSE) /\ BookStep({FirstChain}, FALSE)
      BY PartStep, DiesStep DEF PartsInv
    <3>2. a \in s13'[c] \/ A!Label(a, FALSE)
      BY <3>1, LabelsStay
    <3>3. A!Label(a, FALSE) => B!Label(a, FALSE)
      BY DEF A!Label, B!Label, A!LabelRow, B!LabelRow, A!KnownAddresses, B!KnownAddresses
    <3> QED
      BY <3>2, <3>3
  <2>6. part = "basket" => C!StartsInTheFuture
    BY PartStep, BasketNext DEF PartsInv
  <2>7. part = "life" => L!DidWhatItSaid /\ L!ReleaseWaits
    BY PartStep, LifeNext DEF PartsInv
  <2> QED
    BY <2>1, <2>2, <2>3, <2>4, <2>5, <2>6, <2>7
<1> HIDE DEF Stays
<1>2. Spec => [][Stays]_vars
  BY PartsAlways, <1>1, PTL DEF Spec
<1> QED
  BY <1>2, PTL DEF ShownStays, Stays
=============================================================================
