----------------------------- MODULE SpendGate -----------------------------
(* The gate every spend has to pass: pecu-chain/src/permit.rs, with the part *)
(* of pecu-chain/src/node.rs it reads - what the wallet believes about each  *)
(* configured node, which one is in use, which chain was asked for, and      *)
(* whether spending was armed by typing that chain's name.                   *)
(*                                                                           *)
(* Probes run on workers and are answered late.  An answer carries the       *)
(* position of a node in the shipped list, and a change of chain rebuilds    *)
(* the list without recalling the probes of the old one, so an answer can    *)
(* land on the node that took its endpoint's place.                          *)
(*                                                                           *)
(* A node's tip, latency and retry time are left out: no permit depends on   *)
(* them.  Failures are counted in module Payments.                           *)
EXTENDS FiniteSets, Naturals

CONSTANTS
    Chain,          \* the chains the wallet can be set to
    Free,           \* those that cannot be real money (VRSCTEST)
    Pinned,         \* those whose chain id this build knows
    Nameless,       \* those whose name is the empty string
    Position,       \* the places in a chain's shipped list of endpoints
    FirstChain,
    NoChain,        \* no chain: a network not known, a word never typed
    MaxProbes       \* bound: probes in flight at once

ChainsAssumption ==
    /\ Free \subseteq Chain
    /\ Pinned \subseteq Chain
    /\ Nameless \subseteq Chain
    /\ FirstChain \in Chain
    /\ NoChain \notin Chain
    /\ Position # {}
    /\ MaxProbes \in Nat

VARIABLES
    requested,      \* the chain the wallet is set to
    nodes,          \* per position: status, and the network it said it is on
    active,         \* the position of the node in use
    allow,          \* allow_spending
    probes,         \* answers on their way back to the actor
    word,           \* history: the last word the confirmation accepted
    said,           \* history: the chains each endpoint credibly named
    permits         \* history: the permits minted

vars == <<requested, nodes, active, allow, probes, word, said, permits>>

Status == {"unknown", "unidentified", "syncing", "wrong_network", "online",
           "method_refused", "offline"}

\* An endpoint is the chain whose list it is shipped in, and its place there.
Endpoint == Chain \X Position

\* chain_info: a name, whether the reported chain id is the one that goes with
\* it, and whether the node has caught up; or no answer of either kind.
Reply ==
    [kind : {"info"}, name : Chain, idMatches : BOOLEAN, synced : BOOLEAN]
    \cup [kind : {"method_unavailable", "error"}]

Probe == [from : Endpoint, reply : Reply]
Permit == [network : Chain, endpoint : Endpoint, word : Chain \cup {NoChain}]
NodeView == [status : Status, network : Chain \cup {NoChain}]

TypeOK ==
    /\ requested \in Chain
    /\ nodes \in [Position -> NodeView]
    /\ active \in Position
    /\ allow \in BOOLEAN
    /\ probes \subseteq Probe
    /\ word \in Chain \cup {NoChain}
    /\ said \in [Endpoint -> SUBSET Chain]
    /\ permits \subseteq Permit

\* A freshly built manager: nothing is known of any node, and spending is off.
Fresh == [p \in Position |-> [status |-> "unknown", network |-> NoChain]]

Init ==
    /\ requested = FirstChain
    /\ nodes = Fresh
    /\ active \in Position
    /\ allow = FALSE
    /\ probes = {}
    /\ word = NoChain
    /\ said = [e \in Endpoint |-> {}]
    /\ permits = {}

-----------------------------------------------------------------------------
\* record_success judges identity first: for a chain with a pinned id, name
\* and id have to go together.
Identified(reply) == reply.name \in Pinned => reply.idMatches

\* Mutant: whoever names the right chain is believed.
AfterSuccessTrusting(reply) ==
    [status  |-> IF ~reply.synced THEN "syncing"
                 ELSE IF reply.name # requested THEN "wrong_network"
                 ELSE "online",
     network |-> reply.name]

AfterSuccess(reply) ==
    [status  |-> IF ~Identified(reply) THEN "unidentified"
                 ELSE IF ~reply.synced THEN "syncing"
                 ELSE IF reply.name # requested THEN "wrong_network"
                 ELSE "online",
     network |-> IF Identified(reply) THEN reply.name ELSE NoChain]

\* record_failure keeps the network it last heard of.
AfterFailure(node, kind) ==
    [node EXCEPT !.status = IF kind = "method_unavailable"
                            THEN "method_refused" ELSE "offline"]

\* A probe of the node at p, and what that endpoint answers.  An endpoint runs
\* one chain; it may still be catching up, or be behind something that garbles
\* its chain id, or not answer.
Ask(p, reply) ==
    LET from == <<requested, p>>
    IN  /\ Cardinality(probes) < MaxProbes
        /\ reply.kind = "info" => reply.name = requested
        /\ probes' = probes \cup {[from |-> from, reply |-> reply]}
        /\ said' = IF reply.kind = "info" /\ Identified(reply)
                   THEN [said EXCEPT ![from] = @ \cup {reply.name}] ELSE said
        /\ UNCHANGED <<requested, nodes, active, allow, word, permits>>

\* finish_tip: the answer is applied to the node at that position now.
Answer(p) ==
    LET i == p.from[2]
    IN  /\ probes' = probes \ {p}
        /\ nodes' = [nodes EXCEPT ![i] =
                        IF p.reply.kind = "info" THEN AfterSuccess(p.reply)
                        ELSE AfterFailure(@, p.reply.kind)]
        /\ UNCHANGED <<requested, active, allow, word, said, permits>>

\* set_active
SelectNode(p) ==
    /\ active' = p
    /\ UNCHANGED <<requested, nodes, allow, probes, word, said, permits>>

\* set_allow_spending(true, typed): the word is the requested chain's own name,
\* and a chain without one cannot be armed.
Arm(typed) ==
    /\ typed = requested
    /\ requested \notin Nameless
    /\ allow' = TRUE
    /\ word' = typed
    /\ UNCHANGED <<requested, nodes, active, probes, said, permits>>

\* set_allow_spending(false, _)
Disarm ==
    /\ allow' = FALSE
    /\ UNCHANGED <<requested, nodes, active, probes, word, said, permits>>

\* Mutant: the arm is carried over.
SwitchNetworkArmed(c) ==
    /\ c # requested
    /\ requested' = c
    /\ nodes' = Fresh
    /\ active' \in Position
    /\ UNCHANGED <<allow, probes, word, said, permits>>

\* switch_network builds another NodeManager.
SwitchNetwork(c) ==
    /\ c # requested
    /\ requested' = c
    /\ nodes' = Fresh
    /\ active' \in Position
    /\ allow' = FALSE
    /\ UNCHANGED <<probes, word, said, permits>>

\* A restart builds one too, and nothing writes the arm down.
Restart ==
    /\ nodes' = Fresh
    /\ allow' = FALSE
    /\ probes' = {}
    /\ UNCHANGED <<requested, active, word, said, permits>>

\* Mutant: the arm is not asked for.
PermittedUnarmed ==
    LET node == nodes[active]
    IN  node.status = "online" /\ node.network = requested

\* evaluate: all gates, in the order they are asked.
Permitted ==
    LET node == nodes[active]
    IN  /\ node.status # "unidentified"
        /\ node.network # NoChain
        /\ node.status = "online"
        /\ node.network = requested
        /\ node.network \in Free \/ allow

\* spend_permit: every route that writes to the chain mints one.
Spend ==
    /\ Permitted
    /\ permits' = permits \cup
            {[network  |-> nodes[active].network,
              endpoint |-> <<requested, active>>,
              word     |-> IF allow THEN word ELSE NoChain]}
    /\ UNCHANGED <<requested, nodes, active, allow, probes, word, said>>

Next ==
    \/ \E p \in Position : SelectNode(p) \/ \E reply \in Reply : Ask(p, reply)
    \/ \E p \in probes : Answer(p)
    \/ \E typed \in Chain : Arm(typed)
    \/ Disarm
    \/ \E c \in Chain : SwitchNetwork(c)
    \/ Restart
    \/ Spend

Spec == Init /\ [][Next]_vars

-----------------------------------------------------------------------------
(* Safety *)

\* An arm belongs to the chain it was made on: while spending is on, the word
\* that turned it on is the name of the chain the wallet is set to now.
ArmNamesChain == allow => word = requested /\ requested \notin Nameless

\* No permit for a chain that may be real money was ever minted without that
\* chain's own name having been typed.
PermitsArmed ==
    \A p \in permits : p.network \in Free \/ p.word = p.network

\* A permit's network is one its endpoint has itself credibly named - also when
\* a late answer of another chain's endpoint has been applied to its position.
PermitsBorneOut == \A p \in permits : p.network \in said[p.endpoint]

=============================================================================
