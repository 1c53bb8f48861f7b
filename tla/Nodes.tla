------------------------------- MODULE Nodes -------------------------------
(* The nodes the wallet knows, which one it reads from, and when it reads    *)
(* (pecu-chain/src/node.rs, pecu-core/src/lib.rs).  The list is compiled in  *)
(* and may differ between builds; the node in use is written down by its     *)
(* address.  A probe says a node's chain and height; a new block at the node *)
(* in use, a choice of node, an unlock and a failover start a reading.       *)
(*                                                                           *)
(* One chain is open.  SpendGate has what a permit needs and a change of     *)
(* chain, Payments what holds a failover off (here it is held off at will),  *)
(* History what a reading that fails leaves.                                 *)
EXTENDS Naturals, Sequences, FiniteSets

CONSTANTS
    Url,        \* endpoints
    Ours,       \* those that run the requested chain
    Builds,     \* the lists that builds ship: sequences of [url, slash]
    MaxHeight,  \* bound
    FailuresBeforeFailover,
    Swift,      \* is a reading done before anything else happens?
    Garbles,    \* may a node report a chain id that is not its chain's?
    MaxProbes   \* bound: probes under way

NodesAssumption ==
    /\ Ours \subseteq Url /\ 0 \notin Url
    /\ \A b \in Builds : b \in Seq([url : Url, slash : BOOLEAN]) /\ Len(b) > 0
    /\ \A b \in Builds : \A m, n \in DOMAIN b : b[m].url = b[n].url => m = n
    /\ {MaxHeight, FailuresBeforeFailover, MaxProbes} \subseteq Nat
    /\ {Swift, Garbles} \subseteq BOOLEAN

VARIABLES
    build,      \* the list of this build
    nodes,      \* NodeManager::nodes, by place
    active,     \* NodeManager::active, a place
    remembered, \* the setting active_node_url, of the open chain's store
    heights,    \* the chain: the height of each endpoint
    probes,     \* probes whose answer is not yet applied
    polling,    \* Polling::tip_in_flight
    unlocked,   \* Wallet::is_unlocked
    reading,    \* the reading under way: from where, at what height
    shown,      \* what the figures on the screen were read from, and when
    chosen,     \* history: the endpoint last chosen, by the user or a failover
    odd         \* history: the endpoints whose last report contradicted itself

vars == <<build, nodes, active, remembered, heights, probes, polling,
          unlocked, reading, shown, chosen, odd>>

Nowhere == [url |-> 0, slash |-> FALSE]
NoReading == [url |-> 0, at |-> 0]

\* NodeStatus; Probing is never set.
Status ==
    {"unknown", "online", "syncing", "wrong_network", "unidentified",
     "method_refused", "offline"}

\* Node::builtin
Builtin == [status |-> "unknown", network |-> "none", tip |-> 0, failures |-> 0, retry |-> 0]

\* NodeStatus::label, NodeStatus::note, to_node_vm
Label(status) ==
    CASE status \in {"unknown", "online", "offline"} -> status
      [] OTHER -> "degraded"
HasNote(status) == status \notin {"unknown", "online"}
NodeVm(n) ==
    [url |-> build[n].url, status |-> Label(nodes[n].status), network |-> nodes[n].network,
     tip |-> nodes[n].tip, note |-> HasNote(nodes[n].status)]

\* emit_network
NetworkVm ==
    [effective |-> nodes[active].network, tip |-> nodes[active].tip,
     syncing |-> nodes[active].status = "syncing", active |-> active,
     nodes |-> [n \in DOMAIN nodes |-> NodeVm(n)]]

\* same_endpoint: a slash at the end makes no other node.
SameEndpoint(a, b) == a.url = b.url

-----------------------------------------------------------------------------
(* What a probe says, and what it leaves *)

\* An answer is that of some moment since it was asked, at height "since".
ChainOf(u) == IF u \in Ours THEN "ours" ELSE "another"
Reports(u, since) ==
    [kind : {"info"}, name : {ChainOf(u)}, tip : since .. heights[u],
     matches : {TRUE, ~Garbles}, synced : BOOLEAN]
Replies(u, since) == {[kind |-> "error"], [kind |-> "unavailable"]} \cup Reports(u, since)

\* record_success
AfterSuccess(r) ==
    [status |-> IF ~r.matches THEN "unidentified"
                ELSE IF ~r.synced THEN "syncing"
                ELSE IF r.name # "ours" THEN "wrong_network" ELSE "online",
     network |-> IF r.matches THEN r.name ELSE "none",
     tip |-> r.tip, failures |-> 0, retry |-> 0]

\* backoff: five seconds, doubled with each failure, five minutes at most.
BASE_MS == 5000
CAP_MS == 300000
Shift(failures) == IF failures - 1 < 6 THEN failures - 1 ELSE 6
Backoff(failures) ==
    LET wait == BASE_MS * 2 ^ (IF failures = 0 THEN 0 ELSE Shift(failures))
    IN  IF wait < CAP_MS THEN wait ELSE CAP_MS

\* record_failure
AfterFailure(n, kind) ==
    IF kind = "unavailable" THEN [n EXCEPT !.status = "method_refused", !.retry = 0]
    ELSE [n EXCEPT !.failures = IF @ < FailuresBeforeFailover THEN @ + 1 ELSE @,
                   !.status = "offline", !.retry = Backoff(n.failures + 1)]

After(n, r) == IF r.kind = "info" THEN AfterSuccess(r) ELSE AfterFailure(n, r.kind)

\* reading_refused: not from a node that contradicts itself or names another
\* chain; one that has named none is read.
Refused(n) == n.status = "unidentified" \/ n.network \notin {"none", "ours"}

\* failover_target: an online node, those shipped before those that are not (all
\* are shipped here); the first there is.
Candidates(ns, a) ==
    {m \in DOMAIN ns : m # a /\ ns[m].status = "online"}
Target(ns, a) == CHOOSE m \in Candidates(ns, a) : \A k \in Candidates(ns, a) : m <= k

-----------------------------------------------------------------------------
TypeOK ==
    /\ build \in Builds /\ DOMAIN nodes = DOMAIN build /\ active \in DOMAIN build
    /\ \A n \in DOMAIN nodes :
        /\ nodes[n].status \in Status
        /\ nodes[n].status = "online" => nodes[n].network = "ours"
        /\ nodes[n].retry > 0 <=> nodes[n].status = "offline"
    /\ NetworkVm.syncing => NetworkVm.nodes[active].status = "degraded"
    /\ {polling, unlocked} \subseteq BOOLEAN
    /\ Cardinality(probes) <= MaxProbes

Init ==
    /\ build \in Builds /\ nodes = [n \in DOMAIN build |-> Builtin] /\ active = 1
    /\ remembered = Nowhere /\ heights = [u \in Url |-> 1]
    /\ probes = {} /\ polling = FALSE /\ unlocked = FALSE
    /\ reading = NoReading /\ shown = NoReading
    /\ chosen = 0 /\ odd = {}

\* refresh, of what the manager holds by now: one at a time, of an unlocked
\* wallet, from a node that is not refused.
Refresh(ns, a, open) ==
    reading' = IF reading # NoReading \/ ~open \/ Refused(ns[a]) THEN reading
               ELSE [url |-> build[a].url, at |-> heights[build[a].url]]

Idle == Swift => reading = NoReading

Told(n, r) ==
    odd' = IF r.kind # "info" THEN odd
           ELSE IF r.matches THEN odd \ {build[n].url} ELSE odd \cup {build[n].url}

-----------------------------------------------------------------------------
(* Choosing *)

\* SelectNode, set_active, remember_active_node
SelectNode(n) ==
    /\ Idle /\ n \in DOMAIN nodes /\ active' = n
    /\ remembered' = build[n] /\ chosen' = build[n].url
    /\ Refresh(nodes, n, unlocked)
    /\ UNCHANGED <<build, nodes, heights, probes, polling, unlocked, shown, odd>>

\* The process starts anew, perhaps another build: restore, set_active_by_url.
Restart(b) ==
    /\ b \in Builds /\ build' = b /\ nodes' = [n \in DOMAIN b |-> Builtin]
    /\ active' = IF \E n \in DOMAIN b : SameEndpoint(b[n], remembered)
                 THEN CHOOSE n \in DOMAIN b : SameEndpoint(b[n], remembered) ELSE 1
    /\ probes' = {} /\ polling' = FALSE /\ unlocked' = FALSE
    /\ reading' = NoReading /\ shown' = NoReading /\ odd' = {}
    /\ UNCHANGED <<remembered, heights, chosen>>

Unlock ==
    /\ ~unlocked /\ unlocked' = TRUE /\ Refresh(nodes, active, TRUE)
    /\ UNCHANGED <<build, nodes, active, remembered, heights, probes, polling,
                   shown, chosen, odd>>
Lock ==
    /\ unlocked' = FALSE
    /\ UNCHANGED <<build, nodes, active, remembered, heights, probes, polling,
                   reading, shown, chosen, odd>>

-----------------------------------------------------------------------------
(* Probing *)

\* dispatch_probe
Asked(n, poller) == [node |-> n, since |-> heights[build[n].url], poller |-> poller]

\* poll_tip
PollTip ==
    /\ ~polling /\ polling' = TRUE /\ Cardinality(probes) < MaxProbes
    /\ probes' = probes \cup {Asked(active, TRUE)}
    /\ UNCHANGED <<build, nodes, active, remembered, heights, unlocked, reading,
                   shown, chosen, odd>>

\* enter_screen, poll_inactive, probe_inactive: every node but the one in use.
Others == DOMAIN nodes \ {active}
ProbeInactive ==
    /\ Cardinality(probes) + Cardinality(Others) <= MaxProbes
    /\ probes' = probes \cup {Asked(n, FALSE) : n \in Others}
    /\ UNCHANGED <<build, nodes, active, remembered, heights, polling, unlocked, reading,
                   shown, chosen, odd>>

\* fail_over, of the list as the answer leaves it
FailsOver(ns) ==
    ns[active].failures >= FailuresBeforeFailover /\ Candidates(ns, active) # {}

\* finish_tip: recorded; a failure may end in a failover, and a new block of the
\* node in use in a reading.
FinishTip(p, r, held) ==
    LET n == p.node
        ns == [nodes EXCEPT ![n] = After(@, r)]
        ok == r.kind = "info"
    IN  /\ Idle /\ p \in probes /\ probes' = probes \ {p} /\ nodes' = ns /\ Told(n, r)
        /\ polling' = (polling /\ ~p.poller)
        /\ IF ~ok /\ ~held /\ FailsOver(ns)
           THEN LET t == Target(ns, active) IN
                /\ active' = t /\ remembered' = build[t] /\ chosen' = build[t].url
                /\ Refresh(ns, t, unlocked)
           ELSE /\ UNCHANGED <<active, remembered, chosen>>
                /\ IF ok /\ n = active /\ ns[n].tip # nodes[n].tip
                   THEN Refresh(ns, active, unlocked) ELSE UNCHANGED reading
        /\ UNCHANGED <<build, heights, unlocked, shown>>

\* probe_all: the core waits for each in turn, and reads at the end.
ProbeAll(replies) ==
    LET ns == [n \in DOMAIN nodes |-> After(nodes[n], replies[n])] IN
    /\ Idle /\ nodes' = ns
    /\ odd' = (odd \ {build[n].url : n \in {n \in DOMAIN ns : replies[n].kind = "info"}})
              \cup {build[n].url : n \in {n \in DOMAIN ns : ns[n].status = "unidentified"
                                                         /\ replies[n].kind = "info"}}
    /\ Refresh(ns, active, unlocked)
    /\ UNCHANGED <<build, active, remembered, heights, probes, polling, unlocked,
                   shown, chosen>>

\* finish_refresh
FinishRefresh ==
    /\ reading # NoReading /\ reading' = NoReading /\ shown' = reading
    /\ UNCHANGED <<build, nodes, active, remembered, heights, probes, polling,
                   unlocked, chosen, odd>>

\* A block at an endpoint; nothing is read of the other chain.
Grow(u) ==
    /\ heights[u] < MaxHeight /\ heights' = [heights EXCEPT ![u] = @ + 1]
    /\ UNCHANGED <<build, nodes, active, remembered, probes, polling, unlocked,
                   reading, shown, chosen, odd>>

Now(n) == Replies(build[n].url, heights[build[n].url])
AllNow == {f \in [DOMAIN nodes -> UNION {Now(n) : n \in DOMAIN nodes}] :
              \A n \in DOMAIN nodes : f[n] \in Now(n)}

Next ==
    \/ \E n \in DOMAIN nodes : SelectNode(n)
    \/ \E b \in Builds : Restart(b)
    \/ Unlock \/ Lock \/ PollTip \/ ProbeInactive \/ FinishRefresh
    \/ \E f \in AllNow : ProbeAll(f)
    \/ \E p \in probes, held \in BOOLEAN :
           \E r \in Replies(build[p.node].url, p.since) : FinishTip(p, r, held)
    \/ \E u \in Ours : Grow(u)

Spec == Init /\ [][Next]_vars

-----------------------------------------------------------------------------
(* Properties *)

\* The wallet stays with the node that was chosen, over starts and builds that
\* list the nodes in another order ("would otherwise silently move the user onto a
\* different chain": remember_active_node).
ActiveIsChosen ==
    \A n \in DOMAIN build : build[n].url = chosen => active = n

\* A failover ends at a node on the requested chain ("the property that makes
\* automatic switching safe at all": fail_over).
FailoverStaysOnChain ==
    remembered' # remembered /\ probes' # probes => build[active'].url \in Ours

\* When nothing is being read, the figures shown are of the node in use, and no
\* older than the height it is said to have.  Does not hold unless Swift: a block
\* or another node that comes during a reading starts none ("an answer that is
\* already on its way": refresh); nor when Garbles, as a node that comes to its
\* senses at the same height starts none either.
TipIsRead ==
    reading = NoReading /\ unlocked /\ nodes[active].status = "online" =>
        shown.url = build[active].url /\ shown.at >= nodes[active].tip

\* Does not hold when Garbles.  Nothing is read from "the one class of endpoint the
\* cross-check exists to distrust" (reading_refused): one failure later its status
\* is Offline and it has named no chain.
DistrustedIsNotRead ==
    reading' # reading /\ reading' # NoReading => reading'.url \notin odd'

\* Waits grow with the failures, up to five minutes (backoff).
BackoffGrows ==
    \A n \in 0 .. 40 : Backoff(n) <= Backoff(n + 1) /\ Backoff(n) \in BASE_MS .. CAP_MS
=============================================================================
