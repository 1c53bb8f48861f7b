------------------------------ MODULE Payments ------------------------------
(* A payment's life in the actor of pecu-core/src/lib.rs: signed by a worker, *)
(* reviewed, committed to the ledger, handed to a node by a second worker,    *)
(* and - when nobody can say whether the node took it - asked about, re-sent  *)
(* as the same bytes, or given up.  Around it: failover, the choice of node,  *)
(* a change of chain, and a process that may die at any point.                *)
(*                                                                            *)
(* The actor is the only writer: every action below except the Run actions    *)
(* and the network's is one turn of its loop.  A dispatched job runs apart:   *)
(* it is in `jobs` from the dispatch until the actor takes its answer off the *)
(* work channel.  A job's effect on the network and its answer are decided by *)
(* RunBroadcast and RunCheck; the answer is applied by the Finish actions, in *)
(* whatever order the jobs end, with anything in between.                     *)
(*                                                                            *)
(* Not here: how a payment is built (a job that ends with a signed            *)
(* transaction or an error), what a permit asks beyond an Online node (module *)
(* SpendGate; a refused permit leaves everything as it was), the caches and   *)
(* screens a settled payment refreshes, and time: a record is due for its     *)
(* next check at some moment after the last one ended.                        *)
EXTENDS LedgerOps, FiniteSets

CONSTANTS
    Chain,              \* the chains the wallet can be set to
    Node,               \* the endpoints of all chains
    ChainOf,            \* the chain each endpoint belongs to
    Home,               \* the chain each transaction is signed for
    FirstChain,         \* the chain open at the start
    FailuresBeforeFailover,
    Slot,               \* bound: jobs in flight at once
    MaxId,              \* bound: ids a ledger gives out between two openings
    WritesFail,         \* whether a write of the ledger's file may fail
    WorkersPanic,       \* whether a worker may panic
    Crashes,            \* whether the process may die
    NodesForget         \* whether a node may drop what its mempool held

ASSUME PaymentsAssumption ==
    /\ ChainOf \in [Node -> Chain]
    /\ Home \in [Tx -> Chain]
    /\ FirstChain \in Chain
    /\ \A c \in Chain : \E n \in Node : ChainOf[n] = c
    /\ FailuresBeforeFailover \in Nat \ {0}
    /\ MaxId \in Nat \ {0}
    /\ {WritesFail, WorkersPanic, Crashes, NodesForget} \subseteq BOOLEAN

VARIABLES
    chain,          \* the chain that is open
    ledger,         \* `pending`: its ledger, in memory and on disk
    closed,         \* the ledger files of the chains that are not open
    active,         \* the node in use
    health,         \* per node: whether it is Online, consecutive failures
    prepared,       \* signed payments awaiting the user's confirmation
    broadcasting,   \* the actor's flag
    checking,       \* ids of the records with a check in flight
    jobs,           \* the dispatched jobs whose answer is not yet applied
    signed,         \* history: transactions ever signed
    seen,           \* network: what each node has
    taken,          \* network, history: what some node has ever accepted
    denied,         \* history: what some node has ever denied having
    handed,         \* history: the nodes each transaction was handed to
    moved           \* history: whether the user ever chose another node

actor == <<chain, ledger, closed, active, health, prepared, broadcasting,
           checking>>
network == <<seen, taken, denied>>
history == <<signed, handed, moved>>
vars == <<actor, jobs, network, history>>

Kind == {"prepare", "broadcast", "resend", "check"}
Answer == {"ok", "uncertain", "refused", "has", "has_not", "unreached"}
Job == [slot : Slot, kind : Kind, id : 0 .. MaxId, tx : Tx, node : Node,
        answer : Answer \cup {"none"}]

TypeOK ==
    /\ chain \in Chain
    /\ ledger \in Ledger
    /\ closed \in [Chain -> File]
    /\ active \in Node
    /\ health \in [Node -> [online : BOOLEAN,
                            failures : 0 .. FailuresBeforeFailover]]
    /\ prepared \subseteq Tx
    /\ broadcasting \in BOOLEAN
    /\ checking \subseteq 0 .. MaxId
    /\ jobs \subseteq Job
    /\ signed \subseteq Tx
    /\ seen \in [Node -> SUBSET Tx]
    /\ taken \subseteq Tx
    /\ denied \subseteq Tx
    /\ handed \in [Tx -> SUBSET Node]
    /\ moved \in BOOLEAN

-----------------------------------------------------------------------------
Unasked == [online |-> FALSE, failures |-> 0]

Init ==
    /\ chain = FirstChain
    /\ ledger = Opened(EmptyFile)
    /\ closed = [c \in Chain |-> EmptyFile]
    /\ active \in {n \in Node : ChainOf[n] = FirstChain}
    /\ health = [n \in Node |-> Unasked]
    /\ prepared = {}
    /\ broadcasting = FALSE
    /\ checking = {}
    /\ jobs = {}
    /\ signed = {}
    /\ seen = [n \in Node |-> {}]
    /\ taken = {}
    /\ denied = {}
    /\ handed = [t \in Tx |-> {}]
    /\ moved = FALSE

\* The outcomes a write of the ledger's file can have.
Write == IF WritesFail THEN BOOLEAN ELSE {TRUE}

\* spend_permit, as far as the nodes of this module decide it.
Permitted == health[active].online

\* Blocking::dispatch: the job is bound to the client of the node in use now.
Dispatch(kind, id, t) ==
    \E s \in Slot \ {j.slot : j \in jobs} :
        jobs' = jobs \cup {[slot |-> s, kind |-> kind, id |-> id, tx |-> t,
                            node |-> active, answer |-> "none"]}

\* A job that hands the bytes to the node in use.
HandOver(kind, id, t) ==
    /\ Dispatch(kind, id, t)
    /\ handed' = [handed EXCEPT ![t] = @ \cup {active}]

-----------------------------------------------------------------------------
(* Commands: what the user can ask for *)

\* prepare_send: a worker reads the coins and signs; nothing is spent.
PrepareSend(t) ==
    /\ t \notin signed
    /\ Home[t] = chain
    /\ signed' = signed \cup {t}
    /\ Dispatch("prepare", 0, t)
    /\ UNCHANGED <<actor, network, handed, moved>>

\* CancelSend
CancelSend(t) ==
    /\ t \in prepared
    /\ prepared' = prepared \ {t}
    /\ UNCHANGED <<chain, ledger, closed, active, health, broadcasting,
                   checking, jobs, network, history>>

\* Mutant: the ticket stays valid.
ConfirmSendAgain(t, wrote) ==
    /\ t \in prepared
    /\ Permitted
    /\ ledger.next <= MaxId
    /\ ledger' = Committed(ledger, t, wrote)
    /\ wrote
    /\ broadcasting' = TRUE
    /\ HandOver("broadcast", ledger.next, t)
    /\ UNCHANGED <<chain, closed, active, health, prepared, checking, network,
                   signed, moved>>

\* Mutant: an unwritten record is no reason not to send.
ConfirmSendUnrecorded(t, wrote) ==
    /\ t \in prepared
    /\ Permitted
    /\ ledger.next <= MaxId
    /\ ledger' = Committed(ledger, t, wrote)
    /\ prepared' = prepared \ {t}
    /\ broadcasting' = TRUE
    /\ HandOver("broadcast", ledger.next, t)
    /\ UNCHANGED <<chain, closed, active, health, checking, network, signed,
                   moved>>

\* confirm_send: the record is committed before the bytes are handed over.
\* When it cannot be written the payment goes back and nothing is sent.
ConfirmSend(t, wrote) ==
    /\ t \in prepared
    /\ Permitted
    /\ ledger.next <= MaxId
    /\ ledger' = Committed(ledger, t, wrote)
    /\ IF wrote
       THEN /\ prepared' = prepared \ {t}
            /\ broadcasting' = TRUE
            /\ HandOver("broadcast", ledger.next, t)
       ELSE UNCHANGED <<prepared, broadcasting, jobs, handed>>
    /\ UNCHANGED <<chain, closed, active, health, checking, network, signed,
                   moved>>

\* check_pending: one read of one record.
CheckPending(r) ==
    /\ checking' = checking \cup {r.id}
    /\ Dispatch("check", r.id, r.tx)
    /\ UNCHANGED <<chain, ledger, closed, active, health, prepared,
                   broadcasting, network, history>>

\* PendingAction::CheckNow, on a row the dashboard lists.
CheckNow(r) ==
    /\ r \in Unresolved(ledger)
    /\ CheckPending(r)

\* The dashboard offers to send a record's bytes again only once it is absent.
ResendOffered(r) == r \in ledger.mem /\ r.state = "absent"

\* PendingAction::ResendSameBytes, resend_pending
Resend(r) ==
    /\ ResendOffered(r)
    /\ Permitted
    /\ broadcasting' = TRUE
    /\ HandOver("resend", r.id, r.tx)
    /\ UNCHANGED <<chain, ledger, closed, active, health, prepared, checking,
                   network, signed, moved>>

\* PendingAction::Abandon, on a row the dashboard lists.
Abandon(r, wrote) ==
    /\ r \in Unresolved(ledger)
    /\ ledger' = StateSet(ledger, r.id, "abandoned", wrote)
    /\ UNCHANGED <<chain, closed, active, health, prepared, broadcasting,
                   checking, jobs, network, history>>

\* Command::SelectNode
SelectNode(n) ==
    /\ ChainOf[n] = chain
    /\ active' = n
    /\ moved' = (moved \/ n # active)
    /\ UNCHANGED <<chain, ledger, closed, health, prepared, broadcasting,
                   checking, jobs, network, signed, handed>>

\* switch_network: everything the old chain answered is dropped, the files of
\* the new one opened, and no job is waited for or recalled.
SwitchNetwork(c) ==
    /\ c # chain
    /\ ~broadcasting
    /\ chain' = c
    /\ closed' = [closed EXCEPT ![chain] = ledger.file, ![c] = EmptyFile]
    /\ ledger' = Opened(closed[c])
    /\ active' \in {n \in Node : ChainOf[n] = c}
    /\ health' = [n \in Node |-> Unasked]
    /\ prepared' = {}
    /\ checking' = {}
    /\ UNCHANGED <<broadcasting, jobs, network, history>>

-----------------------------------------------------------------------------
(* The tick *)

\* poll_pending: a record that is due and has no check of its own in flight.
\* (A tick that finds several due is that many steps here: nothing the other
\* checks read or write is touched by the first.)
PollPending(r) ==
    /\ r \in Unresolved(ledger)
    /\ r.id \notin checking
    /\ CheckPending(r)

\* Mutant: an absent payment no longer counts as undecided.
ResolutionPendingUncertain == \E r \in ledger.mem : r.state = "uncertain"

\* resolution_pending: whether any payment's fate is unknown.
ResolutionPending ==
    \E r \in ledger.mem : r.state \in {"uncertain", "absent"}

\* failover_target
FailoverTargets(known) ==
    IF known[active].failures < FailuresBeforeFailover THEN {}
    ELSE {n \in Node \ {active} : ChainOf[n] = chain /\ known[n].online}

\* Mutant: an answer does not end a run of failures.
TipAnsweredCounting(n, online) ==
    /\ ChainOf[n] = chain
    /\ health' = [health EXCEPT ![n].online = online]
    /\ UNCHANGED <<chain, ledger, closed, active, prepared, broadcasting,
                   checking, jobs, network, history>>

\* finish_tip on an answer: the node is Online, or it answers and is not one to
\* spend through (syncing, another chain, unidentified).
TipAnswered(n, online) ==
    /\ ChainOf[n] = chain
    /\ health' = [health EXCEPT ![n] = [online |-> online, failures |-> 0]]
    /\ UNCHANGED <<chain, ledger, closed, active, prepared, broadcasting,
                   checking, jobs, network, history>>

\* fail_over, after health' is set: not while a payment is being sent, and not
\* while one's fate is unknown.
FailOver ==
    IF broadcasting \/ ResolutionPending \/ FailoverTargets(health') = {}
    THEN active' = active
    ELSE active' \in FailoverTargets(health')

\* finish_tip on a failure, counted unless the node merely refuses the method.
TipFailed(n, counted) ==
    /\ ChainOf[n] = chain
    /\ LET was  == health[n].failures
           more == IF counted /\ was < FailuresBeforeFailover
                   THEN was + 1 ELSE was
       IN  health' = [health EXCEPT ![n] = [online |-> FALSE,
                                            failures |-> more]]
    /\ FailOver
    /\ UNCHANGED <<chain, ledger, closed, prepared, broadcasting, checking,
                   jobs, network, history>>

-----------------------------------------------------------------------------
(* Answers: finish_work *)

\* finish_prepare: a signed payment, or the reason there is none.
FinishPrepare(j, ok) ==
    /\ j.kind = "prepare"
    /\ prepared' = IF ok THEN prepared \cup {j.tx} ELSE prepared
    /\ jobs' = jobs \ {j}
    /\ UNCHANGED <<chain, ledger, closed, active, health, broadcasting,
                   checking, network, history>>

\* What set_state(Confirmed) and forget_confirmed leave behind.
Settled(id, w1, w2) ==
    ConfirmedForgotten(StateSet(ledger, id, "confirmed", w1), w2)

\* Mutant: no answer is taken for a refusal.
AfterBroadcastHasty(j, w1, w2) ==
    IF j.answer = "ok" THEN Settled(j.id, w1, w2)
    ELSE StateSet(ledger, j.id, "abandoned", w1)

\* The ledger after the answer to a broadcast.
AfterBroadcast(j, w1, w2) ==
    CASE j.answer = "ok"        -> Settled(j.id, w1, w2)
      [] j.answer = "uncertain" -> ledger
      [] j.answer = "refused"   -> StateSet(ledger, j.id, "abandoned", w1)

\* Mutant: a refusal leaves the flag up.
FinishBroadcastStuck(j, w1, w2) ==
    /\ j.kind = "broadcast"
    /\ j.answer # "none"
    /\ broadcasting' = (j.answer = "refused")
    /\ ledger' = AfterBroadcast(j, w1, w2)
    /\ jobs' = jobs \ {j}
    /\ UNCHANGED <<chain, closed, active, health, prepared, checking, network,
                   history>>

\* finish_broadcast
FinishBroadcast(j, w1, w2) ==
    /\ j.kind = "broadcast"
    /\ j.answer # "none"
    /\ broadcasting' = FALSE
    /\ ledger' = AfterBroadcast(j, w1, w2)
    /\ jobs' = jobs \ {j}
    /\ UNCHANGED <<chain, closed, active, health, prepared, checking, network,
                   history>>

\* Mutant: a resend without an answer counts as sent.
FinishResendHopeful(j, w1, w2) ==
    /\ j.kind = "resend"
    /\ j.answer # "none"
    /\ broadcasting' = FALSE
    /\ ledger' = IF j.answer = "refused" THEN StateSet(ledger, j.id, "resent", w1)
                 ELSE Settled(j.id, w1, w2)
    /\ jobs' = jobs \ {j}
    /\ UNCHANGED <<chain, closed, active, health, prepared, checking, network,
                   history>>

\* finish_resend: any failure, refusals included, is "still unknown".
FinishResend(j, w1, w2) ==
    /\ j.kind = "resend"
    /\ j.answer # "none"
    /\ broadcasting' = FALSE
    /\ ledger' = IF j.answer = "ok" THEN Settled(j.id, w1, w2)
                 ELSE StateSet(ledger, j.id, "resent", w1)
    /\ jobs' = jobs \ {j}
    /\ UNCHANGED <<chain, closed, active, health, prepared, checking, network,
                   history>>

\* The fruitless half of finish_check: count it, and call the payment absent
\* once it has been asked about often enough.
Fruitless(id, w1, w2) ==
    LET noted == CheckNoted(ledger, id, w1)
        due   == \E r \in WithId(noted, id) :
                    r.checks >= AbsentAfter /\ r.state = "uncertain"
    IN  IF due THEN StateSet(noted, id, "absent", w2) ELSE noted

\* Mutant: the mark of a check in flight is never taken off.
FinishCheckOnce(j, w1, w2) ==
    /\ j.kind = "check"
    /\ j.answer # "none"
    /\ ledger' = IF j.answer = "has" THEN Settled(j.id, w1, w2)
                 ELSE Fruitless(j.id, w1, w2)
    /\ jobs' = jobs \ {j}
    /\ UNCHANGED <<chain, closed, active, health, prepared, broadcasting,
                   checking, network, history>>

\* finish_check: a node that could not be reached and a node that does not have
\* the transaction arrive as the same None.
FinishCheck(j, w1, w2) ==
    /\ j.kind = "check"
    /\ j.answer # "none"
    /\ checking' = checking \ {j.id}
    /\ ledger' = IF j.answer = "has" THEN Settled(j.id, w1, w2)
                 ELSE Fruitless(j.id, w1, w2)
    /\ jobs' = jobs \ {j}
    /\ UNCHANGED <<chain, closed, active, health, prepared, broadcasting,
                   network, history>>

-----------------------------------------------------------------------------
(* Workers, the process and the network *)

Answered(j, a) == jobs' = (jobs \ {j}) \cup {[j EXCEPT !.answer = a]}

\* The node takes the bytes; the answer arrives, or is lost on the way.
Taken(j, a) ==
    /\ a \in {"ok", "uncertain"}
    /\ ChainOf[j.node] = Home[j.tx]
    /\ seen' = [seen EXCEPT ![j.node] = @ \cup {j.tx}]
    /\ taken' = taken \cup {j.tx}
    /\ denied' = denied

\* The bytes never arrive, or the node understands them and says no; it does
\* not refuse what it already holds.
NotTaken(j, a) ==
    /\ \/ a = "uncertain"
       \/ a = "refused" /\ j.tx \notin seen[j.node]
    /\ UNCHANGED network

\* send::broadcast and send::resend, on the worker
RunBroadcast(j, a) ==
    /\ j.kind \in {"broadcast", "resend"}
    /\ j.answer = "none"
    /\ Answered(j, a)
    /\ Taken(j, a) \/ NotTaken(j, a)
    /\ UNCHANGED <<actor, history>>

\* The read of check_pending, on the worker: a node answers from what it has.
RunCheck(j, reached) ==
    /\ j.kind = "check"
    /\ j.answer = "none"
    /\ LET a == IF ~reached THEN "unreached"
                ELSE IF j.tx \in seen[j.node] THEN "has" ELSE "has_not"
       IN  /\ Answered(j, a)
           /\ denied' = IF a = "has_not" THEN denied \cup {j.tx} ELSE denied
    /\ UNCHANGED <<actor, seen, taken, history>>

\* A worker that panics posts nothing: Blocking::dispatch logs it.
Panic(j) ==
    /\ WorkersPanic
    /\ jobs' = jobs \ {j}
    /\ UNCHANGED <<actor, network, history>>

\* The process dies and is started again: memory and jobs are gone, the node in
\* use and the chain were written down when they were chosen.
Restart ==
    /\ Crashes
    /\ ledger' = Opened(ledger.file)
    /\ health' = [n \in Node |-> Unasked]
    /\ prepared' = {}
    /\ broadcasting' = FALSE
    /\ checking' = {}
    /\ jobs' = {}
    /\ UNCHANGED <<chain, closed, active, network, history>>

\* Nodes of one chain pass transactions on.
Gossip(t, n) ==
    /\ \E m \in Node : ChainOf[m] = ChainOf[n] /\ t \in seen[m]
    /\ seen' = [seen EXCEPT ![n] = @ \cup {t}]
    /\ UNCHANGED <<actor, jobs, taken, denied, history>>

\* A mempool drops what was never mined.
Forget(t, n) ==
    /\ NodesForget
    /\ t \in seen[n]
    /\ seen' = [seen EXCEPT ![n] = @ \ {t}]
    /\ UNCHANGED <<actor, jobs, taken, denied, history>>

-----------------------------------------------------------------------------
Command ==
    \/ \E t \in Tx :
        \/ PrepareSend(t)
        \/ CancelSend(t)
        \/ \E wrote \in Write : ConfirmSend(t, wrote)
    \/ \E r \in ledger.mem :
        \/ CheckNow(r)
        \/ Resend(r)
        \/ \E wrote \in Write : Abandon(r, wrote)
    \/ \E n \in Node : SelectNode(n)
    \/ \E c \in Chain : SwitchNetwork(c)

Tick ==
    \/ \E r \in ledger.mem : PollPending(r)
    \/ \E n \in Node, b \in BOOLEAN : TipAnswered(n, b) \/ TipFailed(n, b)

Finish(j) ==
    \/ \E ok \in BOOLEAN : FinishPrepare(j, ok)
    \/ \E w1, w2 \in Write :
        \/ FinishBroadcast(j, w1, w2)
        \/ FinishResend(j, w1, w2)
        \/ FinishCheck(j, w1, w2)

Run(j) ==
    \/ \E a \in Answer : RunBroadcast(j, a)
    \/ \E reached \in BOOLEAN : RunCheck(j, reached)

World ==
    \/ \E j \in jobs : Panic(j)
    \/ Restart
    \/ \E t \in Tx, n \in Node : Gossip(t, n) \/ Forget(t, n)

Next ==
    \/ Command
    \/ Tick
    \/ \E j \in jobs : Finish(j) \/ Run(j)
    \/ World

\* The work of one worker, and the question about one payment.
Of(s) == {j \in jobs : j.slot = s}
PollNumber(id) == \E r \in ledger.mem : r.id = id /\ PollPending(r)

Spec == Init /\ [][Next]_vars

-----------------------------------------------------------------------------
(* Safety *)

OnFile(t) == \E r \in ledger.file.records : r.tx = t

\* Bytes on their way to a node for the first time are on disk before any node
\* can have them: whenever the process dies there is something to ask about.
\* Does not hold with two chains: one flag stands for several broadcasts, and
\* the file that is open may be the other chain's.
RecordedBeforeBroadcast ==
    \A j \in jobs :
        j.kind = "broadcast" /\ j.answer = "none" /\ j.tx \notin taken
            => OnFile(j.tx)

\* The same of every hand-over, a resend included (pending.rs:108: "Sending
\* bytes we have not managed to record is precisely the situation this module
\* exists to prevent").
\* Does not hold if WritesFail: a record that could not be written stays in
\* memory, and is offered for resending.
RecordedBeforeAnySend ==
    \A j \in jobs :
        j.kind \in {"broadcast", "resend"} /\ j.answer = "none"
        /\ j.tx \notin taken
            => OnFile(j.tx)

\* A confirmed ticket is used up: no signed payment is at once waiting for a
\* confirmation and in a ledger, so a second press commits nothing again.
\* Does not hold if WritesFail: a payment that could not be recorded stays in
\* memory beside its ticket.
TicketSpentOnce ==
    \A t \in prepared :
        /\ \A r \in ledger.mem : r.tx # t
        /\ \A c \in Chain : \A r \in closed[c].records : r.tx # t

\* The wallet gives a payment up by itself only when no node ever took it
\* (finish_broadcast: "A refusal is unambiguous").  Said of a payment still
\* uncertain: one already called absent may have been re-sent meanwhile.
GivenUpOnlyIfRefused ==
    [][\A r \in ledger.mem, q \in ledger'.mem :
        r.id = q.id /\ r.state = "uncertain" /\ q.state = "abandoned"
        /\ jobs' # jobs => r.tx \notin taken]_vars

\* A node that never had the bytes legitimately answers "no" about them, and
\* enough noes make a payment absent.  So while a payment is undecided, the
\* wallet left to itself asks only nodes it handed the bytes to.  (A user may
\* choose another node at any time, and then it does ask there.)
AskedWhereHanded ==
    moved \/ \A j \in jobs, r \in ledger.mem :
        j.kind = "check" /\ j.id = r.id /\ r.state \in {"uncertain", "absent"}
            => j.node \in handed[j.tx]

\* One timeout is a hiccup: the wallet never leaves a node before it has failed
\* FailuresBeforeFailover times in a row, and moves to one that owes nothing,
\* so it cannot flap between two that fail by turns.
NoFlapping ==
    [][active' # active /\ health' # health /\ chain' = chain =>
        /\ health'[active].failures = FailuresBeforeFailover
        /\ health'[active'].failures = 0]_vars

\* What the module promises about signed bytes, and nothing else.
Promise == INSTANCE Custody WITH
    kept <- {r.tx : r \in ledger.file.records}
KeepsCustody == Promise!Spec

-----------------------------------------------------------------------------
(* Liveness *)

\* The flag that holds off failover and a change of chain does not outlive the
\* hand-over it stands for.
Waiting == broadcasting

\* A payment the node in use has is not listed as unresolved for ever: it is
\* asked about until it settles, or the user gives it up.
SeenUnsettled(t) == t \in seen[active] /\ \E r \in Unresolved(ledger) : r.tx = t

-----------------------------------------------------------------------------
(* What the code's own words say of it and the code does not do *)

\* "A node that cannot be reached is not a node saying 'no'" (check_pending),
\* and absent means "checked repeatedly and never seen" (State::Absent): some
\* node has said no.
\* Does not hold: a check that never reached a node counts like a no.
AbsentWasDenied ==
    \A r \in ledger.mem : r.state = "absent" => r.tx \in denied

\* forget_confirmed: "Only for Confirmed: everything else is either still in
\* doubt or is a decision worth keeping a trace of" - the bytes let go of are
\* bytes some node took.
\* Does not hold with two chains: ids restart on each, and a check says only
\* the id.
LetGoOnlyIfTaken ==
    [][chain' = chain =>
        \A r \in ledger.mem :
            r.tx \in taken' \/ \E q \in ledger'.mem : q.tx = r.tx]_vars
=============================================================================
