------------------------------ MODULE Reviews ------------------------------
(* Identity changes and conversions: signed, held under a ticket, reviewed   *)
(* and sent (pecu-core/src/lib.rs).  Both are built by a worker and kept by  *)
(* the actor until the user confirms or dismisses them.  A conversion is     *)
(* written to the ledger of pending.rs before it leaves; an identity change  *)
(* is not.  Payments holds the same for payments, Launch for launches.       *)
(*                                                                           *)
(* The ticket stands for the transaction.  The draft is in order and the     *)
(* vault unlocked whenever something is prepared; the permit is given or     *)
(* refused at will (SpendGate says when).                                    *)
EXTENDS LedgerOps, Sequences

CONSTANTS
    Chain, FirstChain,
    MaxTickets,     \* bound: what is prepared in one life of the process
    MaxRefusals,    \* bound: permits refused
    MaxRecords,     \* bound: records made in one ledger
    Refusing,       \* which confirmations may be refused a permit
    WritesFail,     \* whether the ledger's file may not be written
    Patient         \* whether the user changes chains only when nothing is out

Ticket == 1 .. MaxTickets
Kind == {"revocation", "update", "conversion"}

ReviewsAssumption ==
    /\ FirstChain \in Chain
    /\ MaxTickets \in Nat /\ Ticket \subseteq Tx
    /\ MaxRefusals \in Nat /\ MaxRecords \in Nat
    /\ Refusing \subseteq Kind
    /\ {WritesFail, Patient} \subseteq BOOLEAN

VARIABLES
    chain,          \* the open chain
    ledger,         \* pending: the ledger of the open chain
    closed,         \* the files of the other chains' ledgers
    tickets,        \* the last ticket given out
    changes,        \* identity_changes: signed identity changes
    confirms,       \* identity_confirms: tickets that need a word typed
    conversions,    \* conversions: signed conversions
    broadcasting,   \* the flag that holds off a change of chain
    jobs,           \* work whose answer is not yet applied
    refusals,       \* permits refused so far
    typed,          \* history: confirmations that were given with the word
    told,           \* history: conversions a node's yes or no was taken in for
    sent            \* history: what was handed to a node, in order

vars == <<chain, ledger, closed, tickets, changes, confirms, conversions,
          broadcasting, jobs, refusals, typed, told, sent>>

Review == [ticket : Ticket, kind : Kind, of : Chain]
Answers == {"none", "failed", "ok", "uncertain"}
\* A worker builds a review, or sends one on a chain; `record` is the ledger id.
Job == [what : {"build", "send"}, review : Review, on : Chain,
        record : Nat, answer : Answers]
Sending == [review : Review, on : Chain]

IsChange(r) == r.kind # "conversion"
Building(r, c) == [what |-> "build", review |-> r, on |-> c, record |-> 0,
                   answer |-> "none"]
Send(r, c, id) == [what |-> "send", review |-> r, on |-> c, record |-> id,
                   answer |-> "none"]

TypeOK ==
    /\ chain \in Chain
    /\ ledger \in Ledger
    /\ closed \in [Chain -> File]
    /\ tickets \in 0 .. MaxTickets
    /\ changes \subseteq {r \in Review : IsChange(r)}
    /\ confirms \subseteq Ticket
    /\ conversions \subseteq {r \in Review : ~IsChange(r)}
    /\ broadcasting \in BOOLEAN
    /\ jobs \subseteq Job
    /\ refusals \in 0 .. MaxRefusals
    /\ typed \subseteq Ticket
    /\ told \subseteq Ticket
    /\ sent \in Seq(Sending)

Init ==
    /\ chain = FirstChain
    /\ ledger = Opened(EmptyFile)
    /\ closed = [c \in Chain |-> EmptyFile]
    /\ tickets = 0
    /\ changes = {} /\ confirms = {} /\ conversions = {}
    /\ broadcasting = FALSE
    /\ jobs = {}
    /\ refusals = 0
    /\ typed = {}
    /\ told = {}
    /\ sent = <<>>

Write == IF WritesFail THEN BOOLEAN ELSE {TRUE}

-----------------------------------------------------------------------------
(* Building *)

\* prepare_identity_change, prepare_conversion
Prepare(kind) ==
    /\ tickets < MaxTickets
    /\ tickets' = tickets + 1
    /\ jobs' = jobs \cup
           {Building([ticket |-> tickets + 1, kind |-> kind, of |-> chain], chain)}
    /\ UNCHANGED <<chain, ledger, closed, changes, confirms, conversions,
                   broadcasting, refusals, typed, told, sent>>

\* finish_identity_change_prepared, with Change::needs_typed_confirmation
FinishIdentityChangePrepared(j) ==
    /\ j.what = "build" /\ j.answer # "none" /\ IsChange(j.review)
    /\ jobs' = jobs \ {j}
    /\ IF j.answer = "ok"
       THEN /\ changes' = changes \cup {j.review}
            /\ confirms' = IF j.review.kind = "revocation"
                           THEN confirms \cup {j.review.ticket} ELSE confirms
       ELSE UNCHANGED <<changes, confirms>>
    /\ UNCHANGED <<chain, ledger, closed, tickets, conversions, broadcasting,
                   refusals, typed, told, sent>>

\* finish_convert_prepare
FinishConvertPrepare(j) ==
    /\ j.what = "build" /\ j.answer # "none" /\ ~IsChange(j.review)
    /\ jobs' = jobs \ {j}
    /\ conversions' = conversions \cup (IF j.answer = "ok" THEN {j.review} ELSE {})
    /\ UNCHANGED <<chain, ledger, closed, tickets, changes, confirms,
                   broadcasting, refusals, typed, told, sent>>

\* CancelIdentityChange, CancelConversion
Cancel(t) ==
    /\ changes' = {r \in changes : r.ticket # t}
    /\ conversions' = {r \in conversions : r.ticket # t}
    /\ \/ /\ conversions' = conversions /\ changes' # changes
          /\ confirms' = confirms \ {t}
       \/ /\ changes' = changes /\ conversions' # conversions
          /\ UNCHANGED confirms
    /\ UNCHANGED <<chain, ledger, closed, tickets, broadcasting, jobs, refusals,
                   typed, told, sent>>

-----------------------------------------------------------------------------
(* Confirming *)

Refuse(kind) ==
    /\ kind \in Refusing
    /\ refusals < MaxRefusals
    /\ refusals' = refusals + 1

\* confirm_identity_change: the word first, then the review and the mark that
\* asks for the word are taken out, then the permit; a refused permit puts the
\* review back, and not the mark.
ConfirmIdentityChange(r, word) ==
    /\ r \in changes
    /\ r.ticket \in confirms => word
    /\ confirms' = confirms \ {r.ticket}
    /\ \/ /\ Refuse(r.kind)
          /\ UNCHANGED <<changes, jobs, typed>>
       \/ /\ changes' = changes \ {r}
          /\ typed' = IF word THEN typed \cup {r.ticket} ELSE typed
          /\ jobs' = jobs \cup {Send(r, chain, 0)}
          /\ UNCHANGED refusals
    /\ UNCHANGED <<chain, ledger, closed, tickets, conversions, broadcasting, told,
                   sent>>

\* Mutant: the write is not waited for.
ConfirmConversionHopeful(r, wrote) ==
    /\ r \in conversions
    /\ ledger.next <= MaxRecords
    /\ ledger' = Committed(ledger, r.ticket, wrote)
    /\ conversions' = conversions \ {r}
    /\ broadcasting' = TRUE
    /\ jobs' = jobs \cup {Send(r, chain, ledger.next)}
    /\ UNCHANGED <<chain, closed, tickets, changes, confirms, refusals, typed, told, sent>>

\* confirm_conversion: no permit, or a ledger that cannot be written, and the
\* review is put back; otherwise it is recorded, then handed to the worker.
ConfirmConversion(r, wrote) ==
    /\ r \in conversions
    /\ ledger.next <= MaxRecords
    /\ \/ /\ Refuse("conversion")
          /\ UNCHANGED <<ledger, conversions, broadcasting, jobs>>
       \/ /\ ledger' = Committed(ledger, r.ticket, wrote)
          /\ UNCHANGED refusals
          /\ IF wrote
             THEN /\ conversions' = conversions \ {r}
                  /\ broadcasting' = TRUE
                  /\ jobs' = jobs \cup {Send(r, chain, ledger.next)}
             ELSE UNCHANGED <<conversions, broadcasting, jobs>>
    /\ UNCHANGED <<chain, closed, tickets, changes, confirms, typed, told, sent>>

-----------------------------------------------------------------------------
(* The worker, and its answers *)

\* A build answers; a broadcast is handed over, and may reach the network
\* without an answer ("uncertain": FlowError::BroadcastUncertain).
Run(j, a) ==
    /\ j.answer = "none"
    /\ j.what = "build" => a # "uncertain"
    /\ jobs' = (jobs \ {j}) \cup {[j EXCEPT !.answer = a]}
    /\ sent' = IF j.what = "send" THEN Append(sent, [review |-> j.review, on |-> j.on])
               ELSE sent
    /\ UNCHANGED <<chain, ledger, closed, tickets, changes, confirms, conversions,
                   broadcasting, refusals, typed, told>>

\* finish_identity_changed: reported, and the identities asked for again.
FinishIdentityChanged(j) ==
    /\ j.what = "send" /\ j.answer # "none" /\ IsChange(j.review)
    /\ jobs' = jobs \ {j}
    /\ UNCHANGED <<chain, ledger, closed, tickets, changes, confirms, conversions,
                   broadcasting, refusals, typed, told, sent>>

\* finish_convert_broadcast: sent and let go of, refused and marked abandoned,
\* or left as it is.  The record is looked up in the ledger of the open chain.
FinishConvertBroadcast(j, w1, w2) ==
    /\ j.what = "send" /\ j.answer # "none" /\ ~IsChange(j.review)
    /\ jobs' = jobs \ {j}
    /\ broadcasting' = FALSE
    /\ told' = IF j.answer = "uncertain" THEN told ELSE told \cup {j.review.ticket}
    /\ ledger' = IF j.answer = "uncertain" THEN ledger
                 ELSE ConfirmedForgotten(StateSet(ledger, j.record,
                        IF j.answer = "ok" THEN "confirmed" ELSE "abandoned", w1), w2)
    /\ UNCHANGED <<chain, closed, tickets, changes, confirms, conversions,
                   refusals, typed, sent>>

-----------------------------------------------------------------------------
(* The rest of the process *)

AtRest == jobs = {} /\ conversions = {}

\* switch_network: the reviews of identity changes are dropped, those of
\* conversions are not; the other chain's ledger is opened.
SwitchNetwork(c) ==
    /\ c # chain
    /\ ~broadcasting
    /\ Patient => AtRest
    /\ chain' = c
    /\ closed' = [closed EXCEPT ![chain] = ledger.file, ![c] = EmptyFile]
    /\ ledger' = Opened(closed[c])
    /\ changes' = {} /\ confirms' = {}
    /\ UNCHANGED <<tickets, conversions, broadcasting, jobs, refusals, typed, told, sent>>

\* The process dies and starts again on the same chain.  Tickets are not given
\* out twice here, which tells the lives of the process apart.
Restart ==
    /\ ledger' = Opened(ledger.file)
    /\ changes' = {} /\ confirms' = {} /\ conversions' = {}
    /\ broadcasting' = FALSE
    /\ jobs' = {}
    /\ UNCHANGED <<chain, closed, tickets, refusals, typed, told, sent>>

Command ==
    \/ \E kind \in Kind : Prepare(kind)
    \/ \E t \in Ticket : Cancel(t)
    \/ \E r \in changes, word \in BOOLEAN : ConfirmIdentityChange(r, word)
    \/ \E r \in conversions, wrote \in Write : ConfirmConversion(r, wrote)
    \/ \E c \in Chain : SwitchNetwork(c)

Finish(j) ==
    \/ FinishIdentityChangePrepared(j)
    \/ FinishConvertPrepare(j)
    \/ FinishIdentityChanged(j)
    \/ \E w1, w2 \in Write : FinishConvertBroadcast(j, w1, w2)

Next ==
    \/ Command
    \/ \E j \in jobs : Finish(j) \/ \E a \in Answers \ {"none"} : Run(j, a)
    \/ Restart

Spec == Init /\ [][Next]_vars

-----------------------------------------------------------------------------
(* Properties *)

\* A revocation leaves the wallet only after its word was typed ("The typed
\* word, checked here rather than in the interface": Core::confirm_identity_change).
\* Does not hold if "revocation" is in Refusing: the refusal puts back the review
\* without its word.
RevocationNeedsWord ==
    \A n \in DOMAIN sent :
        sent[n].review.kind = "revocation" => sent[n].review.ticket \in typed

\* What is sent was signed for the chain it is sent on (Core::switch_network
\* throws away what "describes a chain that is no longer open").
\* Does not hold unless Patient: what is built late is held whatever chain is
\* open.
ChangesOfThisChain ==
    \A n \in DOMAIN sent : IsChange(sent[n].review) => sent[n].review.of = sent[n].on

\* A review that was confirmed cannot be confirmed again: nothing is handed to
\* a node twice (confirm_identity_change and confirm_conversion take it out).
SentOnce ==
    \A m, n \in DOMAIN sent : sent[m].review.ticket = sent[n].review.ticket => m = n

FileOf(c) == IF c = chain THEN ledger.file ELSE closed[c]
OnItsWay ==
    {[review |-> j.review, on |-> j.on] : j \in {j \in jobs : j.what = "send"}}
    \cup {sent[n] : n \in DOMAIN sent}

\* Until a node's yes or no is taken in, a conversion stays undecided in the
\* ledger of its chain: it is recorded before it leaves, a lost answer or a
\* crash leaves it there, and no other answer marks its record
\* (Core::confirm_conversion, Core::finish_convert_broadcast).
\* Does not hold unless Patient: one flag stands for every broadcast, and an
\* answer says only the id.
UnansweredRecorded ==
    \A s \in OnItsWay :
        (~IsChange(s.review) /\ s.review.ticket \notin told) =>
            \E r \in FileOf(s.on).records :
                r.tx = s.review.ticket /\ r.state = "uncertain"
=============================================================================
