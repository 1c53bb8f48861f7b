------------------------------- MODULE Launch -------------------------------
(* Making a currency under a name nobody owns yet, of pecu-core/src/lib.rs   *)
(* and pecu-core/src/launch.rs: the decision is written down, the name is    *)
(* registered in two transactions (Registration), and when it has landed the *)
(* definition of the currency is built, signed and put before the user, who  *)
(* confirms it.  Here the two halves meet each other, the change of chain    *)
(* and the currencies made under names the wallet has already.               *)
(*                                                                           *)
(* A claim is one commitment with its salt, and the identity it becomes.     *)
(* The chains keep a reservation and an intent file each; the process holds  *)
(* the reservation of the open chain (`reservation`, the files of the others *)
(* are in `closed`), and one intent, whose path is that of the chain it was  *)
(* opened on.  A worker keeps the node it was given; a node of another chain *)
(* knows neither the coins nor the names of a transaction.  The name in a    *)
(* review is that of the definition, which need not be that of the identity. *)
(*                                                                           *)
(* A refused permit and a locked wallet stop a command where it asks for     *)
(* them: before its first effect (no step) or after it (`Build`, the start   *)
(* in StartCurrencyFromNewName).                                             *)
EXTENDS ReservationOps, FiniteSets, Naturals, Sequences

CONSTANTS
    Chain, FirstChain,
    Home,           \* the chain a claim belongs to
    Name, NoName,
    NameOf,         \* the name it claims
    Key, FirstKey,
    Tidy,           \* whether the user does one thing at a time
    Patient,        \* whether the user changes chains only when nothing is out
    MaxRestarts     \* bound: how often the process dies

LaunchAssumption ==
    /\ FirstChain \in Chain
    /\ FirstKey \in Key
    /\ Home \in [Claim -> Chain]
    /\ NameOf \in [Claim -> Name]
    /\ NoName \notin Name
    /\ {Tidy, Patient} \subseteq BOOLEAN
    /\ MaxRestarts \in Nat

VARIABLES
    chain,          \* the open chain
    key,            \* the active key
    reservation,    \* of the open chain: the record held and its file
    closed,         \* the reservation files of the other chains
    ready,          \* the confirmed claim step two is offered for
    inFlight,       \* polling.registration_in_flight
    intent,         \* the launch held: its record and its chain
    intentFile,     \* the launch file of each chain
    launches,       \* reviews: definitions built and signed
    jobs,           \* dispatched jobs whose answer is not yet applied
    net,            \* the network: what became of each claim
    defined,        \* the network: the identities with a currency
    wanted,         \* history: claims a currency waits for, as asked
    dropped,        \* history: claims the user let go of
    restarts

vars == <<chain, key, reservation, closed, ready, inFlight, intent, intentFile,
          launches, jobs, net, defined, wanted, dropped, restarts>>

Stage == {"awaiting_identity", "ready_to_define"}
Wish == [name : Name, key : Key, step : Stage]
NoWish == [name |-> NoName, key |-> FirstKey, step |-> "awaiting_identity"]

Review == [name : Name, under : Claim, key : Key, on : Chain, resumed : BOOLEAN]
Fate == {"unsent", "sent", "confirmed", "registered"}
Answer == {"none", "ok", "error"}

\* A job names the claim it is for; one that builds or sends a definition also
\* has the review it becomes.
NameJob == [kind : {"reserve", "commit", "poll", "register"}, claim : Claim,
            on : Chain, answer : Answer]
LaunchJob == [kind : {"prepare", "send"}, review : Review,
              on : Chain, answer : Answer]

TypeOK ==
    /\ chain \in Chain
    /\ key \in Key
    /\ reservation \in Reservation
    /\ closed \in [Chain -> Record \cup {NoRecord}]
    /\ ready \in Claim \cup {NoClaim}
    /\ inFlight \in BOOLEAN
    /\ intent \in [record : Wish \cup {NoWish}, home : Chain]
    /\ intentFile \in [Chain -> Wish \cup {NoWish}]
    /\ launches \subseteq Review
    /\ jobs \subseteq NameJob \cup LaunchJob
    /\ net \in [Claim -> Fate]
    /\ defined \subseteq Claim
    /\ wanted \subseteq Claim
    /\ dropped \subseteq Claim
    /\ restarts \in 0 .. MaxRestarts

Init ==
    /\ chain = FirstChain
    /\ key = FirstKey
    /\ reservation = EmptyReservation
    /\ closed = [c \in Chain |-> NoRecord]
    /\ ready = NoClaim
    /\ inFlight = FALSE
    /\ intent = [record |-> NoWish, home |-> FirstChain]
    /\ intentFile = [c \in Chain |-> NoWish]
    /\ launches = {}
    /\ jobs = {}
    /\ net = [c \in Claim |-> "unsent"]
    /\ defined = {}
    /\ wanted = {}
    /\ dropped = {}
    /\ restarts = 0

\* The reservation file of a chain, open or not.
ReservationFile(c) == IF c = chain THEN reservation.file ELSE closed[c]

-----------------------------------------------------------------------------
(* The intent and its file *)

InProgress == reservation.mem # NoRecord
LaunchInProgress == intent.record # NoWish

\* Mutant: it is written down when the name has landed.
RememberLate(wish, wrote) ==
    /\ intent' = [intent EXCEPT !.record = wish]
    /\ intentFile' = IF wrote /\ wish.step = "ready_to_define"
                     THEN [intentFile EXCEPT ![intent.home] = wish]
                     ELSE intentFile

\* Intent::persist, of a record put into memory just before: to the path the
\* intent was opened with, whichever chain is open.
Remember(wish, wrote) ==
    /\ intent' = [intent EXCEPT !.record = wish]
    /\ intentFile' = IF wrote /\ wish # NoWish
                     THEN [intentFile EXCEPT ![intent.home] = wish]
                     ELSE intentFile

\* Intent::begin
Begin(name, wrote) ==
    Remember([name |-> name, key |-> key, step |-> "awaiting_identity"], wrote)

\* Intent::identity_exists
IdentityExists(wrote) ==
    Remember(IF LaunchInProgress
             THEN [intent.record EXCEPT !.step = "ready_to_define"]
             ELSE NoWish, wrote)

\* Intent::finish
Forget(removed) ==
    /\ intent' = [intent EXCEPT !.record = NoWish]
    /\ intentFile' = IF removed
                     THEN [intentFile EXCEPT ![intent.home] = NoWish]
                     ELSE intentFile

\* CLAIMING: the steps of a launch from a new name, and which of them are paid for.
Claiming ==
    <<[label |-> "choose_a_name", costs |-> FALSE],
      [label |-> "register_the_identity", costs |-> TRUE],
      [label |-> "wait_to_confirm", costs |-> FALSE],
      [label |-> "define_the_currency", costs |-> TRUE]>>

\* progress
Progress(stage) ==
    LET reached == IF stage = "awaiting_identity" THEN 3 ELSE 4
    IN  [n \in 1 .. Len(Claiming) |->
            [label |-> Claiming[n].label, costs |-> Claiming[n].costs,
             state |-> IF n < reached THEN "done" ELSE IF n = reached THEN "now" ELSE "later"]]

\* emit_launch_pending, after every change of the intent: what the panel says of
\* the launch that waits.
LaunchPending ==
    LET stage == intent.record.step
    IN  [identity |-> intent.record.name, canContinue |-> stage = "ready_to_define",
         steps |-> Progress(stage)]
SaidDone(label) ==
    LaunchInProgress /\ \E n \in DOMAIN LaunchPending.steps :
        LaunchPending.steps[n].label = label /\ LaunchPending.steps[n].state = "done"

-----------------------------------------------------------------------------
(* Commands *)

\* Blocking::dispatch
NameWork(kind, c) ==
    [kind |-> kind, claim |-> c, on |-> chain, answer |-> "none"]
LaunchWork(kind, review) ==
    [kind |-> kind, review |-> review, on |-> chain, answer |-> "none"]

\* Someone tidy starts nothing while something of the kind is under way.
Idle == jobs = {} /\ ~InProgress /\ launches = {}
MayClaim(c) == Tidy => Idle /\ (LaunchInProgress => intent.record.name = NameOf[c])
MayLaunch == Tidy => Idle /\ ~LaunchInProgress

\* start_registration, from its busy check to its dispatch.
StartsClaim(c) ==
    /\ Home[c] = chain
    /\ net[c] = "unsent"
    /\ \A j \in jobs : j.kind \in {"reserve", "commit"} => j.claim # c
    /\ ~InProgress
    /\ jobs' = jobs \cup {NameWork("reserve", c)}

StartRegistration(c) ==
    /\ MayClaim(c)
    /\ StartsClaim(c)
    /\ UNCHANGED <<chain, key, reservation, closed, ready, inFlight, intent,
                   intentFile, launches, net, defined, wanted, dropped, restarts>>

\* start_currency_from_new_name: refused while a launch waits; written down
\* first, and the claim that follows may be refused in its turn.
StartCurrencyFromNewName(c, wrote) ==
    /\ MayLaunch
    /\ ~LaunchInProgress
    /\ Home[c] = chain
    /\ net[c] = "unsent"
    /\ Begin(NameOf[c], wrote)
    /\ wanted' = wanted \cup {c}
    /\ StartsClaim(c) \/ jobs' = jobs
    /\ UNCHANGED <<chain, key, reservation, closed, ready, inFlight, launches,
                   net, defined, dropped, restarts>>

\* finish_registration
FinishRegistration ==
    /\ ready # NoClaim
    /\ ready' = NoClaim
    /\ \/ InProgress /\ jobs' = jobs \cup {NameWork("register", ready)}
       \/ jobs' = jobs
    /\ UNCHANGED <<chain, key, reservation, closed, inFlight, intent, intentFile,
                   launches, net, defined, wanted, dropped, restarts>>

\* abandon_registration
AbandonRegistration(removed) ==
    /\ InProgress
    /\ Tidy => jobs = {}
    /\ reservation' = Finished(reservation, removed)
    /\ ready' = NoClaim
    /\ dropped' = dropped \cup {reservation.mem.pending}
    /\ UNCHANGED <<chain, key, closed, inFlight, intent, intentFile, launches,
                   jobs, net, defined, wanted, restarts>>

\* prepare_launch_under: with the key active now.  Without a vault or a permit
\* it does nothing, after what its callers have done.
Build(name, c, resumed, kept) ==
    \/ jobs' = kept \cup
           {LaunchWork("prepare", [name |-> name, under |-> c, key |-> key,
                                   on |-> chain, resumed |-> resumed])}
    \/ jobs' = kept

\* The names of the open chain the wallet can see to be its own.
Eligible(c) == Home[c] = chain /\ net[c] = "registered"

\* prepare_launch
PrepareLaunch(c) ==
    /\ MayLaunch
    /\ Eligible(c)
    /\ Build(NameOf[c], c, FALSE, jobs)
    /\ UNCHANGED <<chain, key, reservation, closed, ready, inFlight, intent,
                   intentFile, launches, net, defined, wanted, dropped, restarts>>

\* resume_launch
ResumeLaunch(c) ==
    /\ intent.record.step = "ready_to_define"
    /\ Eligible(c)
    /\ NameOf[c] = intent.record.name
    /\ Build(NameOf[c], c, TRUE, jobs)
    /\ UNCHANGED <<chain, key, reservation, closed, ready, inFlight, intent,
                   intentFile, launches, net, defined, wanted, dropped, restarts>>

\* Command::AbandonLaunch
AbandonLaunch(removed) ==
    /\ LaunchInProgress
    /\ Forget(removed)
    /\ dropped' = dropped \cup {c \in wanted : NameOf[c] = intent.record.name}
    /\ UNCHANGED <<chain, key, reservation, closed, ready, inFlight, launches,
                   jobs, net, defined, wanted, restarts>>

\* confirm_launch: the permit is asked for now, and a review it is refused for
\* stays.
ConfirmLaunch(v) ==
    /\ launches' = launches \ {v}
    /\ jobs' = jobs \cup {LaunchWork("send", v)}
    /\ UNCHANGED <<chain, key, reservation, closed, ready, inFlight, intent,
                   intentFile, net, defined, wanted, dropped, restarts>>

\* Command::CancelLaunch
CancelLaunch(v) ==
    /\ launches' = launches \ {v}
    /\ UNCHANGED <<chain, key, reservation, closed, ready, inFlight, intent,
                   intentFile, jobs, net, defined, wanted, dropped, restarts>>

\* set_active_key
SetActiveKey(k) ==
    /\ k # key
    /\ key' = k
    /\ UNCHANGED <<chain, reservation, closed, ready, inFlight, intent, intentFile,
                   launches, jobs, net, defined, wanted, dropped, restarts>>

-----------------------------------------------------------------------------
(* The change of chain *)

\* switch_network: the reservation is reopened, the intent is not, and the
\* reviews of launches stay.
SwitchNetwork(c) ==
    /\ c # chain
    /\ Patient => jobs = {}
    /\ chain' = c
    /\ ready' = NoClaim
    /\ inFlight' = FALSE
    /\ reservation' = [mem |-> closed[c], file |-> closed[c]]
    /\ closed' = [closed EXCEPT ![chain] = reservation.file]
    /\ UNCHANGED <<key, intent, intentFile, launches, jobs, net, defined, wanted,
                   dropped, restarts>>

-----------------------------------------------------------------------------
(* The tick *)

\* poll_registration
PollRegistration ==
    /\ ~inFlight
    /\ ready = NoClaim
    /\ InProgress
    /\ reservation.mem.step = "committed"
    /\ inFlight' = TRUE
    /\ jobs' = jobs \cup {NameWork("poll", reservation.mem.pending)}
    /\ UNCHANGED <<chain, key, reservation, closed, ready, intent, intentFile,
                   launches, net, defined, wanted, dropped, restarts>>

-----------------------------------------------------------------------------
(* Answers *)

\* finish_reserved: into the reservation of the chain open by now.
FinishReserved(j, wrote) ==
    /\ j.kind = "reserve"
    /\ IF j.answer = "error"
       THEN jobs' = jobs \ {j} /\ reservation' = reservation
       ELSE /\ reservation' = Reserved(reservation, j.claim, wrote)
            /\ jobs' = (jobs \ {j}) \cup
                   (IF wrote THEN {NameWork("commit", j.claim)} ELSE {})
    /\ UNCHANGED <<ready, inFlight, intent, intentFile, launches>>

\* finish_committed
FinishCommitted(j, w1, w2) ==
    /\ j.kind = "commit"
    /\ reservation' = MarkedCommitted(Updated(reservation, j.claim, w1), w2)
    /\ jobs' = jobs \ {j}
    /\ UNCHANGED <<ready, inFlight, intent, intentFile, launches>>

\* finish_poll
FinishPoll(j) ==
    /\ j.kind = "poll"
    /\ inFlight' = FALSE
    /\ ready' = IF j.answer = "ok" THEN j.claim ELSE ready
    /\ jobs' = jobs \ {j}
    /\ UNCHANGED <<reservation, intent, intentFile, launches>>

\* continue_after_identity: the launch that waits for a name takes the one that
\* has landed for it.
ContinueAfterIdentity(c, wrote, kept) ==
    IF LaunchInProgress /\ intent.record.step = "awaiting_identity"
    THEN /\ IdentityExists(wrote)
         /\ Build(intent.record.name, c, TRUE, kept)
    ELSE jobs' = kept /\ UNCHANGED <<intent, intentFile>>

\* finish_registered: the reservation held is done with, and a launch may go on.
FinishRegistered(j, removed, wrote) ==
    /\ j.kind = "register"
    /\ IF j.answer = "ok"
       THEN /\ reservation' = Finished(reservation, removed)
            /\ ContinueAfterIdentity(j.claim, wrote, jobs \ {j})
       ELSE /\ jobs' = jobs \ {j}
            /\ UNCHANGED <<reservation, intent, intentFile>>
    /\ UNCHANGED <<ready, inFlight, launches>>

\* finish_launch_prepared
FinishLaunchPrepared(j) ==
    /\ j.kind = "prepare"
    /\ launches' = IF j.answer = "ok" THEN launches \cup {j.review} ELSE launches
    /\ jobs' = jobs \ {j}
    /\ UNCHANGED <<reservation, ready, inFlight, intent, intentFile>>

\* finish_launch_sent: whatever was launched, the launch that waits is forgotten.
FinishLaunchSent(j, removed) ==
    /\ j.kind = "send"
    /\ jobs' = jobs \ {j}
    /\ IF j.answer = "ok" THEN Forget(removed) ELSE UNCHANGED <<intent, intentFile>>
    /\ UNCHANGED <<reservation, ready, inFlight, launches>>

Finish(j) ==
    /\ j.answer # "none"
    /\ \/ FinishPoll(j)
       \/ FinishLaunchPrepared(j)
       \/ \E w1, w2 \in Write :
           \/ FinishReserved(j, w1)
           \/ FinishCommitted(j, w1, w2)
           \/ FinishRegistered(j, w1, w2)
           \/ FinishLaunchSent(j, w1)
    /\ UNCHANGED <<chain, key, closed, net, defined, wanted, dropped, restarts>>

-----------------------------------------------------------------------------
(* Workers, the process and the network *)

RunReserve(j, a) == j.kind = "reserve" /\ UNCHANGED <<net, defined>>

\* Step one or two arrives, which its worker may not hear of.
RunClaim(j, a, kind, from, to) ==
    /\ j.kind = kind
    /\ \/ /\ net[j.claim] = from
          /\ j.on = Home[j.claim]
          /\ net' = [net EXCEPT ![j.claim] = to]
       \/ a = "error" /\ net' = net
    /\ UNCHANGED defined

RunPoll(j, a) ==
    /\ j.kind = "poll"
    /\ a = "ok" => net[j.claim] = "confirmed" /\ j.on = Home[j.claim]
    /\ UNCHANGED <<net, defined>>

\* currency::prepare: the identity is read from the chain.
RunPrepare(j, a) ==
    /\ j.kind = "prepare"
    /\ a = "ok" => /\ j.on = Home[j.review.under]
                   /\ net[j.review.under] = "registered"
    /\ UNCHANGED <<net, defined>>

RunSend(j, a) ==
    /\ j.kind = "send"
    /\ \/ /\ j.on = j.review.on
          /\ j.review.under \notin defined
          /\ defined' = defined \cup {j.review.under}
       \/ a = "error" /\ defined' = defined
    /\ UNCHANGED net

Run(j, a) ==
    /\ j.answer = "none"
    /\ jobs' = (jobs \ {j}) \cup {[j EXCEPT !.answer = a]}
    /\ \/ RunReserve(j, a)
       \/ RunClaim(j, a, "commit", "unsent", "sent")
       \/ RunPoll(j, a)
       \/ RunClaim(j, a, "register", "confirmed", "registered")
       \/ RunPrepare(j, a)
       \/ RunSend(j, a)
    /\ UNCHANGED <<chain, key, reservation, closed, ready, inFlight, intent,
                   intentFile, launches, wanted, dropped, restarts>>

\* The process dies; the chain last chosen is the one it opens.
Restart ==
    /\ restarts < MaxRestarts
    /\ restarts' = restarts + 1
    /\ reservation' = Reopened(reservation)
    /\ intent' = [record |-> intentFile[chain], home |-> chain]
    /\ ready' = NoClaim
    /\ inFlight' = FALSE
    /\ launches' = {}
    /\ jobs' = {}
    /\ UNCHANGED <<chain, key, closed, intentFile, net, defined, wanted, dropped>>

Mined(c) ==
    /\ net[c] = "sent"
    /\ net' = [net EXCEPT ![c] = "confirmed"]
    /\ UNCHANGED <<chain, key, reservation, closed, ready, inFlight, intent,
                   intentFile, launches, jobs, defined, wanted, dropped, restarts>>

-----------------------------------------------------------------------------
Command ==
    \/ FinishRegistration
    \/ \E c \in Claim :
        \/ StartRegistration(c)
        \/ \E wrote \in Write : StartCurrencyFromNewName(c, wrote)
        \/ PrepareLaunch(c)
        \/ ResumeLaunch(c)
    \/ \E removed \in Write : AbandonRegistration(removed) \/ AbandonLaunch(removed)
    \/ \E v \in launches : ConfirmLaunch(v) \/ CancelLaunch(v)
    \/ \E k \in Key : SetActiveKey(k)
    \/ \E c \in Chain : SwitchNetwork(c)

Next ==
    \/ Command
    \/ PollRegistration
    \/ \E j \in jobs : Finish(j) \/ \E a \in {"ok", "error"} : Run(j, a)
    \/ Restart
    \/ \E c \in Claim : Mined(c)

Spec == Init /\ [][Next]_vars

-----------------------------------------------------------------------------
(* Properties *)

\* "Leaves an identity that exists for no reason, registered and paid for, with
\* nothing in the wallet remembering what it was for" (launch.rs) does not
\* happen: from the moment the commitment of a name asked for with a currency
\* may be on the network until the currency is defined or let go of, the launch
\* file names it.
\* Does not hold unless Tidy: a launch under another name removes the file.
LaunchRemembered ==
    \A c \in wanted \ dropped :
        net[c] # "unsent" /\ NameOf[c] \notin {NameOf[d] : d \in defined}
            => intentFile[Home[c]].name = NameOf[c]

Definitions == launches \cup {j.review : j \in jobs \cap LaunchJob}

\* What is being built, reviewed or sent is defined under the identity whose
\* name it has: "if a currency was waiting for it" (continue_after_identity).
\* Does not hold unless Tidy: whichever name lands next continues the launch.
LaunchUnderItsName == \A v \in Definitions : v.name = NameOf[v.under]

\* What the panel of the launch calls done has happened on the chain: the name a
\* launch can be continued under is registered, not merely paid for, however
\* often the program was started again ("ReadyToDefine means the name is on the
\* chain and only the definition is left", progress).
ReadyIsRegistered ==
    LaunchInProgress /\ (LaunchPending.canContinue \/ SaidDone("wait_to_confirm")) =>
        \E c \in Claim : NameOf[c] = LaunchPending.identity /\ net[c] = "registered"

\* Does not hold: the launch is written down before anything is sent, and stays
\* when nothing is.  "AwaitingIdentity means the registration is out"; "by the
\* time this is drawn a name has been claimed with real money" (progress).
DoneWasPaid ==
    \A n \in DOMAIN LaunchPending.steps :
        LaunchInProgress /\ LaunchPending.steps[n].state = "done" /\ LaunchPending.steps[n].costs =>
            \E c \in Claim : NameOf[c] = LaunchPending.identity /\ net[c] # "unsent"

\* "The same key that registered the identity: the launch spends its coins, and
\* a wallet with several would otherwise pick whichever was active when it
\* resumed" (launch::Record::key_label).
\* Does not hold with two keys: nothing reads key_label.
LaunchByItsKey ==
    \A v \in launches :
        v.resumed /\ LaunchInProgress /\ intent.record.name = v.name
            => v.key = intent.record.key

\* The salt of a claim that may be on its chain is in that chain's file until
\* the name is registered or the user lets go of it, whichever chain is open.
\* Does not hold unless Patient: a commitment that is built late is written
\* into the open chain's file.
SaltsAtHome ==
    \A c \in Claim :
        net[c] \in {"sent", "confirmed"}
            => c \in dropped \/ ReservationFile(Home[c]).pending = c

\* "Both describe one chain, so both move when the chain does" (Paths::launch):
\* the launch held is the one the open chain's file is for.
\* Does not hold with two chains: switch_network leaves the intent as it is.
IntentAtHome == LaunchInProgress => intent.home = chain

\* "Every other piece of read state is thrown away, because it describes a chain
\* that is no longer open" (switch_network): a review on offer was built on the
\* open chain.
\* Does not hold with two chains: launches is not cleared.
ReviewsOfThisChain == \A v \in launches : v.on = chain
=============================================================================
