---------------------------- MODULE Registration ----------------------------
(* Registering a name takes two transactions with a secret between them.     *)
(* The first publishes a commitment, the second reveals it, and the salt     *)
(* that ties them cannot be had from the chain: a commitment whose salt is   *)
(* lost has burned its fee.  pecu-core/src/registration.rs keeps the salt of *)
(* the one unfinished registration in a file, and the actor of               *)
(* pecu-core/src/lib.rs drives it: built and signed by a worker, written     *)
(* down, broadcast, polled until it confirms, finished or given up.          *)
(*                                                                           *)
(* One chain is open throughout.  A refused permit or a locked wallet makes  *)
(* a command do nothing, which needs no step, except where the code has      *)
(* already changed something by then (FinishRegistration).                   *)
EXTENDS ReservationOps, FiniteSets, Naturals

CONSTANTS
    Hasty,          \* whether the user acts while a job of a claim is out
    WorkersPanic,   \* whether a worker may panic
    MaxRestarts     \* bound: how often the process dies

ASSUME RegistrationAssumption ==
    /\ {Hasty, WorkersPanic} \subseteq BOOLEAN
    /\ MaxRestarts \in Nat

VARIABLES
    reservation,    \* the record in memory and the one on disk
    ready,          \* the confirmed claim step two is offered for
    inFlight,       \* polling.registration_in_flight
    jobs,           \* dispatched jobs whose answer is not yet applied
    net,            \* network: what became of each claim
    started,        \* history: the claims asked for
    givenUp,        \* history: the claims the user abandoned
    restarts        \* history: how often the process died

vars == <<reservation, ready, inFlight, jobs, net, started, givenUp, restarts>>

Fate == {"unsent", "sent", "confirmed", "registered", "expired"}
Job == [kind : {"reserve", "commit", "poll", "register"}, claim : Claim,
        answer : {"none", "ok", "error"}]

TypeOK ==
    /\ reservation \in Reservation
    /\ ready \in Claim \cup {NoClaim}
    /\ inFlight \in BOOLEAN
    /\ jobs \subseteq Job
    /\ net \in [Claim -> Fate]
    /\ started \subseteq Claim
    /\ givenUp \subseteq Claim
    /\ restarts \in 0 .. MaxRestarts

Init ==
    /\ reservation = EmptyReservation
    /\ ready = NoClaim
    /\ inFlight = FALSE
    /\ jobs = {}
    /\ net = [c \in Claim |-> "unsent"]
    /\ started = {}
    /\ givenUp = {}
    /\ restarts = 0

-----------------------------------------------------------------------------
(* Commands *)

\* Reservation::in_progress
InProgress == reservation.mem # NoRecord

\* Blocking::dispatch
Dispatched(kind, c) == [kind |-> kind, claim |-> c, answer |-> "none"]

\* Someone who starts or abandons a claim only when nothing is out, a poll
\* included.
Waited == Hasty \/ jobs = {}

\* start_registration: refused while one is in progress; a start still being
\* built is not in progress yet.
StartRegistration(c) ==
    /\ Waited
    /\ c \notin started
    /\ ~InProgress
    /\ started' = started \cup {c}
    /\ jobs' = jobs \cup {Dispatched("reserve", c)}
    /\ UNCHANGED <<reservation, ready, inFlight, net, givenUp, restarts>>

\* finish_registration: `ready` is taken first.  With no record, or with the
\* wallet locked, it is dropped, and the poll has to find it again.  (A second
\* job for the same claim is the first one again in `jobs`: it could only
\* fail, and a failure changes nothing.)
FinishRegistration ==
    /\ ready # NoClaim
    /\ ready' = NoClaim
    /\ \/ InProgress /\ jobs' = jobs \cup {Dispatched("register", ready)}
       \/ jobs' = jobs
    /\ UNCHANGED <<reservation, inFlight, net, started, givenUp, restarts>>

\* abandon_registration, which is also what "Done" asks for afterwards.
AbandonRegistration(removed) ==
    /\ Waited
    /\ reservation' = Finished(reservation, removed)
    /\ ready' = NoClaim
    /\ givenUp' = givenUp \cup ({reservation.mem.pending} \ {NoClaim})
    /\ UNCHANGED <<inFlight, jobs, net, started, restarts>>

-----------------------------------------------------------------------------
(* The tick *)

\* poll_registration: on the tick, for a commitment that has been handed to a
\* node and is not known to be ready.
PollRegistration ==
    /\ ~inFlight
    /\ ready = NoClaim
    /\ InProgress
    /\ reservation.mem.step = "committed"
    /\ inFlight' = TRUE
    /\ jobs' = jobs \cup {Dispatched("poll", reservation.mem.pending)}
    /\ UNCHANGED <<reservation, ready, net, started, givenUp, restarts>>

-----------------------------------------------------------------------------
(* Answers *)

\* Mutant: an unwritten salt is no reason not to send.
FinishReservedUnsaved(j, wrote) ==
    /\ j.kind = "reserve"
    /\ j.answer # "none"
    /\ IF j.answer = "error"
       THEN jobs' = jobs \ {j} /\ reservation' = reservation
       ELSE /\ reservation' = Reserved(reservation, j.claim, wrote)
            /\ jobs' = (jobs \ {j}) \cup {Dispatched("commit", j.claim)}
    /\ UNCHANGED <<ready, inFlight, net, started, givenUp, restarts>>

\* finish_reserved: the salt is written down, and only a written one is sent.
FinishReserved(j, wrote) ==
    /\ j.kind = "reserve"
    /\ j.answer # "none"
    /\ IF j.answer = "error"
       THEN jobs' = jobs \ {j} /\ reservation' = reservation
       ELSE /\ reservation' = Reserved(reservation, j.claim, wrote)
            /\ jobs' = (jobs \ {j}) \cup
                   (IF wrote THEN {Dispatched("commit", j.claim)} ELSE {})
    /\ UNCHANGED <<ready, inFlight, net, started, givenUp, restarts>>

\* finish_committed: an error may have reached the network all the same, so
\* both answers leave a committed record.
FinishCommitted(j, w1, w2) ==
    /\ j.kind = "commit"
    /\ j.answer # "none"
    /\ reservation' =
           MarkedCommitted(Updated(reservation, j.claim, w1), w2)
    /\ jobs' = jobs \ {j}
    /\ UNCHANGED <<ready, inFlight, net, started, givenUp, restarts>>

\* Mutant: what the poll found is shown and not kept.
FinishPollShown(j) ==
    /\ j.kind = "poll"
    /\ j.answer # "none"
    /\ inFlight' = FALSE
    /\ jobs' = jobs \ {j}
    /\ UNCHANGED <<reservation, ready, net, started, givenUp, restarts>>

\* finish_poll
FinishPoll(j) ==
    /\ j.kind = "poll"
    /\ j.answer # "none"
    /\ inFlight' = FALSE
    /\ ready' = IF j.answer = "ok" THEN j.claim ELSE ready
    /\ jobs' = jobs \ {j}
    /\ UNCHANGED <<reservation, net, started, givenUp, restarts>>

\* finish_registered: the salt has done its work, or the claim stays and is
\* polled again.
FinishRegistered(j, removed) ==
    /\ j.kind = "register"
    /\ j.answer # "none"
    /\ reservation' = IF j.answer = "ok" THEN Finished(reservation, removed)
                      ELSE reservation
    /\ jobs' = jobs \ {j}
    /\ UNCHANGED <<ready, inFlight, net, started, givenUp, restarts>>

-----------------------------------------------------------------------------
(* Workers, the process and the network *)

Answered(j, a) == jobs' = (jobs \ {j}) \cup {[j EXCEPT !.answer = a]}

\* prepare_registration
RunReserve(j, a) ==
    /\ j.kind = "reserve"
    /\ Answered(j, a)
    /\ UNCHANGED net

\* broadcast_commitment: an error says nothing about whether it arrived.
RunCommit(j, a) ==
    /\ j.kind = "commit"
    /\ Answered(j, a)
    /\ \/ net' = [net EXCEPT ![j.claim] = "sent"]
       \/ a = "error" /\ net' = net

\* poll: "ok" is CommitmentStatus::Ready; everything else, an unreachable node
\* included, leaves the claim as it is.
RunPoll(j, a) ==
    /\ j.kind = "poll"
    /\ a = "ok" => net[j.claim] = "confirmed"
    /\ Answered(j, a)
    /\ UNCHANGED net

\* prepare and broadcast of step two
RunRegister(j, a) ==
    /\ j.kind = "register"
    /\ Answered(j, a)
    /\ \/ /\ net[j.claim] = "confirmed"
          /\ net' = [net EXCEPT ![j.claim] = "registered"]
       \/ a = "error" /\ net' = net

Run(j, a) ==
    /\ j.answer = "none"
    /\ RunReserve(j, a) \/ RunCommit(j, a) \/ RunPoll(j, a) \/ RunRegister(j, a)
    /\ UNCHANGED <<reservation, ready, inFlight, started, givenUp, restarts>>

\* A worker that panics posts nothing.
Panic(j) ==
    /\ WorkersPanic
    /\ jobs' = jobs \ {j}
    /\ UNCHANGED <<reservation, ready, inFlight, net, started, givenUp,
                   restarts>>

\* The process dies and is started again: Reservation::open.
Restart ==
    /\ restarts < MaxRestarts
    /\ restarts' = restarts + 1
    /\ reservation' = Reopened(reservation)
    /\ ready' = NoClaim
    /\ inFlight' = FALSE
    /\ jobs' = {}
    /\ UNCHANGED <<net, started, givenUp>>

\* A commitment is mined deep enough, is reorganised away, or runs out.
Mined(c, fate) ==
    /\ \/ net[c] = "sent" /\ fate \in {"confirmed", "expired"}
       \/ net[c] = "confirmed" /\ fate \in {"sent", "expired"}
    /\ net' = [net EXCEPT ![c] = fate]
    /\ UNCHANGED <<reservation, ready, inFlight, jobs, started, givenUp,
                   restarts>>

-----------------------------------------------------------------------------
Finish(j) ==
    \/ FinishPoll(j)
    \/ \E w1 \in Write :
        \/ FinishReserved(j, w1)
        \/ FinishRegistered(j, w1)
        \/ \E w2 \in Write : FinishCommitted(j, w1, w2)

Next ==
    \/ \E c \in Claim : StartRegistration(c)
    \/ FinishRegistration
    \/ \E removed \in Write : AbandonRegistration(removed)
    \/ PollRegistration
    \/ \E j \in jobs : Finish(j) \/ Panic(j) \/ \E a \in {"ok", "error"} : Run(j, a)
    \/ Restart
    \/ \E c \in Claim, fate \in Fate : Mined(c, fate)

Spec == Init /\ [][Next]_vars

(* The tick keeps coming, workers end, the actor takes every answer, and a     *)
(* poll repeated for ever is answered now and then.                            *)
Fairness ==
    /\ WF_vars(PollRegistration)
    /\ \A c \in Claim :
        /\ WF_vars(\E j \in jobs : j.claim = c /\ Finish(j))
        /\ WF_vars(\E j \in jobs : j.claim = c /\ \E a \in {"ok", "error"} : Run(j, a))
        /\ SF_vars(\E j \in jobs : j.claim = c /\ RunPoll(j, "ok") /\ Run(j, "ok"))

FairSpec == Spec /\ Fairness

-----------------------------------------------------------------------------
(* Properties *)

\* No fee is spent for nothing: the salt of a commitment that may have reached
\* the network is on disk until the name is registered or the user has said to
\* stop (Reservation::finish: "The only path that deletes a salt, and it is
\* reached in exactly two places").
\* Does not hold if Hasty: a commitment that is built late is written over
\* another.
SaltKept ==
    \A c \in Claim :
        net[c] \in {"sent", "confirmed"}
            => c \in givenUp \/ reservation.file.pending = c

\* "Built and signed. Nothing has been broadcast, so abandoning is free"
\* (Step::Reserved): once nobody is about to send it any more, a record that
\* says reserved has not been sent.
\* Does not hold over a restart: the record says reserved until the broadcast's
\* answer is taken.
ReservedIsUnsent ==
    reservation.mem.step = "reserved" /\ InProgress
    /\ (\A j \in jobs : j.claim # reservation.mem.pending)
        => net[reservation.mem.pending] = "unsent"

\* A confirmed claim does not stay committed for ever without step two being
\* offered or under way, while nothing holds the poll off: no earlier offer is
\* held, and inFlight stands for a poll that is out (a worker that panicked
\* leaves it up for good).
Unfinished(c) ==
    /\ net[c] = "confirmed"
    /\ reservation.mem = [pending |-> c, step |-> "committed"]
    /\ \A j \in jobs : j.kind # "register"
    /\ inFlight => \E j \in jobs : j.kind = "poll"

PollFindsClaim == \A c \in Claim : ~ <>[](Unfinished(c) /\ ready = NoClaim)

\* "Missing that window spends the fee for nothing.  So this runs whatever the
\* user is looking at" (poll_registration): whatever else is held, a confirmed
\* claim is offered.
\* Does not hold: a poll that answers late sets `ready` for a claim that is
\* over, and no other is polled while it is set.
ClaimOffered == \A c \in Claim : ~ <>[](Unfinished(c) /\ ready # c)
=============================================================================
