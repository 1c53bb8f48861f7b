------------------------------- MODULE Panels -------------------------------
(* The four places of the window where something signed is reviewed and      *)
(* sent: a payment, a conversion, a launch, a change of an identity.  The    *)
(* window and the core are two threads: what a press sends is a command in   *)
(* one queue (pecu-app/src/main.rs), what the core says is an event in the   *)
(* other, applied one at a time (pecu-app/src/bridge.rs).  Between a press   *)
(* and what comes of it the window can be pressed again.                     *)
(*                                                                           *)
(* What is built and what is reviewed is its ticket.  Drafts are in order:   *)
(* a core that cannot build says so, or says nothing, at will.  The word a   *)
(* revocation asks for is taken as typed (Reviews has it), and the ledger    *)
(* is left to Payments.                                                      *)
EXTENDS Naturals, Sequences, FiniteSets

CONSTANTS
    Panels,         \* the panels in use
    MaxTickets,     \* bound: what is built
    MaxKept,        \* bound: confirmations refused with the review kept
    MaxSwitches,    \* bound: changes of chain
    MaxQueue,       \* bound: what is in the queues when a button is pressed
    Searches,       \* whether a recipient is picked in the search
    Patient         \* whether Review is pressed only on a window that caught up

PanelsAssumption ==
    /\ Panels \subseteq {"send", "convert", "launch", "change"}
    /\ {MaxTickets, MaxKept, MaxSwitches, MaxQueue} \subseteq Nat
    /\ {Patient, Searches} \subseteq BOOLEAN

Ticket == 0 .. MaxTickets           \* 0 is no ticket
Step == {"form", "review", "sent", "uncertain"}
Command == [do : {"prepare", "confirm", "cancel", "switch"},
            panel : Panels \cup {"none"}, ticket : Ticket]
Event == [say : {"review", "sent", "uncertain", "failed", "closed", "busy", "idle"},
          panel : Panels \cup {"send", "none"}, ticket : Ticket]
Held == [panel : Panels, ticket : Ticket]
Job == [do : {"build", "send"}, panel : Panels, ticket : Ticket]

VARIABLES
    \* the window
    step,           \* what each panel shows
    ticket,         \* the ticket each panel shows
    busy,           \* the panels whose button says "Sending..."
    problem,        \* the panels that show a refusal of the node
    \* the queues
    commands, events,
    \* the core
    tickets,        \* the last ticket given out
    held,           \* prepared, conversions, launches, identity_changes
    jobs,           \* work whose answer is not yet applied
    broadcasting,   \* the flag that holds off a change of chain
    kept,           \* confirmations refused so far
    switches,       \* changes of chain so far
    \* history
    pressed,        \* reviews the user said yes to
    backed,         \* reviews the user went back from
    sent            \* what was handed to a node, in order

window == <<step, ticket, busy, problem>>
core == <<tickets, held, jobs, broadcasting, kept, switches>>
history == <<pressed, backed, sent>>
vars == <<step, ticket, busy, problem, commands, events, tickets, held, jobs,
          broadcasting, kept, switches, pressed, backed, sent>>

TypeOK ==
    /\ step \in [Panels -> Step]
    /\ ticket \in [Panels -> Ticket]
    /\ \A p \in Panels : step[p] = "review" => ticket[p] # 0
    /\ busy \subseteq Panels /\ problem \subseteq Panels
    /\ commands \in Seq(Command) /\ events \in Seq(Event)
    /\ tickets \in Ticket
    /\ held \subseteq Held
    /\ jobs \subseteq Job
    /\ broadcasting \in BOOLEAN
    /\ kept \in 0 .. MaxKept
    /\ switches \in 0 .. MaxSwitches
    /\ pressed \subseteq Held /\ backed \subseteq Held
    /\ sent \in Seq(Held)

Init ==
    /\ step = [p \in Panels |-> "form"]
    /\ ticket = [p \in Panels |-> 0]
    /\ busy = {} /\ problem = {}
    /\ commands = <<>> /\ events = <<>>
    /\ tickets = 0
    /\ held = {} /\ jobs = {}
    /\ broadcasting = FALSE
    /\ kept = 0 /\ switches = 0
    /\ pressed = {} /\ backed = {}
    /\ sent = <<>>

CaughtUp == commands = <<>> /\ events = <<>>
\* Nothing is on its way anywhere.
Quiet == CaughtUp /\ jobs = {}

-----------------------------------------------------------------------------
(* The window's buttons *)

Dispatch(do, p, t) ==
    /\ Len(commands) + Len(events) < MaxQueue
    /\ commands' = Append(commands, [do |-> do, panel |-> p, ticket |-> t])

\* on_prepare_send, on_review, on_prepare_launch, the buttons of a change
PressReview(p) ==
    /\ step[p] = "form" /\ p \notin busy
    /\ Patient => CaughtUp
    /\ tickets < MaxTickets
    /\ Dispatch("prepare", p, 0)
    /\ problem' = IF p \in {"send", "convert"} THEN problem \ {p} ELSE problem
    /\ UNCHANGED <<step, ticket, busy, events, core, history>>

\* on_confirm_send, on_confirm, on_confirm_launch, on_confirm_identity_change.
\* Only a launch marks its own button; a conversion the node refused has none.
PressSend(p) ==
    /\ step[p] = "review" /\ p \notin busy
    /\ ~(p = "convert" /\ p \in problem)
    /\ Dispatch("confirm", p, ticket[p])
    /\ busy' = IF p = "launch" THEN busy \cup {p} ELSE busy
    /\ problem' = IF p = "send" THEN problem \ {p} ELSE problem
    /\ pressed' = pressed \cup {[panel |-> p, ticket |-> ticket[p]]}
    /\ UNCHANGED <<step, ticket, events, core, backed, sent>>

\* The Back of a review: cancel_send, on_cancel, cancel_launch (which waits
\* for the core to close it), on_cancel_identity_change
PressBack(p) ==
    /\ step[p] = "review"
    /\ p = "launch" => p \notin busy
    /\ Dispatch("cancel", p, ticket[p])
    /\ problem' = IF p \in {"send", "convert"} THEN problem \ {p} ELSE problem
    /\ step' = IF p = "launch" THEN step ELSE [step EXCEPT ![p] = "form"]
    /\ backed' = backed \cup {[panel |-> p, ticket |-> ticket[p]]}
    /\ UNCHANGED <<ticket, busy, events, core, pressed, sent>>

\* on_done, and the Done of a payment
PressDone(p) ==
    /\ step[p] \in {"sent", "uncertain"}
    /\ step' = [step EXCEPT ![p] = "form"]
    /\ problem' = problem \ {p}
    /\ UNCHANGED <<ticket, busy, commands, events, core, history>>

\* A recipient is picked in the search, which opens over any screen: the form is
\* shown with it, "filled in, not sent"; a review that was open is not cancelled.
PickAddress ==
    /\ Searches /\ "send" \in Panels
    /\ step' = [step EXCEPT !["send"] = "form"]
    /\ UNCHANGED <<ticket, busy, problem, commands, events, core, history>>

\* The chain is changed on another screen.
PressSwitch ==
    /\ switches < MaxSwitches
    /\ Dispatch("switch", "none", 0)
    /\ UNCHANGED <<step, ticket, busy, problem, events, core, history>>

-----------------------------------------------------------------------------
(* The window applies an event *)

\* apply: SendPrepared, ConvertPrepared, LaunchPrepared, IdentityChangePrepared
ApplyReview(e) ==
    /\ e.say = "review"
    /\ step' = [step EXCEPT ![e.panel] = "review"]
    /\ ticket' = [ticket EXCEPT ![e.panel] = e.ticket]
    /\ problem' = problem \ {e.panel}
    /\ busy' = IF e.panel = "launch" THEN busy \ {e.panel} ELSE busy

\* apply_outcome, apply_convert_outcome: Sent and Uncertain
ApplySent(e) ==
    /\ e.say \in {"sent", "uncertain"}
    /\ step' = [step EXCEPT ![e.panel] = e.say]
    /\ problem' = IF e.say = "sent" THEN problem \ {e.panel} ELSE problem
    /\ UNCHANGED <<ticket, busy>>

\* Failed: the step stays what it is.
ApplyFailed(e) ==
    /\ e.say = "failed"
    /\ problem' = problem \cup {e.panel}
    /\ UNCHANGED <<step, ticket, busy>>

\* LaunchPrepared(None), LaunchDone, IdentityChanged
ApplyClosed(e) ==
    /\ e.say = "closed"
    /\ step' = [step EXCEPT ![e.panel] = "form"]
    /\ ticket' = [ticket EXCEPT ![e.panel] = 0]
    /\ busy' = busy \ {e.panel}
    /\ UNCHANGED problem

\* Busy: PreparingSend and Broadcasting are the payment's, Converting the
\* conversion's; a window without that panel shows nothing of it.
ApplyBusy(e) ==
    /\ e.say \in {"busy", "idle"}
    /\ busy' = IF e.say = "busy" /\ e.panel \in Panels THEN busy \cup {e.panel}
               ELSE busy \ {e.panel}
    /\ UNCHANGED <<step, ticket, problem>>

Apply ==
    /\ events # <<>>
    /\ events' = Tail(events)
    /\ LET e == Head(events) IN
           \/ ApplyReview(e)
           \/ ApplySent(e)
           \/ ApplyFailed(e)
           \/ ApplyClosed(e)
           \/ ApplyBusy(e)
    /\ UNCHANGED <<commands, core, history>>

-----------------------------------------------------------------------------
(* The core *)

Say(say, p, t) == [say |-> say, panel |-> p, ticket |-> t]
\* The task the core names: everything but a conversion goes by the payment's.
Task(p) == IF p = "convert" THEN "convert" ELSE "send"
Emit(es) == events' = events \o es
Next1(do) == commands # <<>> /\ Head(commands).do = do
Took == commands' = Tail(commands)

\* prepare_send, prepare_conversion, prepare_launch, prepare_identity_change
Prepare ==
    /\ Next1("prepare")
    /\ Took
    /\ LET p == Head(commands).panel IN
           \/ /\ tickets < MaxTickets
              /\ tickets' = tickets + 1
              /\ jobs' = jobs \cup
                     {[do |-> "build", panel |-> p, ticket |-> tickets + 1]}
              /\ Emit(<<Say("busy", Task(p), 0)>>)
           \* locked, no chain, no permit for a launch, an unpriced conversion
           \/ UNCHANGED <<tickets, jobs, events>>
           \* refuse_send, refuses_send_all
           \/ /\ p = "send"
              /\ Emit(<<Say("failed", p, 0)>>)
              /\ UNCHANGED <<tickets, jobs>>
    /\ UNCHANGED <<window, held, broadcasting, kept, switches, history>>

\* finish_prepare, finish_convert_prepare, finish_launch_prepared,
\* finish_identity_change_prepared
FinishPrepare(j) ==
    /\ j.do = "build"
    /\ jobs' = jobs \ {j}
    /\ LET idle == Say("idle", Task(j.panel), 0) IN
           \/ /\ held' = held \cup {[panel |-> j.panel, ticket |-> j.ticket]}
              /\ Emit(<<idle, Say("review", j.panel, j.ticket)>>)
           \/ /\ Emit(IF j.panel \in {"send", "convert"}
                      THEN <<idle, Say("failed", j.panel, 0)>> ELSE <<idle>>)
              /\ UNCHANGED held
    /\ UNCHANGED <<window, commands, tickets, broadcasting, kept, switches, history>>

\* Mutant: whatever the panel has built last is what goes out.
ConfirmLatest ==
    /\ Next1("confirm")
    /\ Took
    /\ LET mine == {h \in held : h.panel = Head(commands).panel} IN
           IF mine = {}
           THEN UNCHANGED <<events, core, history>>
           ELSE LET h == CHOOSE x \in mine : \A y \in mine : y.ticket <= x.ticket IN
                /\ held' = held \ {h}
                /\ jobs' = jobs \cup {[do |-> "send", panel |-> h.panel, ticket |-> h.ticket]}
                /\ broadcasting' = (broadcasting \/ h.panel \in {"send", "convert"})
                /\ sent' = Append(sent, h)
                /\ Emit(<<Say("busy", Task(h.panel), 0)>>)
                /\ UNCHANGED <<tickets, kept, switches, pressed, backed>>
    /\ UNCHANGED window

\* confirm_send, confirm_conversion, confirm_launch, confirm_identity_change.
\* A refused permit, a missing chain and a ledger that cannot be written put
\* the review back and say nothing to the panel.
Confirm ==
    /\ Next1("confirm")
    /\ Took
    /\ LET c == Head(commands)
           h == [panel |-> c.panel, ticket |-> c.ticket]
       IN IF h \notin held
          THEN UNCHANGED <<events, core, history>>
          ELSE \/ /\ held' = held \ {h}
                  /\ jobs' = jobs \cup
                         {[do |-> "send", panel |-> h.panel, ticket |-> h.ticket]}
                  /\ broadcasting' = (broadcasting \/ h.panel \in {"send", "convert"})
                  /\ sent' = Append(sent, h)
                  /\ Emit(<<Say("busy", Task(h.panel), 0)>>)
                  /\ UNCHANGED <<tickets, kept, switches, pressed, backed>>
               \/ /\ kept < MaxKept
                  /\ kept' = kept + 1
                  /\ UNCHANGED <<events, tickets, held, jobs, broadcasting,
                                 switches, history>>
    /\ UNCHANGED window

\* finish_broadcast, finish_convert_broadcast, finish_launch_sent,
\* finish_identity_changed
FinishSend(j) ==
    /\ j.do = "send"
    /\ jobs' = jobs \ {j}
    /\ broadcasting' = (broadcasting /\ j.panel \in {"launch", "change"})
    /\ LET idle == Say("idle", Task(j.panel), 0)
           outcomes == IF j.panel \in {"send", "convert"}
                       THEN {<<Say(o, j.panel, 0)>> : o \in {"sent", "uncertain", "failed"}}
                       ELSE {<<>>, <<Say("closed", j.panel, 0)>>}
       IN \E o \in outcomes : Emit(<<idle>> \o o)
    /\ UNCHANGED <<window, commands, tickets, held, kept, switches, history>>

\* CancelSend, cancel_conversion, CancelLaunch, CancelIdentityChange
Cancel ==
    /\ Next1("cancel")
    /\ Took
    /\ LET c == Head(commands) IN
           /\ held' = held \ {[panel |-> c.panel, ticket |-> c.ticket]}
           /\ Emit(IF c.panel = "launch" THEN <<Say("closed", "launch", 0)>> ELSE <<>>)
    /\ UNCHANGED <<window, tickets, jobs, broadcasting, kept, switches, history>>

\* switch_network: payments and changes of identities are dropped, and no
\* panel is told; Locked closes the seed and the toasts only
SwitchNetwork ==
    /\ Next1("switch")
    /\ Took
    /\ IF broadcasting \/ switches = MaxSwitches
       THEN UNCHANGED <<held, switches>>
       ELSE /\ held' = {h \in held : h.panel \notin {"send", "change"}}
            /\ switches' = switches + 1
    /\ UNCHANGED <<window, events, tickets, jobs, broadcasting, kept, history>>

-----------------------------------------------------------------------------

User ==
    \/ \E p \in Panels :
           PressReview(p) \/ PressSend(p) \/ PressBack(p) \/ PressDone(p)
    \/ PickAddress \/ PressSwitch
Core ==
    \/ Prepare \/ Confirm \/ Cancel \/ SwitchNetwork
Work == \E j \in jobs : FinishPrepare(j) \/ FinishSend(j)

Next == User \/ Core \/ Work \/ Apply

Spec == Init /\ [][Next]_vars

-----------------------------------------------------------------------------
(* Properties *)

\* Whatever is handed to a node was on the screen when the user said yes: no
\* press made for one review sends another, whatever was built or arrived in
\* between (the ticket of apply_review and confirm_send).
SentWasShown == \A i \in 1 .. Len(sent) : sent[i] \in pressed

\* One review is one transaction on its way: a second press that overtakes
\* "Sending..." finds its ticket taken (confirm_send's first lines).
SentOnce == \A i, k \in 1 .. Len(sent) : sent[i] = sent[k] => i = k

\* With one thing reviewed at a time, whatever is signed and not sent is on
\* the screen: nothing signed stays behind a form (CancelSend).  Without
\* Searches: a recipient that is picked puts a form before what was reviewed
\* (main.rs, on_pick), and the core keeps what was signed.
HeldIsShown ==
    Quiet => \A h \in held : step[h.panel] = "review" /\ ticket[h.panel] = h.ticket

\* While a payment or a conversion is on its way to a node and the window has
\* caught up, its button says so, with one thing reviewed at a time.
OnItsWayIsSaid ==
    CaughtUp => \A j \in jobs : j.panel \in {"send", "convert"} => j.panel \in busy

\* "Sending..." is on a panel, and comes to an end, however the work goes
\* (bridge.rs Busy).
Waiting(p) == p \in busy

\* A launch whose permit was refused is kept so that it can be tried again
\* (lib.rs 6270-6273): once nothing is on its way, its button can be pressed.
\* Does not hold: nothing clears the mark that the press set.
LaunchCanBeTried ==
    Quiet /\ "launch" \in Panels =>
        (step["launch"] = "review" => "launch" \notin busy)

\* A payment that was gone back from is not handed to a node (lib.rs 2033:
\* "Nothing was broadcast, so there is nothing to undo").
\* Does not hold: Back can be pressed while the payment is being sent.
CancelledIsNotSent ==
    \A i \in 1 .. Len(sent) : sent[i].panel = "send" => sent[i] \notin backed

\* After a refusal the review that failed is still there to correct
\* (bridge.rs 1027-1028).
\* Does not hold: the core has taken the ticket.
FailedIsStillThere ==
    Quiet /\ "send" \in problem /\ step["send"] = "review" =>
        [panel |-> "send", ticket |-> ticket["send"]] \in held
=============================================================================
