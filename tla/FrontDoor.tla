------------------------------ MODULE FrontDoor ------------------------------
(* The forms in front of the wallet (onboarding.slint): create, restore and   *)
(* unlock, what the window says of a try that is under way or was refused,    *)
(* and the core that answers (create_wallet, import_key, Unlock, Lock) while  *)
(* it reads the chain and locks itself.                                       *)
(*                                                                            *)
(* A passphrase or a phrase is whether it is taken.  Vault has what a try     *)
(* does to the file.                                                          *)
EXTENDS Naturals, Sequences

CONSTANTS
    MaxQueue        \* bound: commands and events that are under way

FrontDoorAssumption == MaxQueue \in Nat

VARIABLES
    \* the core
    vault,          \* "none", "open" or "locked"
    refreshing,     \* a reading of the chain is under way
    \* the window
    exists, shut,   \* what it was told of the wallet
    busy, problem,
    restoring,      \* which of the two forms is up
    \* between them
    commands, events,
    \* history
    refused         \* the last try was refused, and nothing was pressed since

core == <<vault, refreshing>>
told == <<exists, shut>>
vars == <<core, told, busy, problem, restoring, commands, events, refused>>

Command == [do : {"create", "import", "unlock", "lock"}, right : BOOLEAN]
Event ==
    [is : {"wallet"}, exists : BOOLEAN, shut : BOOLEAN]
        \cup [is : {"refreshing"}, on : BOOLEAN]
        \cup [is : {"locked", "notice"}]

TypeOK ==
    /\ vault \in {"none", "open", "locked"}
    /\ {refreshing, exists, shut, busy, problem, restoring, refused} \subseteq BOOLEAN
    /\ refreshing => vault # "none"
    /\ commands \in Seq(Command)
    /\ events \in Seq(Event)

Init ==
    /\ vault \in {"none", "locked"}
    /\ refreshing = FALSE
    /\ exists = (vault # "none") /\ shut = TRUE
    /\ busy = FALSE /\ problem = FALSE /\ restoring = FALSE
    /\ commands = <<>> /\ events = <<>>
    /\ refused = FALSE

Quiet == commands = <<>> /\ events = <<>>
Room == Len(commands) + Len(events) < MaxQueue

-----------------------------------------------------------------------------
(* The window *)

\* The forms are there when there is no wallet to show (app.slint 505).
Front == ~exists \/ shut

\* on_create_wallet, on_unlock, on_restore_wallet: neither the forms' submit
\* nor these look at `busy`; only the button does.
Try(what, right) ==
    /\ Room
    /\ busy' = TRUE /\ problem' = FALSE /\ refused' = FALSE
    /\ commands' = Append(commands, [do |-> what, right |-> right])
    /\ UNCHANGED <<core, told, restoring, events>>

PressCreate(right) == Front /\ ~restoring /\ ~exists /\ Try("create", right)
PressUnlock(right) == Front /\ ~restoring /\ exists /\ Try("unlock", right)
PressRestore(right) == Front /\ restoring /\ Try("import", right)

\* "I already have a wallet"
OpenRestore ==
    /\ Front /\ ~restoring /\ ~exists
    /\ restoring' = TRUE
    /\ UNCHANGED <<core, told, busy, problem, commands, events, refused>>

PressBack ==
    /\ Front /\ restoring
    /\ restoring' = FALSE
    /\ UNCHANGED <<core, told, busy, problem, commands, events, refused>>

PressLock ==
    /\ ~Front /\ Room
    /\ commands' = Append(commands, [do |-> "lock", right |-> TRUE])
    /\ UNCHANGED <<core, told, busy, problem, restoring, events, refused>>

-----------------------------------------------------------------------------
(* The core *)

Takes(what) ==
    commands # <<>> /\ Head(commands).do = what /\ commands' = Tail(commands)
WalletIs(v) == [is |-> "wallet", exists |-> v # "none", shut |-> v # "open"]
Say(es) == events' = events \o es
Refuse == Say(<<[is |-> "notice"]>>) /\ UNCHANGED core

\* emit_wallet, and refresh after it
Opens ==
    /\ vault' = "open"
    /\ refreshing' = TRUE
    /\ Say(<<WalletIs("open")>> \o
           (IF refreshing THEN <<>> ELSE <<[is |-> "refreshing", on |-> TRUE]>>))

\* create_wallet
Create ==
    /\ Takes("create")
    /\ IF Head(commands).right /\ vault = "none" THEN Opens ELSE Refuse
    /\ UNCHANGED <<told, busy, problem, restoring, refused>>

\* import_key under the label "main": a wallet that is there has one, or is
\* locked
Import ==
    /\ Takes("import")
    /\ IF Head(commands).right /\ vault = "none" THEN Opens ELSE Refuse
    /\ UNCHANGED <<told, busy, problem, restoring, refused>>

Unlock ==
    /\ Takes("unlock")
    /\ IF Head(commands).right /\ vault # "none" THEN Opens ELSE Refuse
    /\ UNCHANGED <<told, busy, problem, restoring, refused>>

Locks ==
    /\ vault' = IF vault = "open" THEN "locked" ELSE vault
    /\ Say(<<[is |-> "locked"], WalletIs(vault')>>)
    /\ UNCHANGED refreshing

Lock == Takes("lock") /\ Locks /\ UNCHANGED <<told, busy, problem, restoring, refused>>

\* check_auto_lock
AutoLock ==
    /\ vault = "open" /\ Room
    /\ Locks
    /\ UNCHANGED <<told, busy, problem, restoring, commands, refused>>

\* refresh, on its timer
Refresh ==
    /\ vault = "open" /\ ~refreshing /\ Room
    /\ refreshing' = TRUE
    /\ Say(<<[is |-> "refreshing", on |-> TRUE]>>)
    /\ UNCHANGED <<vault, told, busy, problem, restoring, commands, refused>>

\* finish_refresh tells the window of the wallet, also when it was locked
FinishRefresh ==
    /\ refreshing /\ Room
    /\ refreshing' = FALSE
    /\ Say(<<[is |-> "refreshing", on |-> FALSE], WalletIs(vault)>>)
    /\ UNCHANGED <<vault, told, busy, problem, restoring, commands, refused>>

Core == Create \/ Import \/ Unlock \/ Lock

-----------------------------------------------------------------------------
(* What arrives at the window *)

Arrives(e) == events # <<>> /\ Head(events).is = e /\ events' = Tail(events)

\* apply_wallet
ApplyWallet ==
    /\ Arrives("wallet")
    /\ exists' = Head(events).exists /\ shut' = Head(events).shut
    /\ busy' = FALSE /\ problem' = FALSE
    /\ UNCHANGED <<core, restoring, commands, refused>>

ApplyLocked ==
    /\ Arrives("locked")
    /\ shut' = TRUE
    /\ busy' = FALSE
    /\ UNCHANGED <<core, exists, problem, restoring, commands, refused>>

\* apply_notice, of a try
ApplyNotice ==
    /\ Arrives("notice")
    /\ busy' = FALSE /\ problem' = TRUE
    /\ refused' = (Front /\ commands = <<>> /\ events' = <<>>)
    /\ UNCHANGED <<core, told, restoring, commands>>

\* Event::Busy of RefreshingBalance
ApplyBusy ==
    /\ Arrives("refreshing")
    /\ busy' = Head(events).on
    /\ UNCHANGED <<core, told, problem, restoring, commands, refused>>

Apply == ApplyWallet \/ ApplyLocked \/ ApplyNotice \/ ApplyBusy

-----------------------------------------------------------------------------

Press ==
    \/ \E right \in BOOLEAN :
           PressCreate(right) \/ PressUnlock(right) \/ PressRestore(right)
    \/ OpenRestore \/ PressBack \/ PressLock

Next == Press \/ Core \/ AutoLock \/ Refresh \/ FinishRefresh \/ Apply

Spec == Init /\ [][Next]_vars

-----------------------------------------------------------------------------
(* Properties *)

\* When all has arrived, the window shows the forms when the wallet is locked
\* or not there, and the wallet when it is open.
WindowIsOfWallet ==
    Quiet => exists = (vault # "none") /\ shut = (vault # "open")

\* "Working..." is on the screen, and comes to an end.
Waiting == busy

\* A refusal stays on the form until something is pressed ("A successful
\* transition clears whatever went wrong last time", bridge.rs 1040).
\* Does not hold: any reading that ends clears it.
RefusalStands == refused /\ Front => problem

\* The restore form is offered when there is no wallet ("Only offered before a
\* wallet exists", onboarding.slint 162).
\* Does not hold: nothing takes `restoring` back when a restore has succeeded.
RestoreIsBefore == Quiet /\ Front /\ restoring => ~exists
=============================================================================
