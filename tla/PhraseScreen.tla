---------------------------- MODULE PhraseScreen ----------------------------
(* The recovery phrase on its way to the screen and off it: the window        *)
(* (onboarding.slint, seed.rs), the core that holds the words (wallet.rs) and *)
(* the two queues between them.  A press is a command that the core has not   *)
(* seen yet, and what the core answered may not have arrived; the wallet may  *)
(* lock at any time.                                                          *)
(*                                                                            *)
(* A phrase is the key it belongs to; three typed words are whether they are  *)
(* the right ones.                                                            *)
EXTENDS Naturals, Sequences, FiniteSets

CONSTANTS
    Key,
    NewKey,         \* the one of them that Add key makes
    NoKey,          \* no label
    Patient,        \* whether the window is pressed only when all has arrived
    MaxQueue        \* bound: commands and events that are under way

PhraseScreenAssumption ==
    /\ NewKey \in Key
    /\ NoKey \notin Key
    /\ Patient \in BOOLEAN
    /\ MaxQueue \in Nat

Step == {"", "passphrase", "phrase", "verify"}
Words == Key \cup {"none", "masked"}
AtMostOne == {s \in SUBSET Key : Cardinality(s) <= 1}

VARIABLES
    \* the core
    locked,
    keys, backedUp,
    backup,         \* the key whose phrase is in memory, if any
    \* the window
    step, label, reReading,
    words,          \* what the rows of the grid hold
    challenge,      \* whose words are asked for, if anyone's
    seen, held,     \* the reveal button: was pressed, is pressed
    closed,         \* the window shows the wallet as locked
    \* between them
    commands, events

core == <<locked, keys, backedUp, backup>>
window == <<step, label, reReading, words, challenge, seen, held, closed>>
vars == <<core, window, commands, events>>

Command ==
    [do : {"reveal"}, of : Key, right : BOOLEAN]
        \cup [do : {"confirm"}, of : Key, right : BOOLEAN]
        \cup [do : {"show", "hide", "cancel", "lock", "unlock", "add"}]
Event ==
    [is : {"challenge"}, of : Key]
        \cup [is : {"words"}, of : AtMostOne]
        \cup [is : {"confirmed", "wallet"}, yes : BOOLEAN]
        \cup [is : {"locked", "notice"}]

TypeOK ==
    /\ locked \in BOOLEAN
    /\ keys \subseteq Key /\ backedUp \subseteq keys
    /\ backup \in AtMostOne /\ backup \subseteq keys
    /\ step \in Step
    /\ label \in Key \cup {NoKey}
    /\ reReading \in BOOLEAN
    /\ words \in Words
    /\ challenge \in AtMostOne
    /\ {seen, held, closed} \subseteq BOOLEAN
    /\ commands \in Seq(Command)
    /\ events \in Seq(Event)

Init ==
    /\ locked = FALSE
    /\ keys = Key \ {NewKey}
    /\ backedUp \in SUBSET keys
    /\ backup = {}
    /\ step = "" /\ label = NoKey /\ reReading = FALSE
    /\ words = "none" /\ challenge = {}
    /\ seen = FALSE /\ held = FALSE /\ closed = FALSE
    /\ commands = <<>> /\ events = <<>>

Quiet == commands = <<>> /\ events = <<>>
Pressed == IF Patient THEN Quiet ELSE Len(commands) + Len(events) < MaxQueue
Ask(cs) == commands' = commands \o cs
Say(es) == events' = events \o es

\* The backup screen is there, or the shell it replaces (app.slint 516-518).
Mounted == ~closed /\ step # ""
Shell == ~closed /\ step = ""

\* A first backup ends in the check, a re-read does not.
EndsHere == reReading \/ challenge = {}

-----------------------------------------------------------------------------
(* The window's presses *)

\* The banner of the dashboard, or a row of the keys screen
OpenFor(k) ==
    /\ Pressed /\ Shell
    /\ k \in keys
    /\ step' = "passphrase" /\ label' = k /\ reReading' = (k \in backedUp)
    /\ UNCHANGED <<core, words, challenge, seen, held, closed, commands, events>>

\* "Show phrase": on_reveal_backup sends nothing without a label
PressShow(right) ==
    /\ Pressed /\ Mounted /\ step = "passphrase"
    /\ Ask(IF label = NoKey THEN <<>>
           ELSE <<[do |-> "reveal", of |-> label, right |-> right]>>)
    /\ UNCHANGED <<core, window, events>>

\* seed::close
Close ==
    /\ step' = "" /\ label' = NoKey /\ reReading' = FALSE
    /\ words' = "none" /\ challenge' = {}
    /\ seen' = FALSE /\ held' = FALSE

\* "Not now", "Later", "Done" or Escape: SeedState.leave
PressLeave ==
    /\ Pressed /\ Mounted
    /\ Close
    /\ Ask(<<[do |-> "cancel"]>>)
    /\ UNCHANGED <<core, closed, events>>

PressHold ==
    /\ Pressed /\ Mounted /\ step = "phrase" /\ ~held
    /\ held' = TRUE /\ seen' = TRUE
    /\ Ask(<<[do |-> "show"]>>)
    /\ UNCHANGED <<core, step, label, reReading, words, challenge, closed, events>>

Release ==
    /\ held
    /\ held' = FALSE
    /\ Ask(<<[do |-> "hide"]>>)
    /\ UNCHANGED <<core, step, label, reReading, words, challenge, seen, closed, events>>

\* "I've written it down"
PressWritten ==
    /\ Pressed /\ Mounted /\ step = "phrase" /\ ~EndsHere /\ seen /\ ~held
    /\ step' = "verify" /\ seen' = FALSE
    /\ Ask(<<[do |-> "hide"]>>)
    /\ UNCHANGED <<core, label, reReading, words, challenge, held, closed, events>>

\* "Show the words again"
PressAgain ==
    /\ Pressed /\ Mounted /\ step = "verify"
    /\ step' = "phrase"
    /\ UNCHANGED <<core, label, reReading, words, challenge, seen, held, closed,
                   commands, events>>

\* on_confirm_phrase
PressConfirm(right) ==
    /\ Pressed /\ Mounted /\ step = "verify"
    /\ \E k \in challenge : Ask(<<[do |-> "confirm", of |-> k, right |-> right]>>)
    /\ UNCHANGED <<core, window, events>>

PressAdd ==
    /\ Pressed /\ Shell /\ NewKey \notin keys
    /\ Ask(<<[do |-> "add"]>>)
    /\ UNCHANGED <<core, window, events>>

PressLock ==
    /\ Pressed /\ ~closed
    /\ Ask(<<[do |-> "lock"]>>)
    /\ UNCHANGED <<core, window, events>>

PressUnlock ==
    /\ Pressed /\ closed
    /\ Ask(<<[do |-> "unlock"]>>)
    /\ UNCHANGED <<core, window, events>>

-----------------------------------------------------------------------------
(* The core *)

Next1(cmd) == commands # <<>> /\ Head(commands).do = cmd /\ commands' = Tail(commands)
WordsOf(s) == [is |-> "words", of |-> s]

\* reveal_backup; Vault::reveal_phrase asks for the passphrase, and not
\* whether the wallet is open.
RevealBackup ==
    /\ Next1("reveal")
    /\ LET c == Head(commands) IN
       IF c.right /\ c.of \in keys
       THEN backup' = {c.of} /\ Say(<<[is |-> "challenge", of |-> c.of]>>)
       ELSE UNCHANGED backup /\ Say(<<[is |-> "notice"]>>)
    /\ UNCHANGED <<locked, keys, backedUp, window>>

ShowNewPhrase ==
    /\ Next1("show")
    /\ Say(<<WordsOf(backup)>>)
    /\ UNCHANGED <<core, window>>

HideBackup ==
    /\ Next1("hide")
    /\ Say(<<WordsOf({})>>)
    /\ UNCHANGED <<core, window>>

CancelBackup ==
    /\ Next1("cancel")
    /\ backup' = {}
    /\ Say(<<WordsOf({})>>)
    /\ UNCHANGED <<locked, keys, backedUp, window>>

\* confirm_phrase
ConfirmPhrase ==
    /\ Next1("confirm")
    /\ LET c == Head(commands)
           correct == backup = {c.of} /\ c.right
       IN IF correct
          THEN /\ backup' = {} /\ backedUp' = backedUp \cup {c.of}
               /\ Say(<<WordsOf({}), [is |-> "confirmed", yes |-> TRUE],
                        [is |-> "wallet", yes |-> locked]>>)
          ELSE /\ UNCHANGED <<backup, backedUp>>
               /\ Say(<<[is |-> "confirmed", yes |-> FALSE]>>)
    /\ UNCHANGED <<locked, keys, window>>

\* add_key
AddKey ==
    /\ Next1("add")
    /\ IF backup # {} \/ locked \/ NewKey \in keys
       THEN UNCHANGED <<keys, backup>> /\ Say(<<[is |-> "notice"]>>)
       ELSE /\ keys' = keys \cup {NewKey} /\ backup' = {NewKey}
            /\ Say(<<[is |-> "wallet", yes |-> locked],
                     [is |-> "challenge", of |-> NewKey]>>)
    /\ UNCHANGED <<locked, backedUp, window>>

Locks ==
    /\ locked' = TRUE /\ backup' = {}
    /\ Say(<<[is |-> "locked"], [is |-> "wallet", yes |-> TRUE]>>)
    /\ UNCHANGED <<keys, backedUp, window>>

Lock == Next1("lock") /\ Locks

\* check_auto_lock
AutoLock ==
    /\ ~locked /\ Len(commands) + Len(events) < MaxQueue
    /\ Locks
    /\ UNCHANGED commands

Unlock ==
    /\ Next1("unlock")
    /\ locked' = FALSE
    /\ Say(<<[is |-> "wallet", yes |-> FALSE]>>)
    /\ UNCHANGED <<keys, backedUp, backup, window>>

Core == RevealBackup \/ ShowNewPhrase \/ HideBackup \/ CancelBackup
            \/ ConfirmPhrase \/ AddKey \/ Lock \/ Unlock

-----------------------------------------------------------------------------
(* What arrives at the window *)

Arrives(e) == events # <<>> /\ Head(events).is = e /\ events' = Tail(events)

\* seed::open
ApplyChallenge ==
    /\ Arrives("challenge")
    /\ challenge' = {Head(events).of}
    /\ words' = "masked"
    /\ step' = "phrase"
    /\ IF step = "phrase" THEN UNCHANGED <<seen, held>>
       ELSE seen' = FALSE /\ held' = FALSE
    /\ UNCHANGED <<core, label, reReading, closed, commands>>

\* seed::reveal, seed::conceal
ApplyWords ==
    /\ Arrives("words")
    /\ words' = IF Head(events).of # {} THEN CHOOSE k \in Head(events).of : TRUE
                ELSE IF words = "none" THEN "none" ELSE "masked"
    /\ UNCHANGED <<core, step, label, reReading, challenge, seen, held, closed, commands>>

ApplyConfirmed ==
    /\ Arrives("confirmed")
    /\ IF Head(events).yes THEN Close
       ELSE UNCHANGED <<step, label, reReading, words, challenge, seen, held>>
    /\ UNCHANGED <<core, closed, commands>>

ApplyLocked ==
    /\ Arrives("locked")
    /\ closed' = TRUE
    /\ Close
    /\ UNCHANGED <<core, commands>>

\* apply_wallet: what the shell is built from
ApplyWallet ==
    /\ Arrives("wallet")
    /\ closed' = Head(events).yes
    /\ IF Head(events).yes THEN seen' = FALSE /\ held' = FALSE
       ELSE UNCHANGED <<seen, held>>
    /\ UNCHANGED <<core, step, label, reReading, words, challenge, commands>>

ApplyNotice ==
    /\ Arrives("notice")
    /\ UNCHANGED <<core, window, commands>>

Apply == ApplyChallenge \/ ApplyWords \/ ApplyConfirmed \/ ApplyLocked
            \/ ApplyWallet \/ ApplyNotice

-----------------------------------------------------------------------------

Press ==
    \/ \E k \in Key : OpenFor(k)
    \/ \E right \in BOOLEAN : PressShow(right) \/ PressConfirm(right)
    \/ PressLeave \/ PressHold \/ Release \/ PressWritten \/ PressAgain
    \/ PressAdd \/ PressLock \/ PressUnlock

Next == Press \/ Core \/ AutoLock \/ Apply

Spec == Init /\ [][Next]_vars

-----------------------------------------------------------------------------
(* Properties *)

\* When all has arrived, words that can be read are on a screen whose button is
\* held, and the wallet is open (seed.rs: "A real word is only ever written
\* into a row while the reveal button is held").
\* Does not hold unless Patient: words may come after the button was let go.
ReadableWhileHeld ==
    Quiet /\ words \in Key => held /\ step = "phrase" /\ ~closed /\ ~locked

\* When all has arrived and the screen is closed, the core holds no phrase
\* ("cancel-backup is what overwrites the words and drops them",
\* state.slint 197).
LeftIsDropped == Quiet /\ step = "" => backup = {}

\* A screen that offers words has a phrase behind it ("Rust opens it (a phrase
\* exists to show)", state.slint 157).
\* Does not hold unless Patient: a challenge that comes late opens the screen
\* again.
OpenHasPhrase == Quiet /\ Mounted /\ step # "passphrase" => backup # {}

\* The words are those of the key the screen names ("The key whose phrase is
\* being shown", state.slint 161).
\* Does not hold unless Patient: another row may be open by then.
WordsAreOfLabel == words \in Key /\ Mounted /\ label # NoKey => words = label

\* A button that is held shows the words; until then it waits.
Waiting == held /\ words \notin Key

\* A wallet that is locked holds no phrase ("Locking while the backup screen is
\* open has to leave nothing behind", wallet.rs 464).
\* Does not hold: reveal_phrase does not ask whether the wallet is open.
LockedHoldsNothing == locked => backup = {}
=============================================================================
