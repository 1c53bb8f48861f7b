------------------------------ MODULE Birthday ------------------------------
(* Where the first shielded scan of a key starts: crates/pecu-core/src/lib.rs *)
(* (light_birthday, settle_birthday, remember_birthday, scan_shielded,        *)
(* scan_resumes_at). A birthday is a height below which a key generated here  *)
(* cannot have been paid; one that is too high hides money. It is kept in the *)
(* store under the key's label, and the labels belong to the vault.           *)
(*                                                                            *)
(* One unit of time is FASTEST_BLOCK_SECONDS. In any e units the chain brings *)
(* at most e \div 2 blocks, its target, and Burst more. That a scan skips     *)
(* nothing rests on the chain not running ahead by much more than half the   *)
(* margin.                                                                    *)
EXTENDS Integers, FiniteSets

CONSTANTS
    Key, NoKey,    \* the keys; each is one shielded account
    Imported,      \* those that were in another wallet before
    Label, NoLabel,
    Margin,        \* BIRTHDAY_MARGIN
    Burst,         \* by how many blocks the chain may run ahead of its target
    Started,       \* the height the chain has when the wallet is set up
    MaxTime,       \* bound: units of time
    Reuse,         \* may a label be given to a second key?
    ClockJumps,    \* may the system clock be set back?
    Reorgs         \* may the last block be taken back?

BirthdayAssumption ==
    /\ NoKey \notin Key /\ NoLabel \notin Label /\ Imported \subseteq Key
    /\ {Margin, Burst, MaxTime} \subseteq Nat /\ Started \in Nat \ {0, 1}
    /\ 2 * Burst <= Margin + 2
    /\ {Reuse, ClockJumps, Reorgs} \subseteq BOOLEAN

VARIABLES
    time,      \* units of time that passed
    clock,     \* what the system's clock says
    height,    \* the chain's height
    credit,    \* twice the blocks the chain may bring at once
    tip,       \* the tip of the active node, or NoTip
    keyAt,     \* the vault: the key under each label
    active,    \* Wallet::active_key
    known,     \* light_birthday:<label>
    pending,   \* light_birthday_pending:<label>
    paid,      \* the lowest height at which a key was paid
    from,      \* where the scan this wallet holds of a key started
    had        \* labels that have named a key

vars == <<time, clock, height, credit, tip, keyAt, active, known, pending, paid, from, had>>

NoTip == 0
Unset == -1     \* no setting, no scan, no payment
Activation == 1 \* Sapling activation

Highest == Started + (MaxTime \div 2) + Burst
Height == 0..Highest

\* The names a key may be given: the vault refuses one that is taken.
MayName(l) == keyAt[l] = NoKey /\ (l \in had => Reuse)
New(k) == \A l \in Label : keyAt[l] # k
Named(l, k) == keyAt' = [keyAt EXCEPT ![l] = k] /\ had' = had \cup {l}

\* remember_birthday
RememberBirthday(l) ==
    IF tip # NoTip
    THEN known' = [known EXCEPT ![l] = tip] /\ UNCHANGED pending
    ELSE pending' = [pending EXCEPT ![l] = clock] /\ UNCHANGED known

\* The blocks there may have been since a key was made, at the fastest, and at
\* least the margin: saturating, and never below the first height to ask for.
Elapsed(since) == IF clock > since THEN clock - since ELSE 0
AtLeast(a, b) == IF a > b THEN a ELSE b
Back(t, since) == AtLeast(t - AtLeast(Elapsed(since), Margin), 2)
-----------------------------------------------------------------------------
Init ==
    /\ time = 0 /\ clock = 0 /\ height = Started /\ credit = 2 * Burst /\ tip = NoTip
    /\ keyAt = [l \in Label |-> NoKey] /\ active = NoLabel
    /\ known = [l \in Label |-> Unset] /\ pending = [l \in Label |-> Unset]
    /\ paid \in {[k \in Key |-> IF k \in Imported THEN h ELSE Unset] : h \in 2..Started}
    /\ from = [k \in Key |-> Unset] /\ had = {}

UnchangedWallet == UNCHANGED <<keyAt, active, known, pending, from, had>>

Pass ==
    /\ time < MaxTime /\ time' = time + 1 /\ clock' = clock + 1
    /\ credit' = IF credit < 2 * Burst THEN credit + 1 ELSE credit
    /\ UNCHANGED <<height, tip, paid>> /\ UnchangedWallet

\* Someone sets the clock back; it goes on from there.
SetBack ==
    /\ ClockJumps /\ clock > 0 /\ clock' = 0
    /\ UNCHANGED <<time, height, credit, tip, paid>> /\ UnchangedWallet

\* A block, perhaps with a first payment to a key that exists.
Mine(k) ==
    /\ credit >= 2 /\ credit' = credit - 2 /\ height' = height + 1
    /\ paid' = IF k # NoKey /\ paid[k] = Unset
               THEN [paid EXCEPT ![k] = height + 1] ELSE paid
    /\ k # NoKey => ~New(k)
    /\ UNCHANGED <<time, clock, tip>> /\ UnchangedWallet

\* The last block is taken back, with what it paid, and may come anew.
Reorganise ==
    /\ Reorgs /\ height > Started /\ credit < 2 * Burst
    /\ height' = height - 1 /\ credit' = credit + (IF credit + 1 < 2 * Burst THEN 2 ELSE 1)
    /\ paid' = [k \in Key |-> IF paid[k] = height THEN Unset ELSE paid[k]]
    /\ UNCHANGED <<time, clock, tip>> /\ UnchangedWallet

\* The active node reports its tip, which may lag behind the chain; or there is
\* no node that answered (a start of the program, a change of node).
Report(t) ==
    /\ t # tip /\ t \in {NoTip} \cup (Started..height) /\ tip' = t
    /\ UNCHANGED <<time, clock, height, credit, paid>> /\ UnchangedWallet

\* create_wallet, then add_key: a key of fresh entropy, under a name of its own.
Generate(l, k) ==
    /\ MayName(l) /\ New(k) /\ k \notin Imported /\ from[k] = Unset /\ paid[k] = Unset
    /\ Named(l, k) /\ RememberBirthday(l)
    /\ active' = IF active = NoLabel THEN l ELSE active
    /\ UNCHANGED <<time, clock, height, credit, tip, paid, from>>

\* Mutant: a key that is brought in gets a birthday as well.
ImportKeyRemembering(l, k) ==
    /\ MayName(l) /\ New(k) /\ k \in Imported
    /\ Named(l, k) /\ RememberBirthday(l) /\ active' = l
    /\ UNCHANGED <<time, clock, height, credit, tip, paid, from>>

\* import_key: nothing is claimed of a key that came from elsewhere.
ImportKey(l, k) ==
    /\ MayName(l) /\ New(k) /\ k \in Imported
    /\ Named(l, k) /\ active' = l
    /\ UNCHANGED <<time, clock, height, credit, tip, known, pending, paid, from>>

\* rename_key: the active key follows, the settings under the old name do not.
RenameKey(l, to) ==
    /\ keyAt[l] # NoKey /\ MayName(to)
    /\ keyAt' = [keyAt EXCEPT ![to] = keyAt[l], ![l] = NoKey]
    /\ had' = had \cup {to}
    /\ active' = IF active = l THEN to ELSE active
    /\ UNCHANGED <<time, clock, height, credit, tip, known, pending, paid, from>>

SetActiveKey(l) ==
    /\ keyAt[l] # NoKey /\ active # l /\ active' = l
    /\ UNCHANGED <<time, clock, height, credit, tip, keyAt, known, pending, paid, from, had>>

\* settle_birthday, for the active key: what it leaves of the two settings.
Settled ==
    IF pending[active] # Unset /\ tip # NoTip
    THEN [known |-> [known EXCEPT ![active] = Back(tip, pending[active])],
          pending |-> [pending EXCEPT ![active] = Unset]]
    ELSE [known |-> known, pending |-> pending]

\* Mutant: Sapling activation is asked for as it is.
StartAnywhere(birthday) == IF birthday = Unset THEN Activation ELSE birthday

\* scan_resumes_at, of a first scan: the birthday or Sapling activation, and
\* never below two.
Start(birthday) == AtLeast(IF birthday = Unset THEN Activation ELSE birthday, 2)

\* scan_shielded: the pending birthday is settled first. A scan that is held is
\* continued, a first one starts at the birthday, and waits for one to settle.
ScanShielded ==
    /\ active # NoLabel
    /\ LET s == Settled k == keyAt[active] IN
       /\ known' = s.known /\ pending' = s.pending
       /\ IF from[k] = Unset /\ (s.known[active] # Unset \/ s.pending[active] = Unset)
          THEN from' = [from EXCEPT ![k] = Start(s.known[active])]
          ELSE UNCHANGED from
    /\ UNCHANGED <<time, clock, height, credit, tip, keyAt, active, paid, had>>

\* A server that is removed, or a scan of another key, takes the held scan away.
Forget(k) ==
    /\ from[k] # Unset /\ from' = [from EXCEPT ![k] = Unset]
    /\ UNCHANGED <<time, clock, height, credit, tip, keyAt, active, known, pending, paid, had>>

Next ==
    \/ Pass \/ SetBack \/ Reorganise \/ ScanShielded
    \/ \E k \in Key \cup {NoKey} : Mine(k)
    \/ \E t \in Height : Report(t)
    \/ \E l \in Label, k \in Key : Generate(l, k) \/ ImportKey(l, k)
    \/ \E l, to \in Label : RenameKey(l, to)
    \/ \E l \in Label : SetActiveKey(l)
    \/ \E k \in Key : Forget(k)

Spec == Init /\ [][Next]_vars
-----------------------------------------------------------------------------
\* Types; no birthday and no scan lies below the first height that can be asked
\* for.
TypeOK ==
    /\ time \in 0..MaxTime /\ clock \in 0..MaxTime
    /\ height \in Height /\ credit \in 0..(2 * Burst) /\ tip \in Height
    /\ keyAt \in [Label -> Key \cup {NoKey}] /\ active \in Label \cup {NoLabel}
    /\ known \in [Label -> (2..Highest) \cup {Unset}]
    /\ pending \in [Label -> (0..MaxTime) \cup {Unset}]
    /\ paid \in [Key -> Height \cup {Unset}] /\ from \in [Key -> (2..Highest) \cup {Unset}]
    /\ had \subseteq Label

\* No scan starts above a block that paid its key: what a birthday skips never
\* held anything ("Scanning less costs somebody their money, quietly").
\* Does not hold if Reuse, ClockJumps or Reorgs: a label takes the birthday of
\* the key that had it, a margin is no addition, a tip is no floor.
SkipsNothing ==
    \A k \in Key : from[k] # Unset /\ paid[k] # Unset => from[k] <= paid[k]

\* As long as no label was changed, the first scan of a key made here starts
\* where the chain was then, or before by no more than the margin or the fastest
\* growth since ("a scan started before the birthday is known would be the whole
\* chain, which is exactly what the birthday exists to avoid").
NeverRenamed == had = {l \in Label : keyAt[l] # NoKey}
SkipsTheRest ==
    NeverRenamed => \A k \in Key \ Imported :
        from[k] # Unset => from[k] >= Started - AtLeast(Margin, time)
=============================================================================
