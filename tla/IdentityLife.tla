---------------------------- MODULE IdentityLife ----------------------------
(* One VerusID from the claim of its name on: what the window says of a claim *)
(* that is under way, and how an identity is locked, released, revoked and    *)
(* recovered (pecu-core/src/identity.rs, pecu-core/src/lib.rs).  Registration *)
(* says how a claim is kept and sent, Reviews how a change is confirmed,      *)
(* Identities which list an identity is in.                                   *)
(*                                                                           *)
(* A commitment, and a change that spends the identity's output, are the     *)
(* chain's to accept; what the SDK refuses to sign is its own (external).    *)
EXTENDS Naturals, FiniteSets

CONSTANTS
    Typed,      \* what may be typed as a name: [name, padded]
    Claims,     \* is a name claimed here (or is the identity there)?
    Hasty,      \* may the user do something else while typing a name, or give a
                \* claim up while step two is with a worker?
    Who,        \* who may be named an authority
    Delays, Extra,  \* blocks of a lock, and blocks added when it is released
    Life,       \* blocks a signed transaction may wait, a commitment twice that
    MaxHeight, MaxChanges, MaxReviews  \* bounds

IdentityLifeAssumption ==
    /\ Typed \subseteq [name : {"", "free", "taken", "long", "bad"}, padded : BOOLEAN]
    \* The identity itself, one of one's own or another's, an address that is no
    \* identity, and what does not parse.
    /\ Who \subseteq {"itself", "ours", "theirs", "an address", "nonsense"}
    /\ {Claims, Hasty} \subseteq BOOLEAN
    /\ Delays \subseteq Nat /\ Extra \subseteq Nat /\ Life \in Nat \ {0}
    /\ {MaxHeight, MaxChanges, MaxReviews} \subseteq Nat

VARIABLES
    height,     \* the chain's height
    tip,        \* NodeState::tip of the node in use; 0 when it is not known
    draft,      \* IdentityState.name-draft
    checks,     \* names that are being looked up
    problem,    \* IdentityState.name-problem, with the name it is about
    claim,      \* Reservation::current
    mined,      \* the height the commitment is in, 0 for none
    poll,       \* a poll's answer that is not yet applied
    ready,      \* Core::ready is held
    registering, \* step two is with a worker: the recovery it was claimed with
    view,       \* the last Event::Registration
    id,         \* the identity on the chain
    reads,      \* records that were read and are not yet shown
    row, sheet, \* the identity in a list, and the sheet that is open
    signed      \* Core::identity_changes

vars == <<height, tip, draft, checks, problem, claim, mined, poll, ready,
          registering, view, id, reads, row, sheet, signed>>

NoNote == [code |-> "", args |-> <<>>]
Plain(code) == [code |-> code, args |-> <<>>]
With(code, args) == [code |-> code, args |-> args]
NoView == [step |-> "none"]
NoClaim == [step |-> "none"]
NoRecord == [ver |-> 0]
NoPoll == "none"
EmptyDraft == [name |-> "", padded |-> FALSE]

-----------------------------------------------------------------------------
(* The state of an identity, and what is said of it *)

\* Timelock::of, as status reads it
Timelock(r) ==
    IF r.locked THEN [kind |-> "delay", blocks |-> r.after]
    ELSE IF r.after > 0 THEN [kind |-> "until", blocks |-> r.after]
    ELSE [kind |-> "none", blocks |-> 0]

\* status: a height that has passed is no lock.
Status(r, t) ==
    LET lock == Timelock(r) IN
    IF r.revoked THEN [is |-> "Revoked", blocks |-> 0]
    ELSE IF lock.kind = "delay" THEN [is |-> "Locked", blocks |-> lock.blocks]
    ELSE IF lock.kind = "until" /\ lock.blocks > t
         THEN [is |-> "Unlocking", blocks |-> lock.blocks]
    ELSE [is |-> "Active", blocks |-> 0]

Tone ==
    [Active |-> "online", Locked |-> "degraded", Unlocking |-> "degraded",
     Revoked |-> "offline"]

\* note
Note(s) ==
    CASE s.is = "Active" -> NoNote
      [] s.is = "Locked" -> With("identity-locked", <<s.blocks>>)
      [] s.is = "Unlocking" -> With("identity-unlocking", <<s.blocks>>)
      [] s.is = "Revoked" -> Plain("identity-revoked")

\* timelock_note
TimelockNote(s) ==
    CASE s.is = "Active" -> Plain("timelock-none")
      [] s.is = "Locked" -> With("timelock-held", <<s.blocks>>)
      [] s.is = "Unlocking" -> With("timelock-counting", <<s.blocks>>)
      [] s.is = "Revoked" -> Plain("timelock-revoked")

\* row, row_of
Row(r, t) ==
    LET s == Status(r, t) IN
    [ver |-> r.ver, status |-> s.is, tone |-> Tone[s.is], note |-> Note(s),
     mine |-> r.held > 0]

ControlNote(r) ==
    IF r.held = 0 THEN Plain("control-none")
    ELSE With(IF r.held >= r.needed THEN "control-enough" ELSE "control-short",
              <<r.held, r.needed>>)

\* detail: no tip is consulted.
Detail(r) ==
    LET s == Status(r, 0) IN
    [ver |-> r.ver, status |-> s.is, tone |-> Tone[s.is],
     canSign |-> r.held >= r.needed, control |-> ControlNote(r),
     cannotBeRevoked |-> r.recovery = "itself", timelock |-> TimelockNote(s)]

\* classify: what a node answers when it is asked whether an identity defines a
\* currency.  A node that says there is none is believed; any other failure is
\* no answer.
Lookup == {"defines", "none", "unknown"}
Classify(answered, defined) ==
    IF ~answered THEN "unknown" ELSE IF defined THEN "defines" ELSE "none"

\* timelocked
Timelocked(status) == status \in {"Locked", "Unlocking"}

\* refusal: why an identity cannot have a currency defined under it.
Refusal(lookup, canSign, status) ==
    CASE lookup = "defines" -> With("eligible-already-defines", <<"its name">>)
      [] lookup = "unknown" -> Plain("eligible-unknown")
      [] lookup = "none" /\ ~canSign -> Plain("eligible-cannot-sign")
      [] lookup = "none" /\ canSign /\ status = "Revoked" -> Plain("eligible-revoked")
      [] lookup = "none" /\ canSign /\ Timelocked(status) -> Plain("eligible-timelocked")
      [] OTHER -> NoNote

\* refresh_currencies, finish_currencies: the list of names a currency can be
\* defined under, made from the identities as they are listed.
EligibleNote(listed, lookup) == Refusal(lookup, listed.mine, listed.status)

-----------------------------------------------------------------------------
(* Changes *)

Change ==
    [kind : {"authorities"}, revocation : Who \cup {""}, recovery : Who \cup {""}]
    \cup [kind : {"lock"}, delay : Delays] \cup [kind : {"unlock"}, extra : Extra]
    \cup [kind : {"revoke", "recover"}]

Codes == [unlock |-> "change-unlock", revoke |-> "change-revoke", recover |-> "change-recover"]

\* Change::describe, with unlock_note
Describe(c) ==
    CASE c.kind = "authorities" /\ c.revocation = "" /\ c.recovery = "" -> Plain("change-nothing")
      [] c.kind = "authorities" /\ c.revocation # "" /\ c.recovery = ""
            -> With("change-revocation", <<c.revocation>>)
      [] c.kind = "authorities" /\ c.revocation = "" /\ c.recovery # ""
            -> With("change-recovery", <<c.recovery>>)
      [] c.kind = "authorities" /\ c.revocation # "" /\ c.recovery # ""
            -> With("change-both-authorities", <<c.revocation, c.recovery>>)
      [] c.kind = "lock" -> With("change-lock", <<c.delay>>)
      [] c.kind \in {"unlock", "revoke", "recover"} -> Plain(Codes[c.kind])

\* Change::needs_typed_confirmation
NeedsTypedConfirmation(c) == c.kind = "revoke"

\* authority_hash: whatever parses as an address will do.
HasHash(who) == who # "nonsense"
Or(who, before) == IF who = "" THEN before ELSE who

\* as_sdk_change, or the SDK's function for the three that have their own: what
\* becomes of the record.  A released lock ends `delay` blocks after the
\* transaction's own expiry.
Applied(c, r, at) ==
    CASE c.kind = "authorities" ->
            [r EXCEPT !.revocation = Or(c.revocation, @), !.recovery = Or(c.recovery, @)]
      [] c.kind = "lock" -> [r EXCEPT !.locked = TRUE, !.after = c.delay]
      [] c.kind = "unlock" ->
            [r EXCEPT !.locked = FALSE, !.after = at + Life + @ + c.extra]
      [] c.kind = "revoke" -> [r EXCEPT !.revoked = TRUE]
      [] c.kind = "recover" -> [r EXCEPT !.revoked = FALSE]

Holds(who) == who \in {"itself", "ours"}

\* What prepare signs; the SDK refuses the rest.
CanPrepare(c, r) ==
    /\ r.held >= r.needed
    /\ CASE c.kind = "authorities" -> HasHash(c.revocation) /\ HasHash(c.recovery) /\ ~r.revoked
         [] c.kind = "lock" -> ~r.revoked
         [] c.kind = "unlock" -> ~r.revoked /\ r.locked
         [] c.kind = "revoke" -> ~r.revoked /\ r.recovery # "itself" /\ Holds(r.revocation)
         [] c.kind = "recover" -> r.revoked /\ Holds(r.recovery)

-----------------------------------------------------------------------------
(* What is said of a name and of a claim *)

\* name_problem, of the trimmed name
NameProblem(name) ==
    CASE name = "long" -> Plain("name-too-long")
      [] name = "bad" -> With("name-bad-characters", <<name>>)
      [] OTHER -> NoNote

\* finish_name_check
TakenProblem(taken) ==
    CASE taken = "yes" -> Plain("name-taken")
      [] taken = "no" -> NoNote
      [] taken = "unknown" -> Plain("name-unchecked")

\* progress
Reached(step) ==
    CASE step = "reserved" -> 0
      [] step \in {"committed", "waiting"} -> 1
      [] step = "ready" -> 2
      [] step = "done" -> 3
Progress(step) ==
    IF step \in {"lost", "expired"} THEN <<>>
    ELSE [n \in 1 .. 3 |-> IF n - 1 < Reached(step) THEN "done"
                           ELSE IF n - 1 = Reached(step) THEN "now" ELSE "later"]

Deadline(expiry, t) ==
    IF expiry > t THEN With("claim-deadline", <<expiry, expiry - t>>)
    ELSE With("claim-deadline-passed", <<expiry>>)

\* The step and the words for what a poll answered; without one, the record's.
Step(c, answer) ==
    CASE answer = NoPoll -> c.step
      [] answer \in {"waiting", "reorged", "other"} -> "waiting"
      [] answer = "ready" -> "ready"
      [] answer = "gone" -> "lost"
      [] answer = "expired" -> "expired"
StepNote(c, answer) ==
    CASE answer = NoPoll /\ c.step = "reserved" -> Plain("claim-signed-not-sent")
      [] answer = NoPoll /\ c.step = "committed" -> Plain("claim-on-its-way")
      [] answer = "waiting" -> Plain("claim-waiting")
      [] answer = "ready" -> Plain("claim-confirmed")
      [] answer = "reorged" -> Plain("claim-reorged")
      [] answer = "gone" -> Plain("claim-gone")
      [] answer = "expired" -> With("claim-expired", <<c.expiry>>)
      [] answer = "other" -> Plain("claim-unrecognised")

\* registration_view, as emit_registration sends it
RegistrationView(c, answer) ==
    IF c = NoClaim THEN NoView
    ELSE [step |-> Step(c, answer), note |-> StepNote(c, answer),
          deadline |-> Deadline(c.expiry, tip), cannotBeRevoked |-> c.recovery = "itself",
          steps |-> Progress(Step(c, answer))]

\* RegistrationPanel: the button that registers the name
Offered == view # NoView /\ view.step = "ready"

\* apply_registration: that there is no claim also empties the form.
Show(v) == view' = v /\ draft' = IF v = NoView THEN EmptyDraft ELSE draft

\* What finish_registered sends of a name that is registered.
Done(c) ==
    [step |-> "done", note |-> Plain("claim-registered"), deadline |-> NoNote,
     cannotBeRevoked |-> c # NoClaim /\ c.recovery = "itself", steps |-> Progress("done")]

-----------------------------------------------------------------------------
Fresh(held, needed, recovery) ==
    [ver |-> 1, locked |-> FALSE, after |-> 0, revoked |-> FALSE, held |-> held,
     needed |-> needed, revocation |-> "itself", recovery |-> recovery]

\* What goes to the window: RegistrationVm, IdentityVm, IdentityDetailVm.
RegistrationVm(v) ==
    /\ v.step \in {"reserved", "committed", "waiting", "ready", "done", "expired", "lost"}
    /\ v.cannotBeRevoked \in BOOLEAN
    /\ \A n \in DOMAIN v.steps : v.steps[n] \in {"done", "now", "later"}
    /\ (v.steps = <<>>) <=> v.step \in {"expired", "lost"}
IdentityVm(v) == v.tone = Tone[v.status] /\ v.mine \in BOOLEAN
IdentityDetailVm(v) ==
    /\ v.tone = Tone[v.status] /\ {v.canSign, v.cannotBeRevoked} \subseteq BOOLEAN
    /\ v.canSign <=> v.control.code = "control-enough"

TypeOK ==
    /\ view = NoView \/ RegistrationVm(view)
    /\ row = NoRecord \/ IdentityVm(row)
    /\ sheet = NoRecord \/ IdentityDetailVm(sheet)
    /\ height \in 0 .. MaxHeight /\ tip \in 0 .. height /\ mined \in 0 .. height
    /\ draft \in Typed \cup {EmptyDraft} /\ checks \subseteq {t.name : t \in Typed}
    /\ claim = NoClaim \/ claim.step \in {"reserved", "committed"}
    /\ ready \in BOOLEAN /\ registering \in {"no", "itself", "ours"}
    /\ id = NoRecord \/ id.ver \in 1 .. MaxChanges + 1
    /\ \A r \in reads : r.of.ver \in 1 .. MaxChanges + 1
    /\ Cardinality(signed) <= MaxReviews

Init ==
    /\ height = 1 /\ tip = 0
    /\ draft = EmptyDraft /\ checks = {} /\ problem = [of |-> EmptyDraft, note |-> NoNote]
    /\ claim = NoClaim /\ mined = 0 /\ poll = NoPoll /\ ready = FALSE
    /\ registering = "no" /\ view = NoView
    /\ id \in IF Claims THEN {NoRecord}
              ELSE {Fresh(1, 1, "ours"), Fresh(0, 1, "itself"), Fresh(1, 2, "ours")}
    /\ reads = {} /\ row = NoRecord /\ sheet = NoRecord
    /\ signed = {}

Window == <<row, sheet, signed>>
Form == <<draft, checks, problem>>
Claiming == <<claim, mined, poll, ready, registering, view>>

\* A block; and poll_tip.
Grow ==
    /\ height < MaxHeight /\ height' = height + 1
    /\ UNCHANGED <<tip, Form, Claiming, id, reads, Window>>
PollTip ==
    /\ tip' = height
    /\ UNCHANGED <<height, Form, Claiming, id, reads, Window>>

-----------------------------------------------------------------------------
(* The name that is typed *)

\* Event::NameChecked: shown if the field still holds that very text.
Say(t, name, said) ==
    problem' = IF t = [name |-> name, padded |-> FALSE] THEN [of |-> t, note |-> said]
               ELSE problem

\* check_name, once the typing pauses: only a name that could be one is looked up.
CheckName(t) ==
    /\ t # draft /\ draft' = t
    /\ IF t.name \in {"", "long", "bad"}
       THEN Say(t, t.name, NameProblem(t.name)) /\ UNCHANGED checks
       ELSE checks' = checks \cup {t.name} /\ UNCHANGED problem
    /\ UNCHANGED <<height, tip, Claiming, id, reads, Window>>

FinishNameCheck(name, taken) ==
    /\ name \in checks /\ checks' = checks \ {name}
    /\ taken \in {"unknown", IF name = "taken" THEN "yes" ELSE "no"}
    /\ Say(draft, name, TakenProblem(taken))
    /\ UNCHANGED <<height, tip, draft, Claiming, id, reads, Window>>

-----------------------------------------------------------------------------
(* The claim *)

\* finish_reserved; the commitment's expiry is in the bytes that were signed.
Reserve(recovery) ==
    /\ Claims /\ claim = NoClaim /\ id = NoRecord /\ registering = "no"
    /\ height + 2 * Life <= MaxHeight
    /\ claim' = [step |-> "reserved", expiry |-> height + 2 * Life, recovery |-> recovery]
    /\ mined' = 0 /\ Show(RegistrationView(claim', NoPoll))
    /\ UNCHANGED <<height, tip, checks, problem, poll, ready, registering, id, reads, Window>>

\* finish_committed: sent, or perhaps sent.
Commit ==
    /\ claim # NoClaim /\ claim.step = "reserved"
    /\ claim' = [claim EXCEPT !.step = "committed"]
    /\ Show(RegistrationView(claim', NoPoll))
    /\ UNCHANGED <<height, tip, checks, problem, mined, poll, ready, registering, id, reads, Window>>

\* The commitment gets into a block, or out of it.
Mine ==
    /\ claim # NoClaim /\ claim.step = "committed"
    /\ mined' = IF mined = 0 THEN height ELSE 0
    /\ mined = 0 => height < claim.expiry
    /\ UNCHANGED <<height, tip, Form, claim, poll, ready, registering, view, id, reads, Window>>

\* PendingRegistration::poll
Answers ==
    {"error", "other"} \cup
    IF height >= claim.expiry THEN {"expired"}
    ELSE IF mined = 0 THEN {"waiting", "reorged", "gone"}
    ELSE IF height > mined THEN {"ready"} ELSE {"waiting"}

\* poll_registration: not while a confirmed claim is held.
PollRegistration(answer) ==
    /\ poll = NoPoll /\ ~ready /\ claim # NoClaim /\ claim.step = "committed"
    /\ answer \in Answers /\ poll' = answer
    /\ UNCHANGED <<height, tip, Form, claim, mined, ready, registering, view, id, reads, Window>>

\* finish_poll
FinishPoll ==
    /\ poll # NoPoll /\ poll' = NoPoll
    /\ ready' = (ready \/ poll = "ready")
    /\ IF poll = "error" THEN UNCHANGED <<view, draft>> ELSE Show(RegistrationView(claim, poll))
    /\ UNCHANGED <<height, tip, checks, problem, claim, mined, registering, id, reads, Window>>

\* finish_registration, of an unlocked wallet
FinishRegistration ==
    /\ ready /\ claim # NoClaim /\ Offered
    /\ ready' = FALSE /\ registering' = claim.recovery
    /\ UNCHANGED <<height, tip, Form, claim, mined, poll, view, id, reads, Window>>

\* finish_registered: the identity is there, or the claim stays.
FinishRegistered ==
    /\ registering # "no" /\ registering' = "no"
    /\ \/ /\ mined > 0 /\ id' = Fresh(1, 1, registering)
          /\ claim' = NoClaim /\ Show(Done(claim))
       \/ Show(RegistrationView(claim, NoPoll)) /\ UNCHANGED <<id, claim>>
    /\ UNCHANGED <<height, tip, checks, problem, mined, poll, ready, reads, Window>>

\* abandon_registration, which is also what "Done" asks for
Abandon ==
    /\ view # NoView /\ poll = NoPoll
    /\ Hasty \/ registering = "no"
    /\ claim' = NoClaim /\ ready' = FALSE /\ Show(NoView)
    /\ UNCHANGED <<height, tip, checks, problem, mined, poll, registering, id, reads, Window>>

\* emit_registration(None), as a lock, an unlock, a key added, renamed or made
\* active, a new passphrase and the timer of the auto-lock end.
Restate ==
    /\ Hasty \/ claim # NoClaim
    /\ Show(RegistrationView(claim, NoPoll))
    /\ UNCHANGED <<height, tip, checks, problem, claim, mined, poll, ready, registering, id, reads, Window>>

-----------------------------------------------------------------------------
(* The identity *)

\* refresh_identities (what a key of the wallet is in), read_identity: answered
\* with the record of that moment.
Read(what) ==
    /\ id # NoRecord
    /\ what = "list" => id.held > 0
    /\ reads = {}
    /\ reads' = reads \cup {[what |-> what, of |-> id]}
    /\ UNCHANGED <<height, tip, Form, Claiming, id, Window>>

\* finish_identities, finish_detail
FinishRead(r) ==
    /\ r \in reads /\ reads' = reads \ {r}
    /\ row' = Row(r.of, tip)
    /\ sheet' = IF r.what = "sheet" THEN Detail(r.of) ELSE sheet
    /\ UNCHANGED <<height, tip, Form, Claiming, id, signed>>

\* prepare_identity_change, finish_identity_change_prepared: signed from the
\* record as it is on the chain, described from the command.
PrepareChange(c) ==
    /\ sheet # NoRecord /\ Cardinality(signed) < MaxReviews
    /\ CanPrepare(c, id)
    /\ signed' = signed \cup
           {[change |-> c, note |-> Describe(c), word |-> NeedsTypedConfirmation(c),
             of |-> id.ver, at |-> height]}
    /\ UNCHANGED <<height, tip, Form, Claiming, id, reads, row, sheet>>

\* confirm_identity_change: the chain takes what spends the output that is there.
Confirm(s) ==
    /\ s \in signed /\ signed' = signed \ {s}
    /\ IF s.of = id.ver /\ height <= s.at + Life /\ id.ver <= MaxChanges
       THEN id' = [Applied(s.change, id, s.at) EXCEPT !.ver = @ + 1]
       ELSE UNCHANGED id
    /\ UNCHANGED <<height, tip, Form, Claiming, reads, row, sheet>>

Cancel(s) ==
    /\ s \in signed /\ signed' = signed \ {s}
    /\ UNCHANGED <<height, tip, Form, Claiming, id, reads, row, sheet>>

Next ==
    \/ Grow \/ PollTip
    \/ \E t \in Typed : CheckName(t)
    \/ \E name \in checks, taken \in {"yes", "no", "unknown"} : FinishNameCheck(name, taken)
    \/ \E recovery \in {"itself", "ours"} : Reserve(recovery)
    \/ Commit \/ Mine \/ FinishPoll \/ FinishRegistration \/ FinishRegistered
    \/ Abandon \/ Restate
    \/ claim # NoClaim /\ \E answer \in Answers : PollRegistration(answer)
    \/ \E what \in {"list", "sheet"} : Read(what)
    \/ \E r \in reads : FinishRead(r)
    \/ \E c \in Change : PrepareChange(c)
    \/ \E s \in signed : Confirm(s) \/ Cancel(s)

Spec == Init /\ [][Next]_vars

-----------------------------------------------------------------------------
(* Properties *)

\* What is free to spend is not held by a lock, nor revoked: a row that calls the
\* identity as it now is Active was shown after the last block of its countdown,
\* and one that is revoked is called nothing else (status: "a countdown ends at a
\* height, not soon"; the chain only grows, whatever tip the node was last at).
Usable(r) == ~r.revoked /\ ~r.locked /\ r.after <= height
LockIsSaid ==
    row # NoRecord /\ id # NoRecord /\ row.ver = id.ver =>
        /\ row.status = "Active" => Usable(id)
        /\ row.status = "Revoked" <=> id.revoked

\* A name that is offered for a currency without a reason against it can spend its
\* output, now and from here on, unless it is changed: "a locked one is worse:
\* nothing in the flow refuses it" (refusal in currency.rs).  A reading that
\* failed offers nothing, and never says that there is no currency.
EligibleCanSpend ==
    row # NoRecord /\ id # NoRecord /\ row.ver = id.ver =>
        \A answered, defined \in BOOLEAN :
            EligibleNote(row, Classify(answered, defined)) = NoNote =>
                answered /\ ~defined /\ Usable(id) /\ id.held > 0

\* What a change did on the chain is what its review said it would, to nothing
\* but what it named (Change::describe, prepare): an identity that was changed
\* in between is not changed by what was signed before.
Did(note, a, b) ==
    CASE note.code = "change-nothing" -> b = a
      [] note.code = "change-revocation" -> b = [a EXCEPT !.revocation = note.args[1]]
      [] note.code = "change-recovery" -> b = [a EXCEPT !.recovery = note.args[1]]
      [] note.code = "change-both-authorities" ->
            b = [a EXCEPT !.revocation = note.args[1], !.recovery = note.args[2]]
      [] note.code = "change-lock" -> b = [a EXCEPT !.locked = TRUE, !.after = note.args[1]]
      [] note.code = "change-unlock" ->
            b.after > a.after /\ b = [a EXCEPT !.locked = FALSE, !.after = b.after]
      [] note.code = "change-revoke" -> b = [a EXCEPT !.revoked = TRUE]
      [] note.code = "change-recover" -> b = [a EXCEPT !.revoked = FALSE]
Taken(s) == signed' = signed \ {s} /\ id # NoRecord /\ id'.ver # id.ver
DidWhatItSaid ==
    \A s \in signed :
        Taken(s) =>
            /\ Did(s.note, id, [id' EXCEPT !.ver = id.ver])
            /\ s.note.code = "change-revoke" <=> s.word

\* A lock that is released holds for its delay from the block the release is in:
\* "Consensus measures the published unlock height from the transaction's own
\* expiry" (unlock_note).
ReleaseWaits ==
    id # NoRecord /\ id.locked /\ ~id'.locked => id'.after >= height + id.after

\* What is offered can be done: the button that registers the name is there only
\* while the confirmed claim is held or is with a worker (registration_view,
\* finish_registration).
OfferedCanBeFinished ==
    Offered => ready \/ registering # "no"

\* A name that is registered is said to be, with whether it can be revoked.
DoneIsTrue ==
    view # NoView /\ view.step = "done" =>
        id # NoRecord /\ (id.ver = 1 => (view.cannotBeRevoked <=> id.recovery = "itself"))

\* Does not hold when Hasty (the form is emptied and not what is said of it).
\* When every reply has arrived, what is said of the name is about the name that
\* is typed (Event::NameChecked in bridge.rs).
ProblemIsOfName ==
    checks = {} =>
        /\ problem.of = draft
        /\ draft.name \in {"taken", "long", "bad"} => problem.note # NoNote

\* Does not hold.  "Missing that window spends the fee for nothing.
\* So this runs whatever the user is looking at" (poll_registration): a confirmed
\* claim that is held is on the screen.
ReadyIsOffered == ready /\ claim # NoClaim => Offered

\* Does not hold: the sheet is read without a tip.  "A stale height is an identity
\* that is simply unlocked - not one perpetually about to be" (status).
SheetSaysWhatRowSays ==
    sheet # NoRecord /\ row.ver = sheet.ver => (sheet.status = "Unlocking" => row.status # "Active")

\* Does not hold: the list is asked whether any key of the wallet is in the
\* identity, not whether they are enough.  "Why this identity may not be used to
\* define a currency, or empty if it may" (refusal).
EligibleCanSign ==
    row # NoRecord /\ id # NoRecord /\ row.ver = id.ver =>
        (EligibleNote(row, "none") = NoNote => id.held >= id.needed)

\* Does not hold: any address will do.  "If an authority was named and does not
\* parse as an i-address" it is refused (as_sdk_change).
AuthorityIsIdentity ==
    id # NoRecord => {id.revocation, id.recovery} \subseteq {"itself", "ours", "theirs"}
=============================================================================
