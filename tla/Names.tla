-------------------------------- MODULE Names --------------------------------
(* Paying a name (maybe_resolve_identity, finish_identity, validate_draft    *)
(* and prepare_send of pecu-core/src/lib.rs; identity_note).                 *)
(*                                                                           *)
(* What is typed is looked up once, off to one side, when it ends in an @.   *)
(* The answer is held with the text it answers, and the store keeps what the *)
(* name meant, so that a name that now means another address is shouted      *)
(* about. The address that is paid is the one that is held.                  *)
EXTENDS Integers, FiniteSets

CONSTANTS
    Chain, FirstChain,
    Name, NoName,
    Address, NoAddress,
    Home,           \* what each name means on each chain at first
    Slots,          \* bound: lookups out at once
    MaxChanges,     \* bound: names that move, are revoked or recovered
    Fails,          \* a lookup may end in a transport error
    Patient         \* nothing else is typed, and the chain not changed, while a
                    \* lookup is out

NamesAssumption ==
    /\ FirstChain \in Chain
    /\ NoName \notin Name /\ NoAddress \notin Address
    /\ Home \in [Chain -> [Name -> Address \cup {NoAddress}]]
    /\ {Slots, MaxChanges} \subseteq Nat
    /\ {Fails, Patient} \subseteq BOOLEAN

VARIABLES
    net,
    means,          \* the chains: what each name means, and whether it is revoked
    changes,
    typed,          \* last_draft.to, as far as it is a name
    identity,       \* the answer held: what was typed, address, revoked, was
    resolving,      \* the name being looked up, as far as the form knows
    store,          \* of each chain: what each name meant when last looked up
    jobs,           \* lookups out
    paid,           \* history variable: the recipient of the payment last built
    meant           \* history variable: all that could ever be paid

vars == <<net, means, changes, typed, identity, resolving, store, jobs, paid, meant>>

Meanings == [address : Address \cup {NoAddress}, revoked : BOOLEAN]
Unpaid == [chain |-> FirstChain, name |-> NoName, to |-> NoAddress]
NoIdentity == [typed |-> NoName, address |-> NoAddress, revoked |-> FALSE, was |-> NoAddress]

\* What an answer can be: nothing yet, an error, or what the name means.
Outcome == {"out", "failed", "unknown", "found"}
Job == [name : Name, chain : Chain, outcome : Outcome, meaning : Meanings]
Unknown == [address |-> NoAddress, revoked |-> FALSE]

\* Of a name on a chain, if it can be paid.
Payable(m) ==
    LET payable == {p \in Chain \X Name :
                        m[p[1]][p[2]].address # NoAddress /\ ~m[p[1]][p[2]].revoked}
    IN  {[chain |-> p[1], name |-> p[2], to |-> m[p[1]][p[2]].address] : p \in payable}

Init ==
    /\ net = FirstChain
    /\ means = [c \in Chain |-> [n \in Name |-> [address |-> Home[c][n], revoked |-> FALSE]]]
    /\ changes = 0
    /\ typed = NoName
    /\ identity = NoIdentity
    /\ resolving = NoName
    /\ store = [c \in Chain |-> [n \in Name |-> NoAddress]]
    /\ jobs = [s \in {} |-> Unknown]
    /\ paid = Unpaid
    /\ meant = Payable(means)

-----------------------------------------------------------------------------
(* The lookup *)

\* resolved_for
ResolvedFor(n) == n # NoName /\ identity.typed = n

Free == (1 .. Slots) \ DOMAIN jobs
Lowest(set) == CHOOSE s \in set : \A t \in set : s <= t

Posted(out, n) ==
    LET s == Lowest((1 .. Slots) \ DOMAIN out)
    IN  [t \in DOMAIN out \cup {s} |->
            IF t = s THEN [name |-> n, chain |-> net, outcome |-> "out", meaning |-> Unknown]
            ELSE out[t]]

\* maybe_resolve_identity: not if it is answered, nor while it is asked. `out`
\* are the lookups that are out; a free slot is the model's bound.
MaybeResolve(n, held, flag, out) ==
    LET asks == n # NoName /\ held.typed # n /\ flag # n
    IN  /\ asks => DOMAIN out # 1 .. Slots
        /\ resolving' = IF asks THEN n ELSE flag
        /\ jobs' = IF asks THEN Posted(out, n) ELSE out

\* A keystroke in any field of the form: validate_draft.
Type(n) ==
    /\ Patient /\ n # typed => DOMAIN jobs = {}
    /\ typed' = n
    /\ MaybeResolve(n, identity, resolving, jobs)
    /\ UNCHANGED <<net, means, changes, identity, store, paid, meant>>

\* A node of the chain answers (identity), or nothing does.
Answer(s) ==
    LET job == jobs[s]
        now == means[job.chain][job.name]
    IN  /\ job.outcome = "out"
        /\ \E outcome \in {IF now.address = NoAddress THEN "unknown" ELSE "found"}
                            \cup (IF Fails THEN {"failed"} ELSE {}) :
            jobs' = [jobs EXCEPT ![s] = [@ EXCEPT !.outcome = outcome,
                        !.meaning = IF outcome = "found" THEN now ELSE Unknown]]
        /\ UNCHANGED <<net, means, changes, typed, identity, resolving, store, paid, meant>>

\* finish_identity: what the name meant is read before it is written over. An
\* error is held as a name without an address. Then the form is validated again.
Finish(s) ==
    LET job == jobs[s]
        before == store[net][job.name]
        to == job.meaning.address
        held == [typed |-> job.name, address |-> to, revoked |-> job.meaning.revoked,
                 was |-> IF job.outcome = "found" /\ before # to THEN before ELSE NoAddress]
    IN  /\ job.outcome # "out"
        /\ identity' = held
        /\ store' = IF job.outcome = "found" THEN [store EXCEPT ![net][job.name] = to] ELSE store
        /\ MaybeResolve(typed, held, IF resolving = job.name THEN NoName ELSE resolving,
                        [t \in DOMAIN jobs \ {s} |-> jobs[t]])
        /\ UNCHANGED <<net, means, changes, typed, paid, meant>>

\* identity_note, and `to_valid` of validate_draft.
Note ==
    IF ~ResolvedFor(typed) THEN IF typed # NoName /\ resolving = typed THEN "resolving" ELSE ""
    ELSE IF identity.address = NoAddress THEN "unknown"
    ELSE IF identity.was # NoAddress THEN "moved"
    ELSE IF identity.revoked THEN "revoked" ELSE "resolved"

\* prepare_send: a name that is held with an address, and not revoked, is paid at
\* that address. Anything else does not parse.
Prepare ==
    /\ ResolvedFor(typed) /\ identity.address # NoAddress /\ ~identity.revoked
    /\ paid' = [chain |-> net, name |-> typed, to |-> identity.address]
    /\ UNCHANGED <<net, means, changes, typed, identity, resolving, store, jobs, meant>>

-----------------------------------------------------------------------------
(* The chains *)

Change(c, n) ==
    /\ changes < MaxChanges
    /\ changes' = changes + 1
    /\ \E m \in Meanings :
        /\ m # means[c][n] /\ (m.revoked => m.address # NoAddress)
        /\ means' = [means EXCEPT ![c][n] = m]
    /\ meant' = meant \cup Payable(means')
    /\ UNCHANGED <<net, typed, identity, resolving, store, jobs, paid>>

\* switch_network: the draft, the answer and the flag are dropped; the store is
\* the other chain's.
Switch(c) ==
    /\ c # net
    /\ Patient => DOMAIN jobs = {}
    /\ net' = c
    /\ typed' = NoName
    /\ identity' = NoIdentity
    /\ resolving' = NoName
    /\ UNCHANGED <<means, changes, store, jobs, paid, meant>>

Next ==
    \/ Prepare
    \/ \E n \in Name \cup {NoName} : Type(n)
    \/ \E s \in DOMAIN jobs : Answer(s) \/ Finish(s)
    \/ \E c \in Chain : Switch(c) \/ \E n \in Name : Change(c, n)

\* What a worker does for one lookup, and the actor with its answer.
AnswerAt(s) == s \in DOMAIN jobs /\ Answer(s)
FinishAt(s) == s \in DOMAIN jobs /\ Finish(s)

Spec == Init /\ [][Next]_vars

-----------------------------------------------------------------------------
TypeOK ==
    /\ net \in Chain /\ means \in [Chain -> [Name -> Meanings]] /\ changes \in 0 .. MaxChanges
    /\ {typed, resolving} \subseteq Name \cup {NoName}
    /\ identity \in [typed : Name \cup {NoName}, address : Address \cup {NoAddress},
                     revoked : BOOLEAN, was : Address \cup {NoAddress}]
    /\ store \in [Chain -> [Name -> Address \cup {NoAddress}]]
    /\ DOMAIN jobs \subseteq 1 .. Slots /\ \A s \in DOMAIN jobs : jobs[s] \in Job

\* "The builder reads the address, never the typed text" (Identity): what is paid
\* for a name is an address that name had on that chain, unrevoked.
\* Does not hold unless Patient, with two chains: an answer carries no chain.
PaysWhatItMeant == paid # Unpaid => paid \in meant

\* "Look a VerusID name up, at most once per name" (maybe_resolve_identity):
\* never twice at once, however it is typed.
\* Does not hold unless Patient: only the last name asked is remembered.
AskedOnce ==
    \A s, t \in DOMAIN jobs :
        s # t => jobs[s].name # jobs[t].name \/ jobs[s].chain # jobs[t].chain

\* "An empty address is a name the chain does not have" (validate_draft): the
\* form calls a name unknown only if a node said so.
\* Does not hold if Fails: any error is held as a name without an address.
UnknownIsAbsent ==
    \A s \in DOMAIN jobs :
     Finish(s) /\ jobs[s].outcome = "failed" => Note' # "unknown" \/ Note = "unknown"

\* "Once the wallet has shown somebody that a name now points somewhere new"
\* (remember_identity, pecu-store/src/lib.rs): what a name meant is written over
\* only in a step that shows it.
\* Does not hold unless Patient: the form may show another name by then.
ForgottenOnceShown ==
    \A c \in Chain, n \in Name :
     store[c][n] \notin {NoAddress, store'[c][n]} => typed = n /\ Note' = "moved"

\* "It is the case where the form looks perfectly ordinary and the money goes to
\* a stranger" (identity_note): a warning that a name moved stays as long as the
\* name stands there, unless the chain says it has no such name.
\* Does not hold unless Patient: the second answer finds nothing changed.
WarningStands ==
    Note = "moved" /\ typed' = typed => Note' \in {"moved", "unknown"}

\* A name that is typed, and left alone, waits for its answer, and gets it in
\* whatever order those of other names come.
Waiting(n) == typed = n /\ ~ResolvedFor(n)
=============================================================================
