--------------------------- MODULE PendingLedger ---------------------------
(* The ledger of signed bytes whose fate is unknown (pecu-core/pending.rs)  *)
(* as a component: any sequence of its calls, with writes that may fail, a  *)
(* process that may die between any two of them and reopen the file, and a  *)
(* file that something outside the wallet may damage.                       *)
(*                                                                          *)
(* Dying inside persist() needs no action of its own: rename is atomic, so  *)
(* it is a failed or a successful write followed by Crash.                  *)
EXTENDS LedgerOps

CONSTANTS
    MaxId,      \* bound on the ids given out between two restarts
    WritesFail, \* whether a write of the file may fail
    Damage      \* whether the file may become unreadable from outside

ASSUME MaxIdAssumption == MaxId \in Nat
ASSUME SwitchesAssumption == WritesFail \in BOOLEAN /\ Damage \in BOOLEAN

VARIABLES
    ledger,     \* the ledger: memory, file and counter
    up,         \* whether the process is running
    owed        \* history: the commits that returned Ok, not yet confirmed

vars == <<ledger, up, owed>>

Promise == [id : Nat \ {0}, tx : Tx]

TypeOK ==
    /\ ledger \in Ledger
    /\ up \in BOOLEAN
    /\ owed \subseteq Promise

\* The outcomes a write of the file can have.
Write == IF WritesFail THEN BOOLEAN ELSE {TRUE}

Init ==
    /\ ledger = Opened(EmptyFile)
    /\ up = TRUE
    /\ owed = {}

\* The caller may broadcast only what this step owes: a commit that failed
\* returns an error and promises nothing.
Commit(t, wrote) ==
    /\ up
    /\ ledger.next <= MaxId
    /\ ledger' = Committed(ledger, t, wrote)
    /\ owed' = IF wrote THEN owed \cup {[id |-> ledger.next, tx |-> t]}
                        ELSE owed
    /\ up' = up

SetState(id, s, wrote) ==
    /\ up
    /\ ledger' = StateSet(ledger, id, s, wrote)
    /\ owed' = IF s = "confirmed" THEN {p \in owed : p.id # id} ELSE owed
    /\ up' = up

ForgetConfirmed(wrote) ==
    /\ up
    /\ ledger' = ConfirmedForgotten(ledger, wrote)
    /\ UNCHANGED <<up, owed>>

NoteCheck(id, wrote) ==
    /\ up
    /\ ledger' = CheckNoted(ledger, id, wrote)
    /\ UNCHANGED <<up, owed>>

\* Memory is gone with the process.
Crash ==
    /\ up
    /\ up' = FALSE
    /\ ledger' = [mem |-> {}, file |-> ledger.file, next |-> 1]
    /\ owed' = owed

\* open() rebuilds it from the file alone.
Open ==
    /\ ~up
    /\ up' = TRUE
    /\ ledger' = Opened(ledger.file)
    /\ owed' = owed

\* Between two runs something outside the wallet leaves a file that does not
\* parse.  What it held may still be in it, and the wallet can promise it no
\* longer.  (While the process runs it writes the file and never reads it.)
FileDamaged ==
    /\ Damage
    /\ ~up
    /\ ledger.file.readable
    /\ ledger.file.records # {}
    /\ ledger' = [ledger EXCEPT !.file.readable = FALSE]
    /\ owed' = {}
    /\ up' = up

\* set_state takes any id: the caller reacts to an event, and the record may
\* be gone.
Next ==
    \/ \E wrote \in Write :
        \/ \E t \in Tx : Commit(t, wrote)
        \/ \E id \in 1 .. MaxId, s \in State : SetState(id, s, wrote)
        \/ \E id \in 1 .. MaxId : NoteCheck(id, wrote)
        \/ ForgetConfirmed(wrote)
    \/ Crash
    \/ Open
    \/ FileDamaged

Spec == Init /\ [][Next]_vars

-----------------------------------------------------------------------------
(* Safety *)

\* No two records share an id, in memory or in the file: `find` by id reaches
\* the record it means, and an answer about one payment is never written to
\* another's record.
IdsUnique ==
    /\ \A r, q \in ledger.mem : r.id = q.id => r = q
    /\ \A r, q \in ledger.file.records : r.id = q.id => r = q

\* A commit that returned Ok is still in the file, with the same bytes, until
\* the payment is confirmed: through any failed write, crash, reopening or
\* change of another record.  (In a file damaged from outside, nothing is.)
OwedBytesOnDisk ==
    \A p \in owed :
        /\ ledger.file.readable
        /\ \E r \in ledger.file.records : r.id = p.id /\ r.tx = p.tx

\* Whatever is owed is also in memory while the process runs, so that it is
\* asked about and listed.
OwedBytesInMemory ==
    up => \A p \in owed : \E r \in ledger.mem : r.id = p.id /\ r.tx = p.tx

\* An id never comes to mean other bytes while the process runs, and a record
\* leaves memory only once it is confirmed.
BytesKept ==
    [][up /\ up' =>
        \A r \in ledger.mem :
            \/ r.state = "confirmed"
            \/ \E q \in ledger'.mem : q.id = r.id /\ q.tx = r.tx]_vars
=============================================================================
