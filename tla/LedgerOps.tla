----------------------------- MODULE LedgerOps -----------------------------
(* The pending-broadcast ledger of pecu-core/src/pending.rs as a value and  *)
(* the operations on it.                                                    *)
(*                                                                          *)
(* A ledger is a record: `mem` is the Vec the process works on, `file` is   *)
(* what pending.json holds and `next` is the id counter.  Every operation   *)
(* takes `wrote`, the outcome of the persist() it ends with: the replace is *)
(* tmp -> rename, so a failed (or interrupted) persist leaves the previous  *)
(* file whole.  A file that does not exist and a file holding [] are one    *)
(* value here, as open() and persist() tell them apart in nothing a caller  *)
(* can see.                                                                 *)
(*                                                                          *)
(* txid, hex, recipient and amount are one opaque value, the transaction.   *)
(* `checks` saturates at AbsentAfter, the only value it is compared with    *)
(* (CHECKS_BEFORE_ABSENT, 8 in the code); the backoff it also selects is    *)
(* time, which is not modelled here.                                        *)
EXTENDS Integers

CONSTANTS
    Tx,             \* the signed transactions that can be committed
    AbsentAfter     \* fruitless checks before a transaction is called absent

ASSUME AbsentAfterAssumption == AbsentAfter \in Nat \ {0}

State == {"uncertain", "confirmed", "absent", "resent", "abandoned"}

Record == [id : Nat \ {0}, tx : Tx, checks : 0 .. AbsentAfter, state : State]

File == [readable : BOOLEAN, records : SUBSET Record]

Ledger == [mem : SUBSET Record, file : File, next : Nat \ {0}]

EmptyFile == [readable |-> TRUE, records |-> {}]

\* Mutant: the counter of an empty ledger starts at 0.
NextIdFromZero(records) ==
    CHOOSE n \in {0} \cup {r.id + 1 : r \in records} :
        \A r \in records : r.id < n

\* Mutant: the largest id is given out again.
NextIdReused(records) ==
    CHOOSE n \in {1} \cup {r.id : r \in records} :
        \A r \in records : r.id <= n

\* One past the largest id, or 1.
NextId(records) ==
    CHOOSE n \in {1} \cup {r.id + 1 : r \in records} :
        \A r \in records : r.id < n

\* Mutant: records with nothing left to ask about are not read back.
OpenedUnresolved(file) ==
    LET found == IF file.readable
                 THEN {r \in file.records : r.state # "abandoned"} ELSE {}
    IN  [mem |-> found, file |-> file, next |-> NextId(found)]

\* Ledger::open: a file that cannot be parsed reads as no records at all, and
\* is not touched.
Opened(file) ==
    LET found == IF file.readable THEN file.records ELSE {}
    IN  [mem |-> found, file |-> file, next |-> NextId(found)]

\* persist: replace the file by the records in memory, or fail and leave it.
Persisted(L, wrote) ==
    IF wrote
    THEN [L EXCEPT !.file = [readable |-> TRUE, records |-> L.mem]]
    ELSE L

\* Mutant: the write is left for later.
CommittedInMemory(L, t, wrote) ==
    [L EXCEPT !.mem = @ \cup {[id |-> L.next, tx |-> t,
                               checks |-> 0, state |-> "uncertain"]},
              !.next = @ + 1]

\* commit: the record is pushed and the counter advanced before the write is
\* tried; a failed write is reported and takes neither back.
Committed(L, t, wrote) ==
    Persisted([L EXCEPT
        !.mem = @ \cup {[id |-> L.next, tx |-> t,
                         checks |-> 0, state |-> "uncertain"]},
        !.next = @ + 1], wrote)

\* set_state: an unknown id changes no record and still writes the file.
StateSet(L, id, s, wrote) ==
    Persisted([L EXCEPT
        !.mem = {IF r.id = id THEN [r EXCEPT !.state = s] ELSE r : r \in @}],
        wrote)

\* Mutant: abandoned records are let go of too.
ConfirmedForgottenWidely(L, wrote) ==
    Persisted([L EXCEPT
        !.mem = {r \in @ : r.state \notin {"confirmed", "abandoned"}}], wrote)

\* forget_confirmed: only Confirmed records are let go of.
ConfirmedForgotten(L, wrote) ==
    Persisted([L EXCEPT !.mem = {r \in @ : r.state # "confirmed"}], wrote)

\* note_check: one more fruitless question, saturating.
CheckNoted(L, id, wrote) ==
    Persisted([L EXCEPT
        !.mem = {IF r.id = id /\ r.checks < AbsentAfter
                 THEN [r EXCEPT !.checks = @ + 1] ELSE r : r \in @}],
        wrote)

\* unresolved: the records still worth asking about.
Unresolved(L) ==
    {r \in L.mem : r.state \in {"uncertain", "absent", "resent"}}

\* get(id), as the set of the records it can find (at most one, see IdsUnique
\* of PendingLedger).
WithId(L, id) == {r \in L.mem : r.id = id}
=============================================================================
