--------------------------- MODULE ReservationOps ---------------------------
(* The record of an unfinished name registration, of                         *)
(* pecu-core/src/registration.rs, as a value and the operations on it.       *)
(*                                                                           *)
(* A reservation is a record: `mem` is what the process holds and `file` is  *)
(* what the file holds.  A claim stands for one built commitment, its salt   *)
(* and its key.  Every operation takes the outcome of the write (or of the   *)
(* removal) it ends with: the replace is tmp -> rename, so one that fails    *)
(* leaves the previous file whole.                                           *)

CONSTANTS
    Claim,          \* the commitments the wallet may come to build
    NoClaim,
    WritesFail      \* whether a file may refuse to be written or removed

ASSUME ReservationAssumption == NoClaim \notin Claim /\ WritesFail \in BOOLEAN

Step == {"reserved", "committed"}
Record == [pending : Claim, step : Step]
NoRecord == [pending |-> NoClaim, step |-> "reserved"]

Reservation == [mem : Record \cup {NoRecord}, file : Record \cup {NoRecord}]

EmptyReservation == [mem |-> NoRecord, file |-> NoRecord]

Write == IF WritesFail THEN BOOLEAN ELSE {TRUE}

\* Reservation::open
Reopened(r) == [mem |-> r.file, file |-> r.file]

\* Reservation::persist, of a record put into memory just before; without a
\* record it writes nothing.
Persisted(r, record, wrote) ==
    [mem |-> record,
     file |-> IF wrote /\ record # NoRecord THEN record ELSE r.file]

\* Reservation::reserve
Reserved(r, c, wrote) ==
    Persisted(r, [pending |-> c, step |-> "reserved"], wrote)

\* Reservation::update
Updated(r, c, wrote) ==
    Persisted(r, IF r.mem = NoRecord THEN NoRecord
                 ELSE [r.mem EXCEPT !.pending = c], wrote)

\* Reservation::mark_committed
MarkedCommitted(r, wrote) ==
    Persisted(r, IF r.mem = NoRecord THEN NoRecord
                 ELSE [r.mem EXCEPT !.step = "committed"], wrote)

\* Mutant: the step outlives the claim.
FinishedHalf(r, removed) ==
    [mem |-> [r.mem EXCEPT !.pending = NoClaim],
     file |-> IF removed THEN NoRecord ELSE r.file]

\* Reservation::finish
Finished(r, removed) ==
    [mem |-> NoRecord, file |-> IF removed THEN NoRecord ELSE r.file]
=============================================================================
