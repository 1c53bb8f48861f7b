------------------------- MODULE RegistrationProofs -------------------------
(* What TLAPS proves of Registration, for every set of claims.  The salt of  *)
(* a sent commitment is kept whatever fails or restarts, provided that the   *)
(* user starts and abandons claims only when nothing is out (~Hasty).        *)
EXTENDS Registration, TLAPS

\* A commitment is built alone: nothing else is out and no record is held.
BuiltAlone ==
    \A j \in jobs : j.kind = "reserve" =>
        jobs = {j} /\ reservation.mem = NoRecord

\* What has not been handed to a node is not on the network.
UnsentUntilRun ==
    \A j \in jobs :
        \/ j.kind = "reserve"
        \/ j.kind = "commit" /\ j.answer = "none"
        => net[j.claim] = "unsent"

\* A commitment on its way is the one held, in memory and on disk, and not yet
\* marked as committed.
CommitHeld ==
    \A j \in jobs : j.kind = "commit" =>
        /\ reservation.mem = [pending |-> j.claim, step |-> "reserved"]
        /\ reservation.file.pending = j.claim

\* The claims that may be asked about or offered: the one held, once committed,
\* and those that are finished.
Askable(c) ==
    \/ reservation.mem = [pending |-> c, step |-> "committed"]
    \/ net[c] = "registered"

OthersFinished ==
    /\ \A j \in jobs : j.kind \in {"poll", "register"} => Askable(j.claim)
    /\ ready # NoClaim => Askable(ready)

\* A registration that has succeeded is that of the claim held.
SuccessIsHeld ==
    \A j \in jobs : j.kind = "register" /\ j.answer = "ok" =>
        /\ reservation.mem = [pending |-> j.claim, step |-> "committed"]
        /\ net[j.claim] = "registered"

\* No two commitments are being broadcast.
OneCommit ==
    \A i, j \in jobs : i.kind = "commit" /\ j.kind = "commit" => i = j

\* The salt of a sent commitment is in memory as well as on disk.
SentHeld ==
    \A c \in Claim : net[c] \in {"sent", "confirmed"} /\ c \notin givenUp =>
        reservation.mem.pending = c /\ reservation.file.pending = c

\* Only what was asked for is on the network, or on its way there.
SentStarted ==
    /\ \A c \in Claim : net[c] # "unsent" => c \in started
    /\ \A j \in jobs : j.kind \in {"reserve", "commit"} => j.claim \in started

IInv ==
    /\ TypeOK
    /\ BuiltAlone
    /\ UnsentUntilRun
    /\ CommitHeld
    /\ OneCommit
    /\ OthersFinished
    /\ SuccessIsHeld
    /\ SentHeld
    /\ SentStarted

-----------------------------------------------------------------------------
(* The reservation's operations *)

LEMMA RecordOrNone ==
    ASSUME NEW r \in Record \cup {NoRecord}
    PROVE  /\ r.pending \in Claim \cup {NoClaim}
           /\ r = NoRecord <=> r.pending = NoClaim
BY ReservationAssumption DEF Record, NoRecord

\* A write that happens brings the file up to memory, one that fails leaves it.
LEMMA PersistedTyped ==
    ASSUME NEW r \in Reservation, NEW rec \in Record \cup {NoRecord},
           NEW wrote \in BOOLEAN
    PROVE  /\ Persisted(r, rec, wrote) \in Reservation
           /\ Persisted(r, rec, wrote).mem = rec
           /\ Persisted(r, rec, wrote).file \in {r.file, rec}
           /\ wrote /\ rec # NoRecord => Persisted(r, rec, wrote).file = rec
           /\ rec = NoRecord => Persisted(r, rec, wrote).file = r.file
BY DEF Persisted, Reservation

LEMMA ReservedEffect ==
    ASSUME NEW r \in Reservation, NEW c \in Claim, NEW wrote \in BOOLEAN
    PROVE  /\ Reserved(r, c, wrote) \in Reservation
           /\ Reserved(r, c, wrote).mem = [pending |-> c, step |-> "reserved"]
           /\ wrote => Reserved(r, c, wrote).file.pending = c
<1> DEFINE rec == [pending |-> c, step |-> "reserved"]
<1>1. /\ rec \in Record /\ rec # NoRecord /\ rec.pending = c
      /\ rec = [pending |-> c, step |-> "reserved"]
  BY ReservationAssumption DEF Record, NoRecord, Step
<1>2. Reserved(r, c, wrote) = Persisted(r, rec, wrote)
  BY DEF Reserved
<1> HIDE DEF rec
<1> QED
  BY <1>1, <1>2, PersistedTyped

\* Of a claim that is held already, the answer to its broadcast changes no salt.
LEMMA CommittedEffect ==
    ASSUME NEW r \in Reservation, NEW c \in Claim,
           NEW w1 \in BOOLEAN, NEW w2 \in BOOLEAN,
           r.mem.pending = c, r.file.pending = c
    PROVE  LET q == MarkedCommitted(Updated(r, c, w1), w2)
           IN  /\ q \in Reservation
               /\ q.mem = [pending |-> c, step |-> "committed"]
               /\ q.file.pending = c
<1>1. r.mem \in Record
  BY RecordOrNone, ReservationAssumption DEF Reservation, NoRecord
<1> DEFINE rec == [r.mem EXCEPT !.pending = c]
           u == Updated(r, c, w1)
           done == [u.mem EXCEPT !.step = "committed"]
           q == MarkedCommitted(u, w2)
<1>2. rec \in Record /\ rec.pending = c /\ r.mem # NoRecord
  BY <1>1, ReservationAssumption DEF Record, NoRecord
<1>3. u = Persisted(r, rec, w1)
  BY <1>2 DEF Updated
<1>4. /\ u \in Reservation
      /\ u.mem = rec
      /\ u.file.pending = c
  <2> HIDE DEF rec, u
  <2> QED
    BY <1>2, <1>3, PersistedTyped
<1>5. u.mem \in Record /\ u.mem.pending = c /\ u.mem # NoRecord
  BY <1>2, <1>4, ReservationAssumption DEF NoRecord
<1>6. done \in Record /\ done = [pending |-> c, step |-> "committed"]
  <2> HIDE DEF u
  <2> QED
    BY <1>5 DEF Record, Step
<1>7. q = Persisted(u, done, w2)
  <2> HIDE DEF u
  <2> QED
    BY <1>5 DEF MarkedCommitted
<1> QED
  <2> HIDE DEF u, done, q
  <2>1. q \in Reservation /\ q.mem = done /\ q.file \in {u.file, done}
    BY <1>4, <1>6, <1>7, PersistedTyped
  <2>2. q.mem = [pending |-> c, step |-> "committed"] /\ q.file.pending = c
    BY <1>4, <1>6, <2>1
  <2> QED
    BY <2>1, <2>2 DEF q, u

LEMMA FinishedEffect ==
    ASSUME NEW r \in Reservation, NEW removed \in BOOLEAN
    PROVE  /\ Finished(r, removed) \in Reservation
           /\ Finished(r, removed).mem = NoRecord
BY DEF Finished, Reservation

-----------------------------------------------------------------------------
LEMMA IInvInit == Init => IInv
<1> SUFFICES ASSUME Init PROVE IInv
  OBVIOUS
<1>1. TypeOK
  <2>1. net \in [Claim -> Fate]
    BY DEF Init, Fate
  <2>2. restarts \in 0 .. MaxRestarts
    BY RegistrationAssumption DEF Init
  <2> QED
    BY <2>1, <2>2 DEF Init, EmptyReservation, TypeOK, Reservation
<1> QED
  BY <1>1, ReservationAssumption
  DEF Init, EmptyReservation, IInv, BuiltAlone, UnsentUntilRun, CommitHeld,
      OneCommit, OthersFinished, Askable, SuccessIsHeld, SentHeld, SentStarted

\* A claim that was never asked for, or never handed over, has no salt to keep.
LEMMA NothingSentUnheld ==
    ASSUME IInv, reservation.mem = NoRecord
    PROVE  \A c \in Claim : net[c] \in {"sent", "confirmed"} => c \in givenUp
BY ReservationAssumption DEF IInv, SentHeld, NoRecord

LEMMA StartPreserves ==
    ASSUME IInv, ~Hasty, NEW c \in Claim, StartRegistration(c)
    PROVE  IInv'
<1> DEFINE j == Dispatched("reserve", c)
<1>1. j \in Job /\ j.kind = "reserve" /\ j.claim = c
  BY DEF Dispatched, Job
<1>2. /\ jobs' = {j}
      /\ reservation.mem = NoRecord
      /\ started' = started \cup {c}
      /\ UNCHANGED <<reservation, ready, inFlight, net, givenUp, restarts>>
  BY DEF StartRegistration, Waited, InProgress
<1>3. net[c] = "unsent"
  BY DEF StartRegistration, IInv, SentStarted
<1> HIDE DEF j
<1>4. TypeOK'
  BY <1>1, <1>2 DEF IInv, TypeOK, Reservation
<1>5. BuiltAlone' /\ UnsentUntilRun' /\ CommitHeld' /\ OneCommit' /\ SuccessIsHeld'
  BY <1>1, <1>2, <1>3 DEF BuiltAlone, UnsentUntilRun, CommitHeld, OneCommit, SuccessIsHeld
<1>6. OthersFinished' /\ SentHeld' /\ SentStarted'
  BY <1>1, <1>2 DEF IInv, OthersFinished, Askable, SentHeld, SentStarted
<1> QED
  BY <1>4, <1>5, <1>6 DEF IInv

\* Dispatching a poll or step two for a claim that is held or finished.
LEMMA AskPreserves ==
    ASSUME IInv,
           NEW kind \in {"poll", "register"}, NEW c \in Claim,
           reservation.mem # NoRecord,
           Askable(c),
           \/ jobs' = jobs
           \/ jobs' = jobs \cup {Dispatched(kind, c)},
           ready' \in {ready, NoClaim}, inFlight' \in BOOLEAN,
           UNCHANGED <<reservation, net, started, givenUp, restarts>>
    PROVE  IInv'
<1> DEFINE j == Dispatched(kind, c)
<1>1. j \in Job /\ j.kind = kind /\ j.claim = c /\ j.answer = "none"
  BY DEF Dispatched, Job
<1>2. jobs' \subseteq jobs \cup {j}
  OBVIOUS
<1> HIDE DEF j
<1>3. TypeOK'
  BY <1>1, <1>2 DEF IInv, TypeOK, Reservation
<1>4. BuiltAlone' /\ UnsentUntilRun' /\ CommitHeld' /\ OneCommit' /\ SuccessIsHeld'
  BY <1>1, <1>2 DEF IInv, BuiltAlone, UnsentUntilRun, CommitHeld, OneCommit, SuccessIsHeld
<1>5. OthersFinished' /\ SentHeld' /\ SentStarted'
  BY <1>1, <1>2 DEF IInv, OthersFinished, Askable, SentHeld, SentStarted
<1> QED
  BY <1>3, <1>4, <1>5 DEF IInv

LEMMA PollPreserves ==
    ASSUME IInv, PollRegistration PROVE IInv'
<1> DEFINE c == reservation.mem.pending
<1>1. reservation.mem # NoRecord /\ reservation.mem \in Record
  BY DEF PollRegistration, InProgress, IInv, TypeOK, Reservation
<1>2. c \in Claim /\ Askable(c)
  BY <1>1 DEF PollRegistration, Askable, Record
<1> QED
  BY <1>1, <1>2, AskPreserves DEF PollRegistration

LEMMA FinishRegistrationPreserves ==
    ASSUME IInv, FinishRegistration PROVE IInv'
<1>1. /\ ready \in Claim
      /\ Askable(ready)
      /\ ready' = NoClaim
      /\ UNCHANGED <<reservation, inFlight, net, started, givenUp, restarts>>
  BY DEF FinishRegistration, IInv, TypeOK, Reservation, OthersFinished
<1>2. CASE /\ InProgress
           /\ jobs' = jobs \cup {Dispatched("register", ready)}
  <2>1. inFlight' \in BOOLEAN
    BY <1>1 DEF IInv, TypeOK, Reservation
  <2> QED
    BY <1>1, <1>2, <2>1, AskPreserves DEF InProgress
<1>3. CASE jobs' = jobs
  <2>1. TypeOK'
    BY <1>1, <1>3 DEF IInv, TypeOK, Reservation
  <2>2. BuiltAlone' /\ UnsentUntilRun' /\ CommitHeld' /\ OneCommit' /\ SuccessIsHeld'
    BY <1>1, <1>3
    DEF IInv, BuiltAlone, UnsentUntilRun, CommitHeld, OneCommit, SuccessIsHeld
  <2>3. OthersFinished' /\ SentHeld' /\ SentStarted'
    BY <1>1, <1>3 DEF IInv, OthersFinished, Askable, SentHeld, SentStarted
  <2> QED
    BY <2>1, <2>2, <2>3 DEF IInv
<1> QED
  BY <1>2, <1>3 DEF FinishRegistration

LEMMA AbandonPreserves ==
    ASSUME IInv, ~Hasty, NEW removed \in BOOLEAN, AbandonRegistration(removed)
    PROVE  IInv'
<1>1. /\ jobs = {} /\ jobs' = {}
      /\ ready' = NoClaim
      /\ reservation' = Finished(reservation, removed)
      /\ givenUp' = givenUp \cup ({reservation.mem.pending} \ {NoClaim})
      /\ UNCHANGED <<inFlight, net, started, restarts>>
  BY DEF AbandonRegistration, Waited
<1>2. /\ reservation' \in Reservation
      /\ reservation.mem.pending \in Claim \cup {NoClaim}
  BY <1>1, FinishedEffect, RecordOrNone DEF IInv, TypeOK, Reservation
<1>3. \A c \in Claim : net[c] \in {"sent", "confirmed"} => c \in givenUp'
  BY <1>1, ReservationAssumption DEF IInv, SentHeld
<1>4. TypeOK'
  BY <1>1, <1>2 DEF IInv, TypeOK, Reservation
<1> QED
  BY <1>1, <1>3, <1>4
  DEF IInv, BuiltAlone, UnsentUntilRun, CommitHeld, OneCommit, OthersFinished, Askable,
      SuccessIsHeld, SentHeld, SentStarted

LEMMA FinishReservedPreserves ==
    ASSUME IInv, NEW j \in jobs, NEW wrote \in BOOLEAN,
           FinishReserved(j, wrote)
    PROVE  IInv'
<1> DEFINE k == Dispatched("commit", j.claim)
<1>1. /\ j \in Job /\ j.claim \in Claim
      /\ k \in Job /\ k.kind = "commit" /\ k.claim = j.claim
  BY DEF IInv, TypeOK, Reservation, Job, Dispatched
<1>2. /\ jobs = {j}
      /\ reservation.mem = NoRecord
      /\ net[j.claim] = "unsent"
  BY DEF IInv, BuiltAlone, UnsentUntilRun, FinishReserved
<1>3. UNCHANGED <<ready, inFlight, net, started, givenUp, restarts>>
  BY DEF FinishReserved
<1>4. CASE j.answer = "error"
  <2>1. jobs' = {} /\ reservation' = reservation
    BY <1>2, <1>4 DEF FinishReserved
  <2> QED
    BY <1>3, <2>1
    DEF IInv, TypeOK, Reservation, BuiltAlone, UnsentUntilRun, CommitHeld, OneCommit, OthersFinished, Askable,
        SuccessIsHeld, SentHeld, SentStarted
<1>5. CASE j.answer # "error"
  <2>1. /\ jobs' = IF wrote THEN {k} ELSE {}
        /\ reservation' = Reserved(reservation, j.claim, wrote)
    BY <1>2, <1>5 DEF FinishReserved
  <2>2. /\ reservation' \in Reservation
        /\ reservation'.mem = [pending |-> j.claim, step |-> "reserved"]
        /\ wrote => reservation'.file.pending = j.claim
    BY <1>1, <2>1, ReservedEffect DEF IInv, TypeOK, Reservation
  <2> HIDE DEF k
  <2>3. TypeOK'
    BY <1>1, <1>3, <2>1, <2>2 DEF IInv, TypeOK, Reservation
  <2>4. BuiltAlone' /\ UnsentUntilRun' /\ CommitHeld' /\ OneCommit' /\ SuccessIsHeld'
    BY <1>1, <1>2, <1>3, <2>1, <2>2
    DEF BuiltAlone, UnsentUntilRun, CommitHeld, OneCommit, SuccessIsHeld
  <2>5. ready # NoClaim => net[ready] = "registered"
    BY <1>2 DEF IInv, OthersFinished, Askable, NoRecord
  <2>6. OthersFinished'
    BY <1>1, <1>3, <2>1, <2>5 DEF OthersFinished, Askable
  <2>7. SentHeld' /\ SentStarted'
    BY <1>1, <1>2, <1>3, <2>1, NothingSentUnheld
    DEF IInv, SentHeld, SentStarted, FinishReserved
  <2> QED
    BY <2>3, <2>4, <2>6, <2>7 DEF IInv
<1> QED
  BY <1>4, <1>5

LEMMA FinishCommittedPreserves ==
    ASSUME IInv, NEW j \in jobs, NEW w1 \in BOOLEAN, NEW w2 \in BOOLEAN,
           FinishCommitted(j, w1, w2)
    PROVE  IInv'
<1>1. /\ j \in Job /\ j.claim \in Claim /\ j.kind = "commit"
      /\ reservation.mem = [pending |-> j.claim, step |-> "reserved"]
      /\ reservation.file.pending = j.claim
  BY DEF FinishCommitted, IInv, TypeOK, Reservation, Job, CommitHeld
<1>2. /\ reservation' \in Reservation
      /\ reservation'.mem = [pending |-> j.claim, step |-> "committed"]
      /\ reservation'.file.pending = j.claim
  BY <1>1, CommittedEffect DEF FinishCommitted, IInv, TypeOK, Reservation
<1>3. /\ jobs' = jobs \ {j}
      /\ UNCHANGED <<ready, inFlight, net, started, givenUp, restarts>>
  BY DEF FinishCommitted
<1>4. TypeOK'
  BY <1>2, <1>3 DEF IInv, TypeOK, Reservation
<1>5. /\ \A i \in jobs : i.kind # "reserve"
      /\ \A i \in jobs \ {j} : i.kind # "commit"
      /\ \A i \in jobs : ~(i.kind = "register" /\ i.answer = "ok")
  <2>1. reservation.mem.step # "committed"
    BY <1>1
  <2>2. ASSUME NEW i \in jobs, i.kind = "register", i.answer = "ok"
        PROVE  FALSE
    <3>1. reservation.mem = [pending |-> i.claim, step |-> "committed"]
      BY <2>2 DEF IInv, SuccessIsHeld
    <3> QED
      BY <2>1, <3>1
  <2> QED
    BY <1>1, <2>2 DEF IInv, BuiltAlone, OneCommit
<1>6. BuiltAlone' /\ UnsentUntilRun' /\ CommitHeld' /\ OneCommit' /\ SuccessIsHeld'
  BY <1>1, <1>2, <1>3, <1>5
  DEF IInv, BuiltAlone, UnsentUntilRun, CommitHeld, OneCommit, SuccessIsHeld
<1>7. OthersFinished' /\ SentHeld' /\ SentStarted'
  BY <1>1, <1>2, <1>3 DEF IInv, OthersFinished, Askable, SentHeld, SentStarted
<1> QED
  BY <1>4, <1>6, <1>7 DEF IInv

LEMMA FinishPollPreserves ==
    ASSUME IInv, NEW j \in jobs, FinishPoll(j)
    PROVE  IInv'
<1>1. /\ j \in Job /\ j.claim \in Claim /\ j.kind = "poll"
      /\ Askable(j.claim)
  BY DEF FinishPoll, IInv, TypeOK, Reservation, Job, OthersFinished
<1>2. /\ jobs' = jobs \ {j}
      /\ ready' \in {ready, j.claim}
      /\ inFlight' = FALSE
      /\ UNCHANGED <<reservation, net, started, givenUp, restarts>>
  BY DEF FinishPoll
<1>3. TypeOK'
  BY <1>1, <1>2 DEF IInv, TypeOK, Reservation
<1>4. BuiltAlone' /\ UnsentUntilRun' /\ CommitHeld' /\ OneCommit' /\ SuccessIsHeld'
  BY <1>2 DEF IInv, BuiltAlone, UnsentUntilRun, CommitHeld, OneCommit, SuccessIsHeld
<1>5. OthersFinished' /\ SentHeld' /\ SentStarted'
  BY <1>1, <1>2 DEF IInv, OthersFinished, Askable, SentHeld, SentStarted
<1> QED
  BY <1>3, <1>4, <1>5 DEF IInv

LEMMA FinishRegisteredPreserves ==
    ASSUME IInv, NEW j \in jobs, NEW removed \in BOOLEAN,
           FinishRegistered(j, removed)
    PROVE  IInv'
<1>1. /\ j \in Job /\ j.claim \in Claim /\ j.kind = "register"
      /\ jobs' = jobs \ {j}
      /\ UNCHANGED <<ready, inFlight, net, started, givenUp, restarts>>
  BY DEF FinishRegistered, IInv, TypeOK, Reservation, Job
<1>2. CASE j.answer # "ok"
  <2>1. reservation' = reservation
    BY <1>2 DEF FinishRegistered
  <2> QED
    BY <1>1, <2>1
    DEF IInv, TypeOK, Reservation, BuiltAlone, UnsentUntilRun, CommitHeld, OneCommit, OthersFinished, Askable,
        SuccessIsHeld, SentHeld, SentStarted
<1>3. CASE j.answer = "ok"
  <2>1. /\ reservation' = Finished(reservation, removed)
        /\ reservation.mem = [pending |-> j.claim, step |-> "committed"]
        /\ net[j.claim] = "registered"
    BY <1>1, <1>3 DEF FinishRegistered, IInv, SuccessIsHeld
  <2>2. reservation' \in Reservation /\ reservation'.mem = NoRecord
    BY <2>1, FinishedEffect DEF IInv, TypeOK, Reservation
  <2>3. TypeOK'
    BY <1>1, <2>2 DEF IInv, TypeOK, Reservation
  <2>4. \A i \in jobs : i.kind # "reserve"
    BY <1>1 DEF IInv, BuiltAlone
  <2>5. \A i \in jobs : i.kind # "commit"
    <3> SUFFICES ASSUME NEW i \in jobs, i.kind = "commit" PROVE FALSE
      OBVIOUS
    <3>1. reservation.mem = [pending |-> i.claim, step |-> "reserved"]
      BY DEF IInv, CommitHeld
    <3>2. reservation.mem.step = "reserved" /\ reservation.mem.step = "committed"
      BY <2>1, <3>1
    <3> QED
      BY <3>2
  <2>6. \A i \in jobs' : ~(i.kind = "register" /\ i.answer = "ok")
    <3> SUFFICES ASSUME NEW i \in jobs, i.kind = "register", i.answer = "ok"
                 PROVE  i = j
      BY <1>1
    <3>1. reservation.mem = [pending |-> i.claim, step |-> "committed"]
      BY DEF IInv, SuccessIsHeld
    <3>2. i \in Job /\ i.claim = reservation.mem.pending /\ j.claim = reservation.mem.pending
      BY <2>1, <3>1 DEF IInv, TypeOK, Reservation
    <3> QED
      BY <1>1, <1>3, <3>2 DEF Job
  <2>7. \A c \in Claim : Askable(c) => net[c] = "registered"
    BY <2>1 DEF Askable
  <2>8. BuiltAlone' /\ UnsentUntilRun' /\ CommitHeld' /\ OneCommit' /\ SuccessIsHeld'
    BY <1>1, <2>4, <2>5, <2>6
    DEF BuiltAlone, UnsentUntilRun, CommitHeld, OneCommit, SuccessIsHeld
  <2>9. OthersFinished'
    <3>1. \A i \in jobs : i.claim \in Claim
      BY DEF IInv, TypeOK, Reservation, Job
    <3>2. ready # NoClaim => ready \in Claim
      BY DEF IInv, TypeOK, Reservation
    <3> QED
      BY <1>1, <2>7, <3>1, <3>2 DEF IInv, OthersFinished, Askable
  <2>10. \A c \in Claim : net[c] \in {"sent", "confirmed"} => c \in givenUp
    BY <2>1 DEF IInv, SentHeld
  <2>11. SentHeld' /\ SentStarted'
    BY <1>1, <2>10 DEF IInv, SentHeld, SentStarted
  <2> QED
    BY <2>3, <2>8, <2>9, <2>11 DEF IInv
<1> QED
  BY <1>2, <1>3
-----------------------------------------------------------------------------
(* Workers, the process and the network *)

\* An answered job is the job it was, with its answer.
LEMMA AnsweredEffect ==
    ASSUME TypeOK, NEW j \in jobs, NEW a \in {"ok", "error"}, Answered(j, a)
    PROVE  \E k \in Job :
               /\ jobs' = (jobs \ {j}) \cup {k}
               /\ k.kind = j.kind /\ k.claim = j.claim /\ k.answer = a
<1>1. j \in Job
  BY DEF TypeOK, Reservation
<1> DEFINE k == [j EXCEPT !.answer = a]
<1>2. k \in Job /\ k.kind = j.kind /\ k.claim = j.claim /\ k.answer = a
  BY <1>1 DEF Job
<1> QED
  BY <1>2 DEF Answered

LEMMA RunReservePreserves ==
    ASSUME IInv, NEW j \in jobs, NEW a \in {"ok", "error"},
           RunReserve(j, a),
           UNCHANGED <<reservation, ready, inFlight, started, givenUp, restarts>>
    PROVE  IInv'
<1>1. PICK k \in Job :
          /\ jobs' = (jobs \ {j}) \cup {k}
          /\ k.kind = j.kind /\ k.claim = j.claim /\ k.answer = a
  BY AnsweredEffect DEF IInv, RunReserve
<1>2. jobs = {j} /\ jobs' = {k} /\ j.kind = "reserve" /\ net' = net
  BY <1>1 DEF IInv, BuiltAlone, RunReserve
<1>3. TypeOK'
  BY <1>1, <1>2 DEF IInv, TypeOK, Reservation
<1>4. BuiltAlone' /\ UnsentUntilRun' /\ CommitHeld' /\ OneCommit' /\ SuccessIsHeld'
  BY <1>1, <1>2
  DEF IInv, BuiltAlone, UnsentUntilRun, CommitHeld, OneCommit, SuccessIsHeld
<1>5. OthersFinished' /\ SentHeld' /\ SentStarted'
  BY <1>1, <1>2 DEF IInv, OthersFinished, Askable, SentHeld, SentStarted
<1> QED
  BY <1>3, <1>4, <1>5 DEF IInv

\* The commitment arrives only now, with its salt held.
LEMMA RunCommitPreserves ==
    ASSUME IInv, NEW j \in jobs, NEW a \in {"ok", "error"},
           j.answer = "none", RunCommit(j, a),
           UNCHANGED <<reservation, ready, inFlight, started, givenUp, restarts>>
    PROVE  IInv'
<1>1. PICK k \in Job :
          /\ jobs' = (jobs \ {j}) \cup {k}
          /\ k.kind = j.kind /\ k.claim = j.claim /\ k.answer = a
  BY AnsweredEffect DEF IInv, RunCommit
<1>2. /\ j.kind = "commit" /\ j.claim \in Claim /\ j.claim \in started
      /\ reservation.mem.pending = j.claim
      /\ reservation.file.pending = j.claim
      /\ net[j.claim] = "unsent"
  <2>1. j.kind = "commit" /\ j \in Job
    BY DEF RunCommit, IInv, TypeOK, Reservation
  <2>2. /\ reservation.mem = [pending |-> j.claim, step |-> "reserved"]
        /\ reservation.file.pending = j.claim
    BY <2>1 DEF IInv, CommitHeld
  <2> QED
    BY <2>1, <2>2 DEF IInv, Job, UnsentUntilRun, SentStarted
<1>3. /\ net' \in [Claim -> Fate]
      /\ \A c \in Claim : c # j.claim => net'[c] = net[c]
  BY <1>2 DEF RunCommit, IInv, TypeOK, Reservation, Fate
<1>4. \A i \in jobs' : i # k => i \in jobs /\ i.kind \notin {"reserve", "commit"}
  BY <1>1, <1>2 DEF IInv, BuiltAlone, OneCommit
<1>5. TypeOK'
  BY <1>1, <1>3 DEF IInv, TypeOK, Reservation
<1>6. BuiltAlone' /\ UnsentUntilRun' /\ OneCommit'
  BY <1>1, <1>2, <1>4 DEF BuiltAlone, UnsentUntilRun, OneCommit
<1>7. CommitHeld'
  BY <1>1, <1>2, <1>4 DEF IInv, CommitHeld
<1>8. \A c \in Claim : net[c] = "registered" => net'[c] = "registered"
  BY <1>2, <1>3
<1>9. OthersFinished' /\ SuccessIsHeld'
  <2>1. \A i \in jobs : i.claim \in Claim
    BY DEF IInv, TypeOK, Reservation, Job
  <2>2. ready # NoClaim => ready \in Claim
    BY DEF IInv, TypeOK, Reservation
  <2> QED
    BY <1>1, <1>2, <1>4, <1>8, <2>1, <2>2
    DEF IInv, OthersFinished, Askable, SuccessIsHeld
<1>10. SentHeld' /\ SentStarted'
  BY <1>1, <1>2, <1>3, <1>4 DEF IInv, SentHeld, SentStarted
<1> QED
  BY <1>5, <1>6, <1>7, <1>9, <1>10 DEF IInv

LEMMA RunPollPreserves ==
    ASSUME IInv, NEW j \in jobs, NEW a \in {"ok", "error"}, RunPoll(j, a),
           UNCHANGED <<reservation, ready, inFlight, started, givenUp, restarts>>
    PROVE  IInv'
<1>1. PICK k \in Job :
          /\ jobs' = (jobs \ {j}) \cup {k}
          /\ k.kind = j.kind /\ k.claim = j.claim /\ k.answer = a
  BY AnsweredEffect DEF IInv, RunPoll
<1>2. j.kind = "poll" /\ net' = net
  BY DEF RunPoll
<1>3. \A i \in jobs' : i # k => i \in jobs
  BY <1>1
<1>4. TypeOK'
  BY <1>1, <1>2 DEF IInv, TypeOK, Reservation
<1>5. BuiltAlone' /\ UnsentUntilRun' /\ CommitHeld' /\ OneCommit' /\ SuccessIsHeld'
  BY <1>1, <1>2, <1>3
  DEF IInv, BuiltAlone, UnsentUntilRun, CommitHeld, OneCommit, SuccessIsHeld
<1>6. OthersFinished' /\ SentHeld' /\ SentStarted'
  BY <1>1, <1>2, <1>3
  DEF IInv, OthersFinished, Askable, SentHeld, SentStarted
<1> QED
  BY <1>4, <1>5, <1>6 DEF IInv

\* A claim that registers only now was confirmed, so it is the one held.
LEMMA RunRegisterPreserves ==
    ASSUME IInv, NEW j \in jobs, NEW a \in {"ok", "error"}, RunRegister(j, a),
           UNCHANGED <<reservation, ready, inFlight, started, givenUp, restarts>>
    PROVE  IInv'
<1>1. PICK k \in Job :
          /\ jobs' = (jobs \ {j}) \cup {k}
          /\ k.kind = j.kind /\ k.claim = j.claim /\ k.answer = a
  BY AnsweredEffect DEF IInv, RunRegister
<1>2. j.kind = "register" /\ j.claim \in Claim /\ Askable(j.claim)
  BY DEF RunRegister, IInv, TypeOK, Reservation, Job, OthersFinished
<1>3. \A i \in jobs' : i # k => i \in jobs
  BY <1>1
<1>4. \A i \in jobs : i.claim \in Claim
  BY DEF IInv, TypeOK, Reservation, Job
<1>5. /\ net' \in [Claim -> Fate]
      /\ \A c \in Claim : net'[c] # net[c] =>
             c = j.claim /\ net[c] = "confirmed" /\ net'[c] = "registered"
  BY <1>2 DEF RunRegister, IInv, TypeOK, Reservation, Fate
<1>6. a = "ok" => /\ net[j.claim] = "confirmed"
                  /\ net'[j.claim] = "registered"
  BY <1>2 DEF RunRegister, IInv, TypeOK, Reservation
<1>7. TypeOK'
  BY <1>1, <1>5 DEF IInv, TypeOK, Reservation
<1>8. BuiltAlone' /\ CommitHeld' /\ OneCommit'
  BY <1>1, <1>2, <1>3 DEF IInv, BuiltAlone, CommitHeld, OneCommit
<1>9. UnsentUntilRun'
  BY <1>1, <1>2, <1>3, <1>4, <1>5 DEF IInv, UnsentUntilRun
<1>10. SuccessIsHeld'
  <2>1. a = "ok" => reservation.mem = [pending |-> j.claim, step |-> "committed"]
    BY <1>2, <1>6 DEF Askable
  <2>2. \A c \in Claim : net[c] = "registered" => net'[c] = "registered"
    BY <1>5
  <2> QED
    BY <1>1, <1>3, <1>4, <1>6, <2>1, <2>2 DEF IInv, SuccessIsHeld
<1>11. OthersFinished'
  <2>1. ready # NoClaim => ready \in Claim
    BY DEF IInv, TypeOK, Reservation
  <2>2. \A c \in Claim : net[c] = "registered" => net'[c] = "registered"
    BY <1>5
  <2> QED
    BY <1>1, <1>2, <1>3, <1>4, <2>1, <2>2 DEF IInv, OthersFinished, Askable
<1>12. SentHeld' /\ SentStarted'
  <2>1. SentHeld'
    BY <1>5 DEF IInv, SentHeld
  <2>2. SentStarted'
    BY <1>1, <1>2, <1>3, <1>5 DEF IInv, SentStarted
  <2> QED
    BY <2>1, <2>2
<1> QED
  BY <1>7, <1>8, <1>9, <1>10, <1>11, <1>12 DEF IInv

LEMMA PanicPreserves ==
    ASSUME IInv, NEW j \in jobs, Panic(j) PROVE IInv'
<1>1. /\ jobs' \subseteq jobs
      /\ UNCHANGED <<reservation, ready, inFlight, net, started, givenUp, restarts>>
  BY DEF Panic
<1>2. TypeOK'
  BY <1>1 DEF IInv, TypeOK, Reservation
<1>3. BuiltAlone' /\ UnsentUntilRun' /\ CommitHeld' /\ OneCommit' /\ SuccessIsHeld'
  BY <1>1
  DEF IInv, Panic, BuiltAlone, UnsentUntilRun, CommitHeld, OneCommit, SuccessIsHeld
<1>4. OthersFinished' /\ SentHeld' /\ SentStarted'
  BY <1>1 DEF IInv, OthersFinished, Askable, SentHeld, SentStarted
<1> QED
  BY <1>2, <1>3, <1>4 DEF IInv

\* What the file kept is what the process finds.
LEMMA RestartPreserves ==
    ASSUME IInv, Restart PROVE IInv'
<1>1. /\ jobs' = {} /\ ready' = NoClaim /\ inFlight' = FALSE
      /\ restarts' \in 0 .. MaxRestarts
      /\ UNCHANGED <<net, started, givenUp>>
  BY RegistrationAssumption DEF Restart, Reopened, IInv, TypeOK, Reservation
<1>2. /\ reservation' \in Reservation
      /\ reservation'.mem = reservation.file
      /\ reservation'.file = reservation.file
  BY DEF Restart, Reopened, IInv, TypeOK, Reservation
<1>3. TypeOK'
  BY <1>1, <1>2 DEF IInv, TypeOK, Reservation
<1>4. BuiltAlone' /\ UnsentUntilRun' /\ CommitHeld' /\ OneCommit' /\ SuccessIsHeld'
  BY <1>1 DEF BuiltAlone, UnsentUntilRun, CommitHeld, OneCommit, SuccessIsHeld
<1>5. OthersFinished' /\ SentHeld' /\ SentStarted'
  BY <1>1, <1>2 DEF IInv, OthersFinished, Askable, SentHeld, SentStarted
<1> QED
  BY <1>3, <1>4, <1>5 DEF IInv

LEMMA MinedPreserves ==
    ASSUME IInv, NEW c \in Claim, NEW fate \in Fate, Mined(c, fate)
    PROVE  IInv'
<1>1. /\ net' = [net EXCEPT ![c] = fate]
      /\ net[c] \in {"sent", "confirmed"}
      /\ fate \in {"sent", "confirmed", "expired"}
      /\ UNCHANGED <<reservation, ready, inFlight, jobs, started, givenUp, restarts>>
  BY DEF Mined
<1>2. /\ net' \in [Claim -> Fate]
      /\ \A d \in Claim : net[d] = "registered" => net'[d] = "registered"
      /\ \A d \in Claim : net[d] = "unsent" <=> net'[d] = "unsent"
      /\ \A d \in Claim : net'[d] \in {"sent", "confirmed"}
                              => net[d] \in {"sent", "confirmed"}
  BY <1>1 DEF IInv, TypeOK, Reservation
<1>3. /\ \A i \in jobs : i.claim \in Claim
      /\ ready # NoClaim => ready \in Claim
  BY DEF IInv, TypeOK, Reservation, Job
<1>4. TypeOK'
  BY <1>1, <1>2 DEF IInv, TypeOK, Reservation
<1>5. BuiltAlone' /\ UnsentUntilRun' /\ CommitHeld' /\ OneCommit' /\ SuccessIsHeld'
  BY <1>1, <1>2, <1>3
  DEF IInv, BuiltAlone, UnsentUntilRun, CommitHeld, OneCommit, SuccessIsHeld
<1>6. OthersFinished' /\ SentHeld' /\ SentStarted'
  BY <1>1, <1>2, <1>3
  DEF IInv, OthersFinished, Askable, SentHeld, SentStarted
<1> QED
  BY <1>4, <1>5, <1>6 DEF IInv

-----------------------------------------------------------------------------
LEMMA FinishPreserves ==
    ASSUME IInv, NEW j \in jobs, Finish(j) PROVE IInv'
<1>1. Write \subseteq BOOLEAN
  BY DEF Write
<1>2. CASE FinishPoll(j)
  BY <1>2, FinishPollPreserves
<1>3. CASE \E w1 \in Write : FinishReserved(j, w1)
  BY <1>1, <1>3, FinishReservedPreserves
<1>4. CASE \E w1 \in Write : FinishRegistered(j, w1)
  BY <1>1, <1>4, FinishRegisteredPreserves
<1>5. CASE \E w1 \in Write, w2 \in Write : FinishCommitted(j, w1, w2)
  BY <1>1, <1>5, FinishCommittedPreserves
<1> QED
  BY <1>2, <1>3, <1>4, <1>5 DEF Finish

LEMMA RunPreserves ==
    ASSUME IInv, NEW j \in jobs, NEW a \in {"ok", "error"}, Run(j, a)
    PROVE  IInv'
BY RunReservePreserves, RunCommitPreserves, RunPollPreserves,
   RunRegisterPreserves DEF Run

LEMMA IInvNext == ASSUME IInv, ~Hasty, [Next]_vars PROVE IInv'
<1>1. ASSUME NEW c \in Claim, StartRegistration(c) PROVE IInv'
  BY <1>1, StartPreserves
<1>2. CASE FinishRegistration
  BY <1>2, FinishRegistrationPreserves
<1>3. ASSUME NEW removed \in Write, AbandonRegistration(removed) PROVE IInv'
  <2>1. removed \in BOOLEAN
    BY <1>3 DEF Write
  <2> QED
    BY <1>3, <2>1, AbandonPreserves
<1>4. CASE PollRegistration
  BY <1>4, PollPreserves
<1>5. ASSUME NEW j \in jobs, Finish(j) PROVE IInv'
  BY <1>5, FinishPreserves
<1>6. ASSUME NEW j \in jobs, Panic(j) PROVE IInv'
  BY <1>6, PanicPreserves
<1>7. ASSUME NEW j \in jobs, NEW a \in {"ok", "error"}, Run(j, a) PROVE IInv'
  BY <1>7, RunPreserves
<1>8. CASE Restart
  BY <1>8, RestartPreserves
<1>9. ASSUME NEW c \in Claim, NEW fate \in Fate, Mined(c, fate) PROVE IInv'
  BY <1>9, MinedPreserves
<1>10. CASE UNCHANGED vars
  BY <1>10
  DEF vars, IInv, TypeOK, Reservation, BuiltAlone, UnsentUntilRun, CommitHeld, OneCommit,
      OthersFinished, Askable, SuccessIsHeld, SentHeld, SentStarted
<1> QED
  BY <1>1, <1>2, <1>3, <1>4, <1>5, <1>6, <1>7, <1>8, <1>9, <1>10 DEF Next

\* Someone who starts and abandons claims only when nothing is out pays no fee
\* for nothing: whatever write fails, worker panics, process dies or block is
\* reorganised away, the salt of a commitment that may be on the network is in
\* the file until the name is registered or the user gave it up.
THEOREM SaltStaysKept ==
    ASSUME ~Hasty PROVE Spec => []SaltKept
<1>1. Init => IInv
  BY IInvInit
<1>2. IInv /\ [Next]_vars => IInv'
  BY IInvNext
<1>3. IInv => SaltKept
  BY DEF IInv, SentHeld, SaltKept
<1> QED
  BY <1>1, <1>2, <1>3, PTL DEF Spec

\* One broadcast of a commitment at a time, and only of the claim whose salt is
\* held: start_registration builds alone, finish_reserved replaces the build by
\* the broadcast, and nothing starts or abandons before its answer is taken.
THEOREM CommitmentsHeld ==
    ASSUME ~Hasty PROVE Spec => [](CommitHeld /\ OneCommit)
<1>1. Init => IInv
  BY IInvInit
<1>2. IInv /\ [Next]_vars => IInv'
  BY IInvNext
<1>3. IInv => CommitHeld /\ OneCommit
  BY DEF IInv
<1> QED
  BY <1>1, <1>2, <1>3, PTL DEF Spec

\* Every reachable state of a registration is well formed for someone who starts
\* and abandons claims only when nothing is out: which record answers, which
\* poll, which worker, after any failed write, panic, restart or reorganisation.
THEOREM TypeCorrect ==
    ASSUME ~Hasty PROVE Spec => []TypeOK
<1>1. Init => IInv
  BY IInvInit
<1>2. IInv /\ [Next]_vars => IInv'
  BY IInvNext
<1>3. IInv => TypeOK
  BY DEF IInv
<1> QED
  BY <1>1, <1>2, <1>3, PTL DEF Spec
=============================================================================
