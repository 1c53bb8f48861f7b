------------------------ MODULE PendingLedgerProofs ------------------------
(* Proofs about PendingLedger, for any set of transactions and any bounds.  *)
EXTENDS PendingLedger, LedgerOpsProofs, TLAPS

-----------------------------------------------------------------------------
(* Type correctness and the ids *)

\* The part of the ids a reopening depends on: none beyond the bound, so that
\* the largest exists.
IdsBounded ==
    /\ \A r \in ledger.mem : r.id < ledger.next /\ r.id <= MaxId
    /\ \A r \in ledger.file.records : r.id <= MaxId
    /\ ledger.next <= MaxId + 1

\* Inductive for TypeOK and IdsUnique together.
Inv == TypeOK /\ IdsBounded /\ IdsUnique

LEMMA InvInit == Init => Inv
<1> SUFFICES ASSUME Init PROVE Inv
  OBVIOUS
<1>1. EmptyFile \in File /\ EmptyFile.records = {}
  BY DEF EmptyFile, File
<1>2. ledger = Opened(EmptyFile)
  BY DEF Init
<1>3. /\ ledger \in Ledger
      /\ ledger.file = EmptyFile
      /\ ledger.mem = {}
      /\ ledger.next <= MaxId + 1
  BY <1>1, <1>2, MaxIdAssumption, OpenedFresh
<1> QED
  BY <1>1, <1>3, MaxIdAssumption DEF Init, Inv, TypeOK, IdsBounded, IdsUnique

\* A write, succeeded or not, keeps the ids of the file unique and bounded when
\* those of memory are.
LEMMA WriteKeepsIds ==
    ASSUME Inv,
           ledger' \in Ledger,
           \A r \in ledger'.mem : r.id < ledger'.next /\ r.id <= MaxId,
           \A r, q \in ledger'.mem : r.id = q.id => r = q,
           ledger'.next <= MaxId + 1,
           \/ ledger'.file = [readable |-> TRUE, records |-> ledger'.mem]
           \/ ledger'.file = ledger.file
    PROVE  IdsBounded' /\ IdsUnique'
BY DEF Inv, IdsBounded, IdsUnique

LEMMA InvNext == Inv /\ [Next]_vars => Inv'
<1> SUFFICES ASSUME Inv, [Next]_vars PROVE Inv'
  OBVIOUS
<1> USE MaxIdAssumption
<1>0. /\ ledger \in Ledger
      /\ up \in BOOLEAN
      /\ owed \subseteq Promise
      /\ ledger.mem \subseteq Record
      /\ ledger.next \in Nat \ {0}
      /\ ledger.file \in File
      /\ \A r \in Record : r.id \in Nat \ {0} /\ r.tx \in Tx
  BY DEF Inv, TypeOK, Ledger, Record
<1>1. ASSUME NEW wrote \in Write, NEW t \in Tx, Commit(t, wrote) PROVE Inv'
  <2> DEFINE new == [id |-> ledger.next, tx |-> t, checks |-> 0,
                     state |-> "uncertain"]
  <2>1. wrote \in BOOLEAN
    BY SwitchesAssumption DEF Write
  <2>2. ledger' = Committed(ledger, t, wrote) /\ ledger.next <= MaxId
    BY <1>1 DEF Commit
  <2>3. ledger' \in Ledger
    BY <1>0, <2>1, <2>2, OperationsTyped
  <2>4. /\ ledger'.mem = ledger.mem \cup {new}
        /\ ledger'.next = ledger.next + 1
        /\ \/ ledger'.file = [readable |-> TRUE, records |-> ledger'.mem]
           \/ ledger'.file = ledger.file
    BY <1>0, <2>1, <2>2, CommittedEffect
  <2>5. new.id = ledger.next
    OBVIOUS
  <2> HIDE DEF new
  <2>6. \A r \in ledger.mem : r.id # new.id
    BY <1>0, <2>5 DEF Inv, IdsBounded
  <2>7. /\ \A r \in ledger'.mem : r.id < ledger'.next /\ r.id <= MaxId
        /\ ledger'.next <= MaxId + 1
    BY <1>0, <2>2, <2>4, <2>5 DEF Inv, IdsBounded
  <2>8. \A r, q \in ledger'.mem : r.id = q.id => r = q
    BY <2>4, <2>6 DEF Inv, IdsUnique
  <2>9. IdsBounded' /\ IdsUnique'
    BY <2>3, <2>4, <2>7, <2>8, WriteKeepsIds
  <2>10. owed' \subseteq Promise /\ up' \in BOOLEAN
    BY <1>0, <1>1 DEF Commit, Promise
  <2> QED
    BY <2>3, <2>9, <2>10 DEF Inv, TypeOK
<1>2. ASSUME NEW wrote \in Write, NEW id \in 1 .. MaxId, NEW s \in State,
             SetState(id, s, wrote)
      PROVE  Inv'
  <2> DEFINE F(r) == IF r.id = id THEN [r EXCEPT !.state = s] ELSE r
  <2>1. wrote \in BOOLEAN /\ id \in Nat
    <3>1. wrote \in BOOLEAN
      BY SwitchesAssumption DEF Write
    <3>2. id \in Nat
      OBVIOUS
    <3> QED
      BY <3>1, <3>2
  <2>2. ledger' = StateSet(ledger, id, s, wrote)
    BY <1>2 DEF SetState
  <2>3. ledger' \in Ledger
    BY <1>0, <2>1, <2>2, OperationsTyped
  <2>4. /\ ledger'.mem = {F(r) : r \in ledger.mem}
        /\ ledger'.next = ledger.next
        /\ \/ ledger'.file = [readable |-> TRUE, records |-> ledger'.mem]
           \/ ledger'.file = ledger.file
    BY <1>0, <2>1, <2>2, StateSetEffect
  <2>5. \A r \in ledger.mem : F(r).id = r.id
    BY <1>0 DEF Record
  <2> HIDE DEF F
  <2>6. /\ \A r \in ledger'.mem : r.id < ledger'.next /\ r.id <= MaxId
        /\ ledger'.next <= MaxId + 1
    BY <1>0, <2>4, <2>5 DEF Inv, IdsBounded
  <2>7. \A r, q \in ledger'.mem : r.id = q.id => r = q
    BY <1>0, <2>4, <2>5 DEF Inv, IdsUnique
  <2>8. IdsBounded' /\ IdsUnique'
    BY <2>3, <2>4, <2>6, <2>7, WriteKeepsIds
  <2>9. owed' \subseteq Promise /\ up' \in BOOLEAN
    BY <1>0, <1>2 DEF SetState
  <2> QED
    BY <2>3, <2>8, <2>9 DEF Inv, TypeOK
<1>3. ASSUME NEW wrote \in Write, NEW id \in 1 .. MaxId, NoteCheck(id, wrote)
      PROVE  Inv'
  <2> DEFINE F(r) == IF r.id = id /\ r.checks < AbsentAfter
                     THEN [r EXCEPT !.checks = @ + 1] ELSE r
  <2>1. wrote \in BOOLEAN /\ id \in Nat
    <3>1. wrote \in BOOLEAN
      BY SwitchesAssumption DEF Write
    <3>2. id \in Nat
      OBVIOUS
    <3> QED
      BY <3>1, <3>2
  <2>2. ledger' = CheckNoted(ledger, id, wrote)
    BY <1>3 DEF NoteCheck
  <2>3. ledger' \in Ledger
    BY <1>0, <2>1, <2>2, OperationsTyped
  <2>4. /\ ledger'.mem = {F(r) : r \in ledger.mem}
        /\ ledger'.next = ledger.next
        /\ \/ ledger'.file = [readable |-> TRUE, records |-> ledger'.mem]
           \/ ledger'.file = ledger.file
    BY <1>0, <2>1, <2>2, CheckNotedEffect
  <2>5. \A r \in ledger.mem : F(r).id = r.id
    BY <1>0 DEF Record
  <2> HIDE DEF F
  <2>6. /\ \A r \in ledger'.mem : r.id < ledger'.next /\ r.id <= MaxId
        /\ ledger'.next <= MaxId + 1
    BY <1>0, <2>4, <2>5 DEF Inv, IdsBounded
  <2>7. \A r, q \in ledger'.mem : r.id = q.id => r = q
    BY <1>0, <2>4, <2>5 DEF Inv, IdsUnique
  <2>8. IdsBounded' /\ IdsUnique'
    BY <2>3, <2>4, <2>6, <2>7, WriteKeepsIds
  <2>9. owed' \subseteq Promise /\ up' \in BOOLEAN
    BY <1>0, <1>3 DEF NoteCheck
  <2> QED
    BY <2>3, <2>8, <2>9 DEF Inv, TypeOK
<1>4. ASSUME NEW wrote \in Write, ForgetConfirmed(wrote) PROVE Inv'
  <2>1. wrote \in BOOLEAN
    BY SwitchesAssumption DEF Write
  <2>2. ledger' = ConfirmedForgotten(ledger, wrote)
    BY <1>4 DEF ForgetConfirmed
  <2>3. ledger' \in Ledger
    BY <1>0, <2>1, <2>2, OperationsTyped
  <2>4. /\ ledger'.mem \subseteq ledger.mem
        /\ ledger'.next = ledger.next
        /\ \/ ledger'.file = [readable |-> TRUE, records |-> ledger'.mem]
           \/ ledger'.file = ledger.file
    BY <1>0, <2>1, <2>2, ConfirmedForgottenEffect
  <2>5. /\ \A r \in ledger'.mem : r.id < ledger'.next /\ r.id <= MaxId
        /\ ledger'.next <= MaxId + 1
        /\ \A r, q \in ledger'.mem : r.id = q.id => r = q
    BY <2>4 DEF Inv, IdsBounded, IdsUnique
  <2>6. IdsBounded' /\ IdsUnique'
    BY <2>3, <2>4, <2>5, WriteKeepsIds
  <2>7. owed' \subseteq Promise /\ up' \in BOOLEAN
    BY <1>0, <1>4 DEF ForgetConfirmed
  <2> QED
    BY <2>3, <2>6, <2>7 DEF Inv, TypeOK
<1>5. ASSUME Crash PROVE Inv'
  <2>1. /\ ledger' \in Ledger
        /\ ledger'.mem = {}
        /\ ledger'.file = ledger.file
        /\ ledger'.next = 1
    BY <1>0, <1>5 DEF Crash, Ledger
  <2>2. IdsBounded' /\ IdsUnique'
    BY <2>1 DEF Inv, IdsBounded, IdsUnique
  <2>3. owed' \subseteq Promise /\ up' \in BOOLEAN
    BY <1>0, <1>5 DEF Crash
  <2> QED
    BY <2>1, <2>2, <2>3 DEF Inv, TypeOK
<1>6. ASSUME Open PROVE Inv'
  <2>1. \A r \in ledger.file.records : r.id <= MaxId
    BY DEF Inv, IdsBounded
  <2>2. ledger' = Opened(ledger.file)
    BY <1>6 DEF Open
  <2>3. /\ ledger' \in Ledger
        /\ ledger'.file = ledger.file
        /\ ledger'.mem \subseteq ledger.file.records
        /\ ledger'.next <= MaxId + 1
        /\ \A r \in ledger'.mem : r.id < ledger'.next
    BY <1>0, <2>1, <2>2, MaxIdAssumption, OpenedFresh
  <2> QED
    BY <1>0, <1>6, <2>1, <2>3 DEF Open, Inv, TypeOK, IdsBounded, IdsUnique
<1>7. ASSUME FileDamaged PROVE Inv'
  <2>1. /\ ledger' \in Ledger
        /\ ledger'.mem = ledger.mem
        /\ ledger'.file.records = ledger.file.records
        /\ ledger'.next = ledger.next
    BY <1>0, <1>7 DEF FileDamaged, Ledger, File
  <2> QED
    BY <1>0, <1>7, <2>1
    DEF FileDamaged, Promise, Inv, TypeOK, IdsBounded, IdsUnique
<1>8. CASE UNCHANGED vars
  BY <1>8 DEF vars, Inv, TypeOK, IdsBounded, IdsUnique
<1> QED
  BY <1>1, <1>2, <1>3, <1>4, <1>5, <1>6, <1>7, <1>8 DEF Next

\* Every reachable ledger is one: records are whole, and the counter positive.
THEOREM TypeCorrect == Spec => []TypeOK
<1>1. Inv => TypeOK
  BY DEF Inv
<1> QED
  BY InvInit, InvNext, <1>1, PTL DEF Spec

\* No id ever names two payments, through any sequence of calls, failed writes
\* and restarts: open() counts on from the largest id it reads.
THEOREM IdsStayUnique == Spec => []IdsUnique
<1>1. Inv => IdsUnique
  BY DEF Inv
<1> QED
  BY InvInit, InvNext, <1>1, PTL DEF Spec

-----------------------------------------------------------------------------
(* What a commit that returned Ok is worth *)

\* Promise p is kept by the records S: one of them has its id and its bytes and
\* is not on its way out.
Held(p, S) ==
    \E r \in S : r.id = p.id /\ r.tx = p.tx /\ r.state # "confirmed"

\* Inductive for OwedBytesOnDisk and OwedBytesInMemory.  The state matters: a
\* record that is confirmed is the one a later call may drop.
Kept ==
    \A p \in owed :
        /\ ledger.file.readable
        /\ Held(p, ledger.file.records)
        /\ up => Held(p, ledger.mem)

LEMMA KeptInit == Init => Kept
BY DEF Init, Kept

\* A promise held in memory is held in the file, whether the write failed (the
\* file is the one that held it) or not (the file is memory).
LEMMA WriteHolds ==
    ASSUME up' = up, up, Kept, NEW p \in owed, Held(p, ledger'.mem),
           \/ ledger'.file = [readable |-> TRUE, records |-> ledger'.mem]
           \/ ledger'.file = ledger.file
    PROVE  /\ ledger'.file.readable
           /\ Held(p, ledger'.file.records)
           /\ up' => Held(p, ledger'.mem)
BY DEF Kept

LEMMA KeptNext == TypeOK /\ Kept /\ [Next]_vars => Kept'
<1> SUFFICES ASSUME TypeOK, Kept, [Next]_vars PROVE Kept'
  OBVIOUS
<1>0. /\ ledger \in Ledger
      /\ ledger.mem \subseteq Record
      /\ ledger.next \in Nat \ {0}
      /\ owed \subseteq Promise
      /\ \A r \in Record : r.id \in Nat \ {0} /\ r.tx \in Tx
  BY DEF TypeOK, Ledger, Record
<1>w. \A wrote \in Write : wrote \in BOOLEAN
  BY SwitchesAssumption DEF Write
<1>i. \A id \in 1 .. MaxId : id \in Nat
  BY MaxIdAssumption
<1>1. ASSUME NEW wrote \in Write, NEW t \in Tx, Commit(t, wrote) PROVE Kept'
  <2> DEFINE new == [id |-> ledger.next, tx |-> t, checks |-> 0,
                     state |-> "uncertain"]
             promise == [id |-> ledger.next, tx |-> t]
  <2>1. up' = up /\ up
    BY <1>1 DEF Commit
  <2>2. /\ ledger'.mem = ledger.mem \cup {new}
        /\ wrote => ledger'.file = [readable |-> TRUE, records |-> ledger'.mem]
        /\ ~wrote => ledger'.file = ledger.file
    BY <1>0, <1>1, <1>w, CommittedEffect DEF Commit
  <2>3. ASSUME NEW p \in owed
        PROVE  /\ ledger'.file.readable
               /\ Held(p, ledger'.file.records)
               /\ up' => Held(p, ledger'.mem)
    <3>1. Held(p, ledger'.mem)
      BY <2>1, <2>2 DEF Kept, Held
    <3> QED
      BY <2>1, <2>2, <3>1, WriteHolds
  <2>4. ASSUME wrote
        PROVE  /\ ledger'.file.readable
               /\ Held(promise, ledger'.file.records)
               /\ Held(promise, ledger'.mem)
    <3>1. ledger'.file = [readable |-> TRUE, records |-> ledger'.mem]
      BY <2>2, <2>4
    <3>2. /\ new.id = promise.id
          /\ new.tx = promise.tx
          /\ new.state # "confirmed"
      OBVIOUS
    <3> HIDE DEF new, promise
    <3>3. new \in ledger'.mem
      BY <2>2
    <3>4. Held(promise, ledger'.mem)
      BY <3>2, <3>3 DEF Held
    <3> QED
      BY <3>1, <3>4
  <2>5. owed' = IF wrote THEN owed \cup {promise} ELSE owed
    BY <1>1 DEF Commit
  <2> HIDE DEF promise, new
  <2>6. CASE wrote
    BY <2>3, <2>4, <2>5, <2>6 DEF Kept
  <2>7. CASE ~wrote
    BY <2>3, <2>5, <2>7 DEF Kept
  <2> QED
    BY <2>6, <2>7
<1>2. ASSUME NEW wrote \in Write, NEW id \in 1 .. MaxId, NEW s \in State,
             SetState(id, s, wrote)
      PROVE  Kept'
  <2> DEFINE F(r) == IF r.id = id THEN [r EXCEPT !.state = s] ELSE r
  <2>1. up' = up /\ up
    BY <1>2 DEF SetState
  <2>2. /\ ledger'.mem = {F(r) : r \in ledger.mem}
        /\ wrote => ledger'.file = [readable |-> TRUE, records |-> ledger'.mem]
        /\ ~wrote => ledger'.file = ledger.file
    BY <1>0, <1>2, <1>w, <1>i, StateSetEffect DEF SetState
  <2>3. /\ owed' \subseteq owed
        /\ \A p \in owed' : s = "confirmed" => p.id # id
    BY <1>2 DEF SetState
  <2>4. \A r \in ledger.mem :
            /\ F(r).id = r.id /\ F(r).tx = r.tx
            /\ r.state # "confirmed" /\ (s = "confirmed" => r.id # id)
                => F(r).state # "confirmed"
    BY <1>0 DEF Record
  <2> HIDE DEF F
  <2>5. ASSUME NEW p \in owed'
        PROVE  /\ ledger'.file.readable
               /\ Held(p, ledger'.file.records)
               /\ up' => Held(p, ledger'.mem)
    <3>1. PICK r \in ledger.mem :
            r.id = p.id /\ r.tx = p.tx /\ r.state # "confirmed"
      BY <2>1, <2>3 DEF Kept, Held
    <3>2. F(r) \in ledger'.mem
      BY <2>2
    <3>3. Held(p, ledger'.mem)
      BY <2>3, <2>4, <3>1, <3>2 DEF Held
    <3>4. p \in owed
      BY <2>3
    <3> QED
      BY <2>1, <2>2, <3>3, <3>4, WriteHolds
  <2> QED
    BY <2>5 DEF Kept
<1>3. ASSUME NEW wrote \in Write, NEW id \in 1 .. MaxId, NoteCheck(id, wrote)
      PROVE  Kept'
  <2> DEFINE F(r) == IF r.id = id /\ r.checks < AbsentAfter
                     THEN [r EXCEPT !.checks = @ + 1] ELSE r
  <2>1. up' = up /\ up /\ owed' = owed
    BY <1>3 DEF NoteCheck
  <2>2. /\ ledger'.mem = {F(r) : r \in ledger.mem}
        /\ wrote => ledger'.file = [readable |-> TRUE, records |-> ledger'.mem]
        /\ ~wrote => ledger'.file = ledger.file
    BY <1>0, <1>3, <1>w, <1>i, CheckNotedEffect DEF NoteCheck
  <2>3. \A r \in ledger.mem :
            F(r).id = r.id /\ F(r).tx = r.tx /\ F(r).state = r.state
    BY <1>0 DEF Record
  <2> HIDE DEF F
  <2>4. ASSUME NEW p \in owed
        PROVE  /\ ledger'.file.readable
               /\ Held(p, ledger'.file.records)
               /\ up' => Held(p, ledger'.mem)
    <3>1. PICK r \in ledger.mem :
            r.id = p.id /\ r.tx = p.tx /\ r.state # "confirmed"
      BY <2>1 DEF Kept, Held
    <3>2. F(r) \in ledger'.mem
      BY <2>2
    <3>3. Held(p, ledger'.mem)
      BY <2>3, <3>1, <3>2 DEF Held
    <3> QED
      BY <2>1, <2>2, <3>3, WriteHolds
  <2> QED
    BY <2>1, <2>4 DEF Kept
<1>4. ASSUME NEW wrote \in Write, ForgetConfirmed(wrote) PROVE Kept'
  <2>1. up' = up /\ up /\ owed' = owed
    BY <1>4 DEF ForgetConfirmed
  <2>2. /\ ledger'.mem = {r \in ledger.mem : r.state # "confirmed"}
        /\ wrote => ledger'.file = [readable |-> TRUE, records |-> ledger'.mem]
        /\ ~wrote => ledger'.file = ledger.file
    BY <1>0, <1>4, <1>w, ConfirmedForgottenEffect DEF ForgetConfirmed
  <2>3. ASSUME NEW p \in owed
        PROVE  /\ ledger'.file.readable
               /\ Held(p, ledger'.file.records)
               /\ up' => Held(p, ledger'.mem)
    <3>1. Held(p, ledger'.mem)
      BY <2>1, <2>2 DEF Kept, Held
    <3> QED
      BY <2>1, <2>2, <3>1, WriteHolds
  <2> QED
    BY <2>1, <2>3 DEF Kept
<1>5. ASSUME Crash PROVE Kept'
  <2>1. ledger'.file = ledger.file /\ owed' = owed /\ ~up'
    BY <1>5 DEF Crash
  <2> QED
    BY <2>1 DEF Kept
<1>6. ASSUME Open PROVE Kept'
  <2>1. owed' = owed /\ ledger' = Opened(ledger.file)
    BY <1>6 DEF Open
  <2>2. /\ ledger'.file = ledger.file
        /\ ledger.file.readable => ledger'.mem = ledger.file.records
    BY <2>1 DEF Opened
  <2> QED
    BY <2>1, <2>2 DEF Kept
<1>7. ASSUME FileDamaged PROVE Kept'
  BY <1>7 DEF FileDamaged, Kept
<1>8. CASE UNCHANGED vars
  BY <1>8 DEF vars, Kept
<1> QED
  BY <1>1, <1>2, <1>3, <1>4, <1>5, <1>6, <1>7, <1>8 DEF Next

\* A commit that returned Ok is in the file until the payment is confirmed,
\* whatever fails or restarts in between.
THEOREM OwedStaysOnDisk == Spec => []OwedBytesOnDisk
<1>1. Kept => OwedBytesOnDisk
  BY DEF Kept, Held, OwedBytesOnDisk
<1> QED
  BY KeptInit, KeptNext, TypeCorrect, <1>1, PTL DEF Spec

\* ... and in memory whenever the process runs, so that it is asked about.
THEOREM OwedStaysInMemory == Spec => []OwedBytesInMemory
<1>1. Kept => OwedBytesInMemory
  BY DEF Kept, Held, OwedBytesInMemory
<1> QED
  BY KeptInit, KeptNext, TypeCorrect, <1>1, PTL DEF Spec

\* While the process runs an id never comes to mean other bytes, and only a
\* confirmed record leaves memory.
THEOREM BytesStayKept == Spec => BytesKept
<1> DEFINE Stays ==
        \A r \in ledger.mem :
            \/ r.state = "confirmed"
            \/ \E q \in ledger'.mem : q.id = r.id /\ q.tx = r.tx
<1>1. TypeOK /\ [Next]_vars => (up /\ up' => Stays)
  <2> SUFFICES ASSUME TypeOK, [Next]_vars, up, up' PROVE Stays
    OBVIOUS
  <2>0. ledger \in Ledger /\ ledger.mem \subseteq Record
    BY DEF TypeOK, Ledger
  <2>w. \A wrote \in Write : wrote \in BOOLEAN
    BY SwitchesAssumption DEF Write
  <2>i. \A id \in 1 .. MaxId : id \in Nat
    BY MaxIdAssumption
  <2>1. ASSUME NEW wrote \in Write, NEW t \in Tx, Commit(t, wrote) PROVE Stays
    <3> DEFINE new == [id |-> ledger.next, tx |-> t, checks |-> 0,
                       state |-> "uncertain"]
    <3>1. /\ ledger'.mem = ledger.mem \cup {new}
          /\ wrote => ledger'.file = [readable |-> TRUE, records |-> ledger'.mem]
          /\ ~wrote => ledger'.file = ledger.file
      BY <2>0, <2>1, <2>w, CommittedEffect DEF Commit
    <3> QED
      BY <3>1
  <2>2. ASSUME NEW wrote \in Write, NEW id \in 1 .. MaxId, NEW s \in State,
               SetState(id, s, wrote)
        PROVE  Stays
    <3> DEFINE F(r) == IF r.id = id THEN [r EXCEPT !.state = s] ELSE r
    <3>1. /\ ledger'.mem = {F(r) : r \in ledger.mem}
          /\ wrote => ledger'.file = [readable |-> TRUE, records |-> ledger'.mem]
          /\ ~wrote => ledger'.file = ledger.file
      BY <2>0, <2>2, <2>w, <2>i, StateSetEffect DEF SetState
    <3>2. \A r \in ledger.mem : F(r).id = r.id /\ F(r).tx = r.tx
      BY <2>0 DEF Record
    <3> HIDE DEF F
    <3> QED
      BY <3>1, <3>2
  <2>3. ASSUME NEW wrote \in Write, NEW id \in 1 .. MaxId, NoteCheck(id, wrote)
        PROVE  Stays
    <3> DEFINE F(r) == IF r.id = id /\ r.checks < AbsentAfter
                       THEN [r EXCEPT !.checks = @ + 1] ELSE r
    <3>1. /\ ledger'.mem = {F(r) : r \in ledger.mem}
          /\ wrote => ledger'.file = [readable |-> TRUE, records |-> ledger'.mem]
          /\ ~wrote => ledger'.file = ledger.file
      BY <2>0, <2>3, <2>w, <2>i, CheckNotedEffect DEF NoteCheck
    <3>2. \A r \in ledger.mem : F(r).id = r.id /\ F(r).tx = r.tx
      BY <2>0 DEF Record
    <3> HIDE DEF F
    <3> QED
      BY <3>1, <3>2
  <2>4. ASSUME NEW wrote \in Write, ForgetConfirmed(wrote) PROVE Stays
    <3>1. ledger'.mem = {r \in ledger.mem : r.state # "confirmed"}
      BY <2>0, <2>4, <2>w, ConfirmedForgottenEffect DEF ForgetConfirmed
    <3> QED
      BY <3>1
  <2>5. ~Crash /\ ~Open /\ ~FileDamaged
    BY DEF Crash, Open, FileDamaged
  <2>6. CASE UNCHANGED vars
    BY <2>6 DEF vars
  <2> QED
    BY <2>1, <2>2, <2>3, <2>4, <2>5, <2>6 DEF Next
<1>2. TypeOK /\ [Next]_vars => [up /\ up' => Stays]_vars
  BY <1>1
<1> HIDE DEF Stays
<1>3. Spec => [][up /\ up' => Stays]_vars
  BY TypeCorrect, <1>2, PTL DEF Spec
<1> QED
  BY <1>3 DEF BytesKept, Stays

=============================================================================
