--------------------------- MODULE LedgerOpsProofs ---------------------------
(* What the ledger's operations return, for any transactions and records.   *)
EXTENDS LedgerOps, WellFoundedInduction, TLAPS

-----------------------------------------------------------------------------
(* The id counter *)

\* What the wallet's next id is after reading a file whose ids do not exceed b:
\* above every id in it, and at most one past b.
LEMMA NextIdFresh ==
    ASSUME NEW records \in SUBSET Record, NEW b \in Nat,
           \A r \in records : r.id <= b
    PROVE  /\ NextId(records) \in Nat \ {0}
           /\ NextId(records) <= b + 1
           /\ \A r \in records : r.id < NextId(records)
<1> DEFINE above == {n \in Nat : n # 0 /\ \A r \in records : r.id < n}
<1>1. \A r \in records : r.id \in Nat /\ r.id # 0
  BY DEF Record
<1>2. b + 1 \in above
  BY <1>1
<1> DEFINE R == OpToRel(<, Nat)
<1>3. \A x, y \in Nat : x < y => <<x, y>> \in R
  BY DEF OpToRel
<1>4. PICK m \in above : \A n \in above : ~(<<n, m>> \in R)
  <2>1. above \subseteq Nat
    OBVIOUS
  <2>2. IsWellFoundedOn(R, Nat)
    BY NatLessThanWellFounded
  <2> HIDE DEF R, above
  <2> QED
    BY <2>1, <2>2, <1>2, WFMin
<1> HIDE DEF R
<1>5. ASSUME NEW n \in above PROVE m <= n
  <2>1. n \in Nat /\ m \in Nat
    OBVIOUS
  <2>2. ~(<<n, m>> \in R)
    BY <1>4
  <2>3. ~(n < m)
    BY <2>1, <2>2, <1>3
  <2> QED
    BY <2>1, <2>3
<1>6. m \in {1} \cup {r.id + 1 : r \in records}
  <2>1. CASE m = 1
    BY <2>1
  <2>2. CASE m # 1
    <3>1. m - 1 \in Nat /\ m - 1 # 0 /\ m - 1 \notin above
      BY <2>2, <1>5
    <3>2. PICK r \in records : ~(r.id < m - 1)
      BY <3>1
    <3>3. r.id + 1 = m
      BY <3>1, <3>2, <1>1
    <3> QED
      BY <3>3
  <2> QED
    BY <2>1, <2>2
<1>7. /\ NextId(records) \in {1} \cup {r.id + 1 : r \in records}
      /\ \A r \in records : r.id < NextId(records)
  BY <1>6 DEF NextId
<1> QED
  BY <1>1, <1>7

-----------------------------------------------------------------------------
(* Type correctness *)

\* Every operation of the ledger, and every opening of a file of it, returns a
\* ledger.
LEMMA OperationsTyped ==
    ASSUME NEW L \in Ledger, NEW wrote \in BOOLEAN
    PROVE  /\ \A t \in Tx : Committed(L, t, wrote) \in Ledger
           /\ \A id \in Nat, s \in State : StateSet(L, id, s, wrote) \in Ledger
           /\ \A id \in Nat : CheckNoted(L, id, wrote) \in Ledger
           /\ ConfirmedForgotten(L, wrote) \in Ledger
<1> USE AbsentAfterAssumption
<1>1. ASSUME NEW K \in Ledger PROVE Persisted(K, wrote) \in Ledger
  BY DEF Persisted, Ledger, File
<1>2. ASSUME NEW t \in Tx PROVE Committed(L, t, wrote) \in Ledger
  <2> DEFINE r == [id |-> L.next, tx |-> t, checks |-> 0, state |-> "uncertain"]
  <2>1. r \in Record
    BY DEF Ledger, Record, State
  <2>2. L.mem \cup {r} \in SUBSET Record /\ L.next + 1 \in Nat \ {0}
    BY <2>1 DEF Ledger
  <2> HIDE DEF r
  <2>3. [L EXCEPT !.mem = @ \cup {r}, !.next = @ + 1] \in Ledger
    BY <2>2 DEF Ledger
  <2> QED
    BY <2>3, <1>1 DEF Committed, r
<1>3. ASSUME NEW id \in Nat, NEW s \in State
      PROVE  StateSet(L, id, s, wrote) \in Ledger
  <2> DEFINE m == {IF r.id = id THEN [r EXCEPT !.state = s] ELSE r : r \in L.mem}
  <2>1. m \subseteq Record
    BY DEF Ledger, Record
  <2>2. [L EXCEPT !.mem = m] \in Ledger
    BY <2>1 DEF Ledger
  <2> QED
    BY <2>2, <1>1 DEF StateSet
<1>4. ASSUME NEW id \in Nat PROVE CheckNoted(L, id, wrote) \in Ledger
  <2> DEFINE m == {IF r.id = id /\ r.checks < AbsentAfter
                   THEN [r EXCEPT !.checks = @ + 1] ELSE r : r \in L.mem}
  <2>1. m \subseteq Record
    BY DEF Ledger, Record
  <2>2. [L EXCEPT !.mem = m] \in Ledger
    BY <2>1 DEF Ledger
  <2> QED
    BY <2>2, <1>1 DEF CheckNoted
<1>5. ConfirmedForgotten(L, wrote) \in Ledger
  <2>1. [L EXCEPT !.mem = {r \in @ : r.state # "confirmed"}] \in Ledger
    BY DEF Ledger
  <2> QED
    BY <2>1, <1>1 DEF ConfirmedForgotten
<1> QED
  BY <1>2, <1>3, <1>4, <1>5

\* What opening a file makes of it, when no id in it exceeds b.
LEMMA OpenedFresh ==
    ASSUME NEW file \in File, NEW b \in Nat,
           \A r \in file.records : r.id <= b
    PROVE  /\ Opened(file) \in Ledger
           /\ Opened(file).file = file
           /\ Opened(file).mem \subseteq file.records
           /\ Opened(file).next <= b + 1
           /\ \A r \in Opened(file).mem : r.id < Opened(file).next
<1> DEFINE found == IF file.readable THEN file.records ELSE {}
<1>1. found \in SUBSET Record /\ \A r \in found : r.id <= b
  BY DEF File
<1>2. /\ NextId(found) \in Nat \ {0}
      /\ NextId(found) <= b + 1
      /\ \A r \in found : r.id < NextId(found)
  BY <1>1, NextIdFresh
<1>3. Opened(file) = [mem |-> found, file |-> file, next |-> NextId(found)]
  BY DEF Opened
<1> HIDE DEF found
<1>4. found \subseteq file.records
  BY DEF found
<1> QED
  BY <1>1, <1>2, <1>3, <1>4 DEF Ledger

-----------------------------------------------------------------------------
\* What each operation makes of memory, the counter and the file.
LEMMA CommittedEffect ==
    ASSUME NEW L \in Ledger, NEW wrote \in BOOLEAN, NEW t \in Tx, NEW M,
           M = Committed(L, t, wrote)
    PROVE  /\ M.mem = L.mem \cup {[id |-> L.next, tx |-> t, checks |-> 0,
                                     state |-> "uncertain"]}
           /\ M.next = L.next + 1
           /\ wrote => M.file = [readable |-> TRUE, records |-> M.mem]
           /\ ~wrote => M.file = L.file
BY DEF Committed, Persisted, Ledger

LEMMA StateSetEffect ==
    ASSUME NEW L \in Ledger, NEW wrote \in BOOLEAN, NEW id \in Nat, NEW s \in State, NEW M,
           M = StateSet(L, id, s, wrote)
    PROVE  /\ M.mem = {IF r.id = id THEN [r EXCEPT !.state = s] ELSE r :
                        r \in L.mem}
           /\ M.next = L.next
           /\ wrote => M.file = [readable |-> TRUE, records |-> M.mem]
           /\ ~wrote => M.file = L.file
BY DEF StateSet, Persisted, Ledger

LEMMA CheckNotedEffect ==
    ASSUME NEW L \in Ledger, NEW wrote \in BOOLEAN, NEW id \in Nat, NEW M,
           M = CheckNoted(L, id, wrote)
    PROVE  /\ M.mem = {IF r.id = id /\ r.checks < AbsentAfter
                     THEN [r EXCEPT !.checks = @ + 1] ELSE r : r \in L.mem}
           /\ M.next = L.next
           /\ wrote => M.file = [readable |-> TRUE, records |-> M.mem]
           /\ ~wrote => M.file = L.file
BY DEF CheckNoted, Persisted, Ledger

LEMMA ConfirmedForgottenEffect ==
    ASSUME NEW L \in Ledger, NEW wrote \in BOOLEAN, NEW M,
           M = ConfirmedForgotten(L, wrote)
    PROVE  /\ M.mem = {r \in L.mem : r.state # "confirmed"}
           /\ M.next = L.next
           /\ wrote => M.file = [readable |-> TRUE, records |-> M.mem]
           /\ ~wrote => M.file = L.file
BY DEF ConfirmedForgotten, Persisted, Ledger

-----------------------------------------------------------------------------
(* What every operation but commit and open has in common *)

Undecided == {"uncertain", "absent"}

Unique(S) == \A r, q \in S : r.id = q.id => r = q

\* Every record of S is one of R, perhaps in a later state: none is new, none
\* is undecided that was decided, and none is uncertain again.
Follows(S, R) ==
    /\ Unique(R) => Unique(S)
    /\ \A q \in S : \E r \in R :
        /\ q.id = r.id /\ q.tx = r.tx
        /\ q.state \in Undecided => r.state \in Undecided
        /\ q.state = "uncertain" => r.state = "uncertain"

\* The records of R whose ids are not in G are still in S, and not on their
\* way out.
Retains(S, R, G) ==
    \A r \in R : r.id \notin G /\ r.state # "confirmed" =>
        \E q \in S : q.id = r.id /\ q.tx = r.tx /\ q.state # "confirmed"

\* M is L after such operations, of which those on the ids in G may have
\* confirmed them.
Updated(L, M, G) ==
    /\ M \in Ledger
    /\ M.next = L.next
    /\ Follows(M.mem, L.mem)
    /\ Retains(M.mem, L.mem, G)
    /\ \/ M.file = L.file
       \/ /\ Follows(M.file.records, L.mem)
          /\ Retains(M.file.records, L.mem, G)

\* One operation after another is an operation.
LEMMA UpdatedAgain ==
    ASSUME NEW L, NEW M, NEW N, NEW G, Updated(L, M, G), Updated(M, N, G)
    PROVE  Updated(L, N, G)
<1>1. ASSUME NEW S, Follows(S, M.mem) PROVE Follows(S, L.mem)
  BY <1>1 DEF Updated, Follows
<1>2. ASSUME NEW S, Retains(S, M.mem, G) PROVE Retains(S, L.mem, G)
  BY <1>2 DEF Updated, Retains
<1> QED
  BY <1>1, <1>2 DEF Updated

\* A map over the records of memory that keeps ids and bytes, written or not.
LEMMA MappedUpdates ==
    ASSUME NEW L, NEW M \in Ledger, NEW G, NEW wrote \in BOOLEAN, NEW f,
           M.next = L.next,
           M.mem = {f[r] : r \in L.mem},
           wrote => M.file = [readable |-> TRUE, records |-> M.mem],
           ~wrote => M.file = L.file,
           \A r \in L.mem :
              /\ f[r].id = r.id /\ f[r].tx = r.tx
              /\ f[r].state \in Undecided => r.state \in Undecided
              /\ f[r].state = "uncertain" => r.state = "uncertain"
              /\ r.id \notin G /\ r.state # "confirmed" => f[r].state # "confirmed"
    PROVE  Updated(L, M, G)
<1>1. Follows(M.mem, L.mem)
  BY DEF Follows, Unique
<1>2. Retains(M.mem, L.mem, G)
  BY DEF Retains
<1>3. wrote => M.file.records = M.mem
  OBVIOUS
<1> QED
  BY <1>1, <1>2, <1>3 DEF Updated

\* set_state never makes a decided payment undecided, as long as it is not
\* asked to.
LEMMA StateSetUpdates ==
    ASSUME NEW L \in Ledger, NEW G, NEW wrote \in BOOLEAN, NEW id \in Nat,
           NEW s \in State,
           s = "confirmed" => id \in G,
           s # "uncertain",
           s = "absent" =>
               \A r \in L.mem : r.id = id => r.state \in Undecided
    PROVE  Updated(L, StateSet(L, id, s, wrote), G)
<1> DEFINE F(r) == IF r.id = id THEN [r EXCEPT !.state = s] ELSE r
           f == [r \in L.mem |-> F(r)]
           M == StateSet(L, id, s, wrote)
<1>1. M \in Ledger
  BY OperationsTyped
<1>2. /\ M.mem = {F(r) : r \in L.mem}
      /\ M.next = L.next
      /\ wrote => M.file = [readable |-> TRUE, records |-> M.mem]
      /\ ~wrote => M.file = L.file
  BY StateSetEffect
<1>3. \A r \in L.mem :
          /\ F(r).id = r.id /\ F(r).tx = r.tx
          /\ F(r).state \in Undecided => r.state \in Undecided
          /\ F(r).state = "uncertain" => r.state = "uncertain"
          /\ r.id \notin G /\ r.state # "confirmed" => F(r).state # "confirmed"
  BY DEF Ledger, Record, Undecided
<1> HIDE DEF F, M
<1>4. /\ M.mem = {f[r] : r \in L.mem}
      /\ \A r \in L.mem : f[r] = F(r)
  BY <1>2
<1>5. /\ M.next = L.next
      /\ M.mem = {f[r] : r \in L.mem}
      /\ wrote => M.file = [readable |-> TRUE, records |-> M.mem]
      /\ ~wrote => M.file = L.file
  BY <1>2, <1>4
<1>6. \A r \in L.mem :
          /\ f[r].id = r.id /\ f[r].tx = r.tx
          /\ f[r].state \in Undecided => r.state \in Undecided
          /\ f[r].state = "uncertain" => r.state = "uncertain"
          /\ r.id \notin G /\ r.state # "confirmed" => f[r].state # "confirmed"
  BY <1>3, <1>4
<1> HIDE DEF f
<1>7. Updated(L, M, G)
  BY ZenonT(40), <1>1, <1>5, <1>6, MappedUpdates
<1> QED
  BY <1>7 DEF M

\* note_check counts and changes no state.
LEMMA CheckNotedUpdates ==
    ASSUME NEW L \in Ledger, NEW G, NEW wrote \in BOOLEAN, NEW id \in Nat
    PROVE  Updated(L, CheckNoted(L, id, wrote), G)
<1> DEFINE F(r) == IF r.id = id /\ r.checks < AbsentAfter
                   THEN [r EXCEPT !.checks = @ + 1] ELSE r
           f == [r \in L.mem |-> F(r)]
           M == CheckNoted(L, id, wrote)
<1>1. M \in Ledger
  BY OperationsTyped
<1>2. /\ M.mem = {F(r) : r \in L.mem}
      /\ M.next = L.next
      /\ wrote => M.file = [readable |-> TRUE, records |-> M.mem]
      /\ ~wrote => M.file = L.file
  BY CheckNotedEffect
<1>3. \A r \in L.mem :
          F(r).id = r.id /\ F(r).tx = r.tx /\ F(r).state = r.state
  BY DEF Ledger, Record, Undecided
<1> HIDE DEF F, M
<1>4. /\ M.mem = {f[r] : r \in L.mem}
      /\ \A r \in L.mem : f[r] = F(r)
  BY <1>2
<1>5. /\ M.next = L.next
      /\ M.mem = {f[r] : r \in L.mem}
      /\ wrote => M.file = [readable |-> TRUE, records |-> M.mem]
      /\ ~wrote => M.file = L.file
  BY <1>2, <1>4
<1>6. \A r \in L.mem :
          /\ f[r].id = r.id /\ f[r].tx = r.tx
          /\ f[r].state \in Undecided => r.state \in Undecided
          /\ f[r].state = "uncertain" => r.state = "uncertain"
          /\ r.id \notin G /\ r.state # "confirmed" => f[r].state # "confirmed"
  BY <1>3, <1>4
<1> HIDE DEF f
<1>7. Updated(L, M, G)
  BY <1>1, <1>5, <1>6, MappedUpdates
<1> QED
  BY <1>7 DEF M

\* forget_confirmed lets go of nothing but what was confirmed before.
LEMMA ConfirmedForgottenUpdates ==
    ASSUME NEW L \in Ledger, NEW G, NEW wrote \in BOOLEAN
    PROVE  Updated(L, ConfirmedForgotten(L, wrote), G)
<1> DEFINE M == ConfirmedForgotten(L, wrote)
<1>1. M \in Ledger
  BY OperationsTyped
<1>2. /\ M.mem = {r \in L.mem : r.state # "confirmed"}
      /\ M.next = L.next
      /\ wrote => M.file = [readable |-> TRUE, records |-> M.mem]
      /\ ~wrote => M.file = L.file
  BY ConfirmedForgottenEffect
<1> HIDE DEF M
<1>3. Follows(M.mem, L.mem) /\ Retains(M.mem, L.mem, G)
  BY <1>2 DEF Follows, Unique, Retains
<1>4. wrote => M.file.records = M.mem
  BY <1>2
<1>5. Updated(L, M, G)
  BY <1>1, <1>2, <1>3, <1>4 DEF Updated
<1> QED
  BY <1>5 DEF M

=============================================================================
