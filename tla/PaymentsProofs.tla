---------------------------- MODULE PaymentsProofs ----------------------------
(* Proofs about Payments, for any chains, nodes, transactions and workers.   *)
EXTENDS Payments, LedgerOpsProofs, TLAPS

-----------------------------------------------------------------------------
(* Type correctness, the ids and what an answer can say *)

FileKept(file) ==
    Unique(file.records) /\ \A r \in file.records : r.id <= MaxId

\* No id names two payments, in memory or in a file, and none is beyond the
\* bound: so the next id of a file that is opened exists.
IdsKept ==
    /\ \A r \in ledger.mem : r.id < ledger.next /\ r.id <= MaxId
    /\ ledger.next <= MaxId + 1
    /\ Unique(ledger.mem)
    /\ FileKept(ledger.file)
    /\ \A c \in Chain : FileKept(closed[c])

Handing == {"broadcast", "resend"}

\* A job ends with an answer to what it was asked.
JobsFit ==
    \A j \in jobs :
        /\ j.kind = "prepare" => j.answer = "none"
        /\ j.kind \in Handing =>
              j.answer \in {"none", "ok", "uncertain", "refused"}
        /\ j.kind = "check" =>
              j.answer \in {"none", "has", "has_not", "unreached"}

\* A node that is Online has answered since it last failed.
HealthFits == \A n \in Node : health[n].online => health[n].failures = 0

\* Inductive for TypeOK and NoFlapping together.
Inv == TypeOK /\ IdsKept /\ JobsFit /\ HealthFits

LEMMA TypeFacts ==
    ASSUME TypeOK
    PROVE  /\ ledger \in Ledger
           /\ ledger.mem \subseteq Record
           /\ ledger.next \in Nat \ {0}
           /\ ledger.file \in File
           /\ MaxId \in Nat \ {0}
           /\ \A w \in Write : w \in BOOLEAN
           /\ \A r \in Record : r.id \in Nat \ {0} /\ r.tx \in Tx
           /\ \A j \in jobs : /\ j.id \in 0 .. MaxId /\ j.id \in Nat
                              /\ j.tx \in Tx /\ j.node \in Node
<1>1. MaxId \in Nat \ {0} /\ WritesFail \in BOOLEAN
  BY PaymentsAssumption
<1>2. \A w \in Write : w \in BOOLEAN
  BY <1>1 DEF Write
<1>3. \A r \in Record : r.id \in Nat \ {0} /\ r.tx \in Tx
  BY DEF Record
<1>4. /\ ledger \in Ledger
      /\ ledger.mem \subseteq Record
      /\ ledger.next \in Nat \ {0}
      /\ ledger.file \in File
  BY DEF TypeOK, Ledger
<1>5. \A j \in jobs : /\ j.id \in 0 .. MaxId
                      /\ j.tx \in Tx /\ j.node \in Node
  BY DEF TypeOK, Job
<1> QED
  BY <1>1, <1>2, <1>3, <1>4, <1>5

\* An update that keeps the ledger's counter keeps its ids.
LEMMA UpdateKeepsIds ==
    ASSUME TypeOK, IdsKept, NEW G, Updated(ledger, ledger', G),
           closed' = closed
    PROVE  IdsKept' /\ ledger' \in Ledger
<1>1. \A r \in ledger'.mem : r.id < ledger'.next /\ r.id <= MaxId
  BY DEF IdsKept, Updated, Follows
<1>2. ASSUME NEW S, Follows(S, ledger.mem)
      PROVE  Unique(S) /\ \A r \in S : r.id <= MaxId
  BY <1>2 DEF IdsKept, Follows
<1>3. FileKept(ledger'.file) /\ Unique(ledger'.mem)
  BY <1>2 DEF IdsKept, FileKept, Updated
<1> QED
  BY <1>1, <1>3 DEF IdsKept, Updated

\* What opening a file of the wallet's makes of memory and the counter.
LEMMA OpenKeepsIds ==
    ASSUME NEW file \in File, FileKept(file)
    PROVE  /\ Opened(file) \in Ledger
           /\ Opened(file).file = file
           /\ Opened(file).mem \subseteq file.records
           /\ Opened(file).next <= MaxId + 1
           /\ Unique(Opened(file).mem)
           /\ \A r \in Opened(file).mem :
                 r.id < Opened(file).next /\ r.id <= MaxId
<1>1. MaxId \in Nat /\ \A r \in file.records : r.id <= MaxId
  BY PaymentsAssumption DEF FileKept
<1>2. /\ Opened(file) \in Ledger
      /\ Opened(file).file = file
      /\ Opened(file).mem \subseteq file.records
      /\ Opened(file).next <= MaxId + 1
      /\ \A r \in Opened(file).mem : r.id < Opened(file).next
  BY <1>1, OpenedFresh
<1> QED
  BY <1>1, <1>2 DEF FileKept, Unique

\* The composite operations of the Finish actions are updates.
LEMMA SettledUpdates ==
    ASSUME TypeOK, NEW id \in Nat, NEW w1 \in BOOLEAN, NEW w2 \in BOOLEAN
    PROVE  Updated(ledger, Settled(id, w1, w2), {id})
<1>1. "confirmed" \in State /\ "confirmed" \notin Undecided
  BY DEF State, Undecided
<1>2. StateSet(ledger, id, "confirmed", w1) \in Ledger
  BY <1>1, TypeFacts, OperationsTyped
<1>3. Updated(ledger, StateSet(ledger, id, "confirmed", w1), {id})
  BY <1>1, TypeFacts, StateSetUpdates
<1>4. Updated(StateSet(ledger, id, "confirmed", w1), Settled(id, w1, w2), {id})
  BY <1>2, ConfirmedForgottenUpdates DEF Settled
<1> QED
  BY <1>3, <1>4, UpdatedAgain

LEMMA FruitlessUpdates ==
    ASSUME TypeOK, IdsKept, NEW id \in Nat, NEW w1 \in BOOLEAN,
           NEW w2 \in BOOLEAN
    PROVE  Updated(ledger, Fruitless(id, w1, w2), {})
<1> DEFINE noted == CheckNoted(ledger, id, w1)
<1>1. noted \in Ledger /\ Updated(ledger, noted, {})
  BY TypeFacts, OperationsTyped, CheckNotedUpdates
<1>2. Unique(noted.mem)
  BY <1>1 DEF IdsKept, Updated, Follows
<1> HIDE DEF noted
<1>3. ASSUME NEW r \in noted.mem, r.id = id, r.state = "uncertain"
      PROVE  Updated(ledger, StateSet(noted, id, "absent", w2), {})
  <2>1. \A q \in noted.mem : q.id = id => q.state \in Undecided
    BY <1>2, <1>3 DEF Unique, Undecided
  <2>2. "absent" \in State /\ "absent" # "confirmed"
    BY DEF State
  <2>3. Updated(noted, StateSet(noted, id, "absent", w2), {})
    BY <1>1, <2>1, <2>2, StateSetUpdates
  <2> QED
    BY <1>1, <2>3, UpdatedAgain
<1>4. \/ Fruitless(id, w1, w2) = noted
      \/ /\ Fruitless(id, w1, w2) = StateSet(noted, id, "absent", w2)
         /\ \E r \in noted.mem : r.id = id /\ r.state = "uncertain"
  BY DEF Fruitless, WithId, noted
<1> QED
  BY <1>1, <1>3, <1>4

\* What the answer to job j makes of the ledger: only the record it is about
\* may be confirmed, and only when a node said it has the bytes.
LEMMA FinishUpdates ==
    ASSUME TypeOK, IdsKept, JobsFit, NEW j \in jobs,
           NEW w1 \in Write, NEW w2 \in Write,
           \/ FinishBroadcast(j, w1, w2)
           \/ FinishResend(j, w1, w2)
           \/ FinishCheck(j, w1, w2)
    PROVE  Updated(ledger, ledger', IF j.answer \in {"ok", "has"} THEN {j.id} ELSE {})
<1> DEFINE G == IF j.answer \in {"ok", "has"} THEN {j.id} ELSE {}
<1>0. /\ j.id \in Nat /\ w1 \in BOOLEAN /\ w2 \in BOOLEAN /\ ledger \in Ledger
      /\ {"abandoned", "resent"} \subseteq State
      /\ "abandoned" \notin Undecided /\ "resent" \notin Undecided
  BY TypeFacts DEF State, Undecided
<1>1. j.answer \in {"ok", "has"} => Updated(ledger, Settled(j.id, w1, w2), G)
  BY <1>0, SettledUpdates
<1>2. Updated(ledger, StateSet(ledger, j.id, "abandoned", w1), G)
  BY <1>0, StateSetUpdates
<1>3. Updated(ledger, StateSet(ledger, j.id, "resent", w1), G)
  BY <1>0, StateSetUpdates
<1>4. j.answer \notin {"ok", "has"} => Updated(ledger, Fruitless(j.id, w1, w2), G)
  BY <1>0, FruitlessUpdates
<1>5. Updated(ledger, ledger, G)
  BY <1>0 DEF Updated, Follows, Retains
<1> HIDE DEF G
<1>6. CASE FinishBroadcast(j, w1, w2)
  <2>1. j.answer \in {"ok", "uncertain", "refused"}
    BY <1>6 DEF FinishBroadcast, JobsFit, Handing
  <2>2. ledger' = AfterBroadcast(j, w1, w2)
    BY <1>6 DEF FinishBroadcast
  <2> QED
    BY <1>1, <1>2, <1>5, <2>1, <2>2 DEF AfterBroadcast, G
<1>7. CASE FinishResend(j, w1, w2)
  <2>1. ledger' = IF j.answer = "ok" THEN Settled(j.id, w1, w2)
                  ELSE StateSet(ledger, j.id, "resent", w1)
    BY <1>7 DEF FinishResend
  <2> QED
    BY <1>1, <1>3, <2>1 DEF G
<1>8. CASE FinishCheck(j, w1, w2)
  <2>1. j.answer \in {"has", "has_not", "unreached"}
    BY <1>8 DEF FinishCheck, JobsFit
  <2>2. ledger' = IF j.answer = "has" THEN Settled(j.id, w1, w2)
                  ELSE Fruitless(j.id, w1, w2)
    BY <1>8 DEF FinishCheck
  <2> QED
    BY <1>1, <1>4, <2>1, <2>2 DEF G
<1> QED
  BY <1>6, <1>7, <1>8 DEF G

LEMMA InvInit == Init => Inv
<1> SUFFICES ASSUME Init PROVE Inv
  OBVIOUS
<1>1. EmptyFile \in File /\ FileKept(EmptyFile) /\ EmptyFile.records = {}
  BY DEF EmptyFile, File, FileKept, Unique
<1>2. ledger = Opened(EmptyFile)
  BY DEF Init
<1>3. /\ ledger \in Ledger
      /\ ledger.file = EmptyFile
      /\ ledger.mem = {}
      /\ ledger.next <= MaxId + 1
  BY <1>1, <1>2, OpenKeepsIds
<1>4. IdsKept
  BY <1>1, <1>3 DEF Init, IdsKept, Unique
<1>5. JobsFit /\ HealthFits
  BY DEF Init, JobsFit, HealthFits, Unasked
<1>6. TypeOK
  <2>1. health \in [Node -> [online : BOOLEAN, failures : 0 .. FailuresBeforeFailover]]
    BY PaymentsAssumption DEF Init, Unasked
  <2> QED
    BY <1>1, <1>3, <2>1, PaymentsAssumption DEF Init, TypeOK
<1> QED
  BY <1>4, <1>5, <1>6 DEF Inv

\* A dispatched job is one, and has no answer yet.
LEMMA DispatchFits ==
    ASSUME TypeOK, JobsFit, NEW kind \in Kind, NEW id \in 0 .. MaxId,
           NEW t \in Tx, Dispatch(kind, id, t)
    PROVE  jobs' \subseteq Job /\ JobsFit'
<1>1. PICK s \in Slot :
        jobs' = jobs \cup {[slot |-> s, kind |-> kind, id |-> id, tx |-> t,
                            node |-> active, answer |-> "none"]}
  BY DEF Dispatch
<1>2. [slot |-> s, kind |-> kind, id |-> id, tx |-> t,
       node |-> active, answer |-> "none"] \in Job
  BY DEF TypeOK, Job
<1> QED
  BY <1>1, <1>2 DEF TypeOK, JobsFit

\* Handing bytes over is noted.
LEMMA HandOverFits ==
    ASSUME TypeOK, JobsFit, NEW kind \in Kind, NEW id \in 0 .. MaxId,
           NEW t \in Tx, HandOver(kind, id, t)
    PROVE  jobs' \subseteq Job /\ JobsFit' /\ handed' \in [Tx -> SUBSET Node]
BY DispatchFits DEF HandOver, TypeOK

\* What a step leaves alone stays as it was.
LEMMA SameLedgerKeepsIds ==
    ASSUME IdsKept, ledger' = ledger, closed' = closed
    PROVE  IdsKept'
BY DEF IdsKept, FileKept

LEMMA FewerJobsFit ==
    ASSUME TypeOK, JobsFit, jobs' \subseteq jobs
    PROVE  jobs' \subseteq Job /\ JobsFit'
BY DEF TypeOK, JobsFit

LEMMA SameHealthFits ==
    ASSUME HealthFits, health' = health
    PROVE  HealthFits'
BY DEF HealthFits

LEMMA ConfirmSendKeepsInv ==
    ASSUME Inv, NEW t \in Tx, NEW wrote \in Write, ConfirmSend(t, wrote)
    PROVE  Inv'
<1> DEFINE new == [id |-> ledger.next, tx |-> t, checks |-> 0,
                   state |-> "uncertain"]
<1>0. /\ ledger \in Ledger /\ wrote \in BOOLEAN /\ MaxId \in Nat
      /\ ledger.mem \subseteq Record /\ ledger.next \in Nat \ {0}
      /\ ledger.next <= MaxId
  BY TypeFacts DEF Inv, ConfirmSend
<1>1. /\ ledger' \in Ledger
      /\ ledger'.mem = ledger.mem \cup {new}
      /\ ledger'.next = ledger.next + 1
      /\ \/ ledger'.file.records = ledger'.mem
         \/ ledger'.file = ledger.file
  <2>1. ledger' = Committed(ledger, t, wrote)
    BY DEF ConfirmSend
  <2>2. ledger' \in Ledger
    BY <1>0, <2>1, OperationsTyped
  <2>3. /\ ledger'.mem = ledger.mem \cup {new}
        /\ ledger'.next = ledger.next + 1
        /\ wrote => ledger'.file = [readable |-> TRUE, records |-> ledger'.mem]
        /\ ~wrote => ledger'.file = ledger.file
    BY <1>0, <2>1, CommittedEffect
  <2>4. wrote => ledger'.file.records = ledger'.mem
    BY <2>3
  <2> HIDE DEF new
  <2> QED
    BY <1>0, <2>2, <2>3, <2>4
<1>2. new.id = ledger.next
  OBVIOUS
<1> HIDE DEF new
<1>3. \A r \in ledger'.mem : r.id < ledger'.next /\ r.id <= MaxId
  <2>1. \A r \in ledger.mem : r.id \in Nat
    BY <1>0 DEF Record
  <2> QED
    BY <1>0, <1>1, <1>2, <2>1 DEF Inv, IdsKept
<1>4. Unique(ledger'.mem)
  BY <1>0, <1>1, <1>2 DEF Inv, IdsKept, Unique, Record
<1>5. IdsKept'
  <2>1. FileKept(ledger'.file)
    BY <1>1, <1>3, <1>4 DEF Inv, IdsKept, FileKept
  <2>2. closed' = closed
    BY DEF ConfirmSend
  <2> QED
    BY <1>0, <1>1, <1>3, <1>4, <2>1, <2>2 DEF Inv, IdsKept
<1>6. jobs' \subseteq Job /\ JobsFit' /\ handed' \in [Tx -> SUBSET Node]
  <2>1. CASE wrote
    <3>1. HandOver("broadcast", ledger.next, t)
      BY <2>1 DEF ConfirmSend
    <3>2. ledger.next \in 0 .. MaxId /\ "broadcast" \in Kind
      BY <1>0 DEF Kind
    <3> QED
      BY <3>1, <3>2, HandOverFits DEF Inv
  <2>2. CASE ~wrote
    BY <2>2, FewerJobsFit DEF ConfirmSend, Inv, TypeOK
  <2> QED
    BY <2>1, <2>2
<1>7. /\ prepared' \subseteq Tx /\ broadcasting' \in BOOLEAN
      /\ UNCHANGED <<chain, closed, active, health, checking, network, signed,
                     moved>>
  BY DEF ConfirmSend, Inv, TypeOK
<1>8. TypeOK'
  BY <1>1, <1>6, <1>7 DEF Inv, TypeOK, network
<1> QED
  BY <1>5, <1>6, <1>7, <1>8, SameHealthFits DEF Inv

LEMMA CommandKeepsInv == ASSUME Inv, Command PROVE Inv'
<1> USE DEF Inv
<1>0. \A r \in ledger.mem :
        r \in Record /\ r.id \in 0 .. MaxId /\ r.id \in Nat /\ r.tx \in Tx
  BY TypeFacts DEF IdsKept
<1>k. Kind = {"prepare", "broadcast", "resend", "check"}
  BY DEF Kind
<1>m. 0 \in 0 .. MaxId
  BY PaymentsAssumption
<1>1. ASSUME NEW t \in Tx, PrepareSend(t) PROVE Inv'
  <2>1. jobs' \subseteq Job /\ JobsFit'
    BY <1>1, <1>k, <1>m, DispatchFits DEF PrepareSend
  <2>2. TypeOK'
    BY <1>1, <2>1 DEF PrepareSend, TypeOK, actor, network
  <2> QED
    BY <1>1, <2>1, <2>2, SameLedgerKeepsIds, SameHealthFits
    DEF PrepareSend, actor
<1>2. ASSUME NEW t \in Tx, CancelSend(t) PROVE Inv'
  <2>1. TypeOK'
    BY <1>2 DEF CancelSend, TypeOK, network, history
  <2> QED
    BY <1>2, <2>1, FewerJobsFit, SameLedgerKeepsIds, SameHealthFits
    DEF CancelSend
<1>3. ASSUME NEW r \in ledger.mem, CheckNow(r) PROVE Inv'
  <2>1. jobs' \subseteq Job /\ JobsFit'
    BY <1>0, <1>3, <1>k, DispatchFits DEF CheckNow, CheckPending
  <2>2. TypeOK'
    BY <1>0, <1>3, <2>1
    DEF CheckNow, CheckPending, TypeOK, network, history
  <2> QED
    BY <1>3, <2>1, <2>2, SameLedgerKeepsIds, SameHealthFits
    DEF CheckNow, CheckPending
<1>4. ASSUME NEW r \in ledger.mem, Resend(r) PROVE Inv'
  <2>1. jobs' \subseteq Job /\ JobsFit' /\ handed' \in [Tx -> SUBSET Node]
    BY <1>0, <1>4, <1>k, HandOverFits DEF Resend
  <2>2. TypeOK'
    BY <1>4, <2>1 DEF Resend, TypeOK, network
  <2> QED
    BY <1>4, <2>1, <2>2, SameLedgerKeepsIds, SameHealthFits DEF Resend
<1>5. ASSUME NEW r \in ledger.mem, NEW wrote \in Write, Abandon(r, wrote)
      PROVE  Inv'
  <2>1. ledger \in Ledger /\ wrote \in BOOLEAN
    BY TypeFacts
  <2>2. /\ "abandoned" \in State
        /\ "abandoned" \notin {"uncertain", "absent", "confirmed"}
    BY DEF State
  <2>3. Updated(ledger, ledger', {})
    BY <1>0, <1>5, <2>1, <2>2, StateSetUpdates DEF Abandon
  <2>4. IdsKept' /\ ledger' \in Ledger
    BY <1>5, <2>3, UpdateKeepsIds DEF Abandon
  <2>5. TypeOK'
    BY <1>5, <2>4 DEF Abandon, TypeOK, network, history
  <2> QED
    BY <1>5, <2>4, <2>5, FewerJobsFit, SameHealthFits DEF Abandon
<1>6. ASSUME NEW n \in Node, SelectNode(n) PROVE Inv'
  <2>1. TypeOK'
    BY <1>6 DEF SelectNode, TypeOK, network
  <2> QED
    BY <1>6, <2>1, FewerJobsFit, SameLedgerKeepsIds, SameHealthFits
    DEF SelectNode
<1>7. ASSUME NEW c \in Chain, SwitchNetwork(c) PROVE Inv'
  <2>1. closed[c] \in File /\ FileKept(closed[c])
    BY DEF TypeOK, IdsKept
  <2>2. ledger' = Opened(closed[c])
    BY <1>7 DEF SwitchNetwork
  <2>3. /\ ledger' \in Ledger
        /\ ledger'.file = closed[c]
        /\ ledger'.next <= MaxId + 1
        /\ Unique(ledger'.mem)
        /\ \A r \in ledger'.mem : r.id < ledger'.next /\ r.id <= MaxId
    BY <2>1, <2>2, OpenKeepsIds
  <2>4. EmptyFile \in File /\ FileKept(EmptyFile)
    BY DEF EmptyFile, File, FileKept, Unique
  <2>5. closed' = [closed EXCEPT ![chain] = ledger.file, ![c] = EmptyFile]
    BY <1>7 DEF SwitchNetwork
  <2>6. closed' \in [Chain -> File] /\ \A d \in Chain : FileKept(closed'[d])
    BY <2>4, <2>5, TypeFacts DEF TypeOK, IdsKept
  <2>7. IdsKept'
    BY <2>1, <2>3, <2>6 DEF IdsKept
  <2>8. health' = [n \in Node |-> Unasked]
    BY <1>7 DEF SwitchNetwork
  <2>9. /\ health' \in [Node -> [online : BOOLEAN,
                                 failures : 0 .. FailuresBeforeFailover]]
        /\ HealthFits'
    BY <2>8, PaymentsAssumption DEF Unasked, HealthFits
  <2>10. TypeOK'
    BY <1>7, <2>3, <2>6, <2>9 DEF SwitchNetwork, TypeOK, network, history
  <2> QED
    BY <1>7, <2>7, <2>9, <2>10, FewerJobsFit DEF SwitchNetwork
<1> QED
  BY <1>1, <1>2, <1>3, <1>4, <1>5, <1>6, <1>7, ConfirmSendKeepsInv DEF Command

LEMMA TickKeepsInv == ASSUME Inv, Tick PROVE Inv'
<1> USE DEF Inv
<1>f. FailuresBeforeFailover \in Nat \ {0}
  BY PaymentsAssumption
<1>1. ASSUME NEW r \in ledger.mem, PollPending(r) PROVE Inv'
  <2>1. CheckNow(r)
    BY <1>1 DEF PollPending, CheckNow
  <2> QED
    BY <2>1, CommandKeepsInv DEF Command
<1>2. ASSUME NEW n \in Node, NEW online \in BOOLEAN, TipAnswered(n, online)
      PROVE  Inv'
  <2>1. health' = [health EXCEPT ![n] = [online |-> online, failures |-> 0]]
    BY <1>2 DEF TipAnswered
  <2>2. /\ health' \in [Node -> [online : BOOLEAN,
                                 failures : 0 .. FailuresBeforeFailover]]
        /\ HealthFits'
    BY <1>f, <2>1 DEF TypeOK, HealthFits
  <2>3. TypeOK'
    BY <1>2, <2>2 DEF TipAnswered, TypeOK, network, history
  <2> QED
    BY <1>2, <2>2, <2>3, FewerJobsFit, SameLedgerKeepsIds DEF TipAnswered
<1>3. ASSUME NEW n \in Node, NEW counted \in BOOLEAN, TipFailed(n, counted)
      PROVE  Inv'
  <2> DEFINE was  == health[n].failures
             more == IF counted /\ was < FailuresBeforeFailover
                     THEN was + 1 ELSE was
  <2>1. health' = [health EXCEPT ![n] = [online |-> FALSE, failures |-> more]]
    BY <1>3 DEF TipFailed
  <2>2. more \in 0 .. FailuresBeforeFailover
    BY <1>f DEF TypeOK
  <2> HIDE DEF more
  <2>3. /\ health' \in [Node -> [online : BOOLEAN,
                                 failures : 0 .. FailuresBeforeFailover]]
        /\ HealthFits'
    BY <2>1, <2>2 DEF TypeOK, HealthFits
  <2>4. active' \in Node
    BY <1>3 DEF TipFailed, FailOver, FailoverTargets, TypeOK
  <2>5. TypeOK'
    BY <1>3, <2>3, <2>4 DEF TipFailed, TypeOK, network, history
  <2> QED
    BY <1>3, <2>3, <2>5, FewerJobsFit, SameLedgerKeepsIds DEF TipFailed
<1> QED
  BY <1>1, <1>2, <1>3 DEF Tick

LEMMA FinishKeepsInv ==
    ASSUME Inv, NEW j \in jobs, Finish(j)
    PROVE  Inv'
<1> USE DEF Inv
<1>1. ASSUME NEW ok \in BOOLEAN, FinishPrepare(j, ok) PROVE Inv'
  <2>1. TypeOK'
    BY <1>1, TypeFacts DEF FinishPrepare, TypeOK, network, history
  <2> QED
    BY <1>1, <2>1, FewerJobsFit, SameLedgerKeepsIds, SameHealthFits
    DEF FinishPrepare
<1>2. ASSUME NEW w1 \in Write, NEW w2 \in Write,
             \/ FinishBroadcast(j, w1, w2)
             \/ FinishResend(j, w1, w2)
             \/ FinishCheck(j, w1, w2)
      PROVE  Inv'
  <2>1. IdsKept' /\ ledger' \in Ledger
    <3>1. closed' = closed
      BY <1>2 DEF FinishBroadcast, FinishResend, FinishCheck
    <3> QED
      BY <1>2, <3>1, FinishUpdates, UpdateKeepsIds
  <2>2. /\ jobs' = jobs \ {j}
        /\ UNCHANGED <<chain, closed, active, health, prepared, network,
                       history>>
    BY <1>2 DEF FinishBroadcast, FinishResend, FinishCheck
  <2>3. broadcasting' \in BOOLEAN /\ checking' \subseteq 0 .. MaxId
    BY <1>2 DEF FinishBroadcast, FinishResend, FinishCheck, TypeOK
  <2>4. TypeOK'
    BY <2>1, <2>2, <2>3 DEF TypeOK, network, history
  <2> QED
    BY <2>1, <2>2, <2>4, FewerJobsFit, SameHealthFits
<1> QED
  BY <1>1, <1>2 DEF Finish

\* An answer to what was asked keeps the jobs well formed.
LEMMA AnsweredFits ==
    ASSUME TypeOK, JobsFit, NEW j \in jobs, NEW a \in Answer, Answered(j, a),
           j.kind # "prepare",
           j.kind \in Handing => a \in {"ok", "uncertain", "refused"},
           j.kind = "check" => a \in {"has", "has_not", "unreached"}
    PROVE  jobs' \subseteq Job /\ JobsFit'
<1>1. j \in Job
  BY DEF TypeOK
<1> DEFINE k == [j EXCEPT !.answer = a]
<1>2. k \in Job
  BY <1>1 DEF Job
<1>3. k.kind = j.kind /\ k.answer = a
  BY <1>1 DEF Job
<1>4. jobs' = (jobs \ {j}) \cup {k}
  BY DEF Answered
<1> HIDE DEF k
<1> QED
  BY <1>2, <1>3, <1>4 DEF TypeOK, JobsFit

LEMMA RunKeepsInv ==
    ASSUME Inv, NEW j \in jobs, Run(j)
    PROVE  Inv'
<1> USE DEF Inv
<1>0. j \in Job /\ j.tx \in Tx /\ j.node \in Node
  BY TypeFacts DEF TypeOK
<1>1. ASSUME NEW a \in Answer, RunBroadcast(j, a) PROVE Inv'
  <2>1. a \in {"ok", "uncertain", "refused"}
    BY <1>1 DEF RunBroadcast, Taken, NotTaken
  <2>2. jobs' \subseteq Job /\ JobsFit'
    BY <1>1, <2>1, AnsweredFits DEF RunBroadcast, Handing
  <2>3. /\ seen' \in [Node -> SUBSET Tx]
        /\ taken' \subseteq Tx
        /\ denied' \subseteq Tx
    BY <1>0, <1>1 DEF RunBroadcast, Taken, NotTaken, network, TypeOK
  <2>4. TypeOK'
    BY <1>1, <2>2, <2>3 DEF RunBroadcast, TypeOK, actor, history
  <2> QED
    BY <1>1, <2>2, <2>4, SameLedgerKeepsIds, SameHealthFits
    DEF RunBroadcast, actor
<1>2. ASSUME NEW reached \in BOOLEAN, RunCheck(j, reached) PROVE Inv'
  <2> DEFINE a == IF ~reached THEN "unreached"
                  ELSE IF j.tx \in seen[j.node] THEN "has" ELSE "has_not"
  <2>1. a \in {"has", "has_not", "unreached"} /\ a \in Answer
    BY DEF Answer
  <2>2. Answered(j, a) /\ j.kind = "check"
    BY <1>2 DEF RunCheck
  <2> HIDE DEF a
  <2>3. jobs' \subseteq Job /\ JobsFit'
    BY <2>1, <2>2, AnsweredFits DEF Handing
  <2>4. denied' \subseteq Tx
    BY <1>0, <1>2 DEF RunCheck, TypeOK
  <2>5. TypeOK'
    BY <1>2, <2>3, <2>4 DEF RunCheck, TypeOK, actor, history
  <2> QED
    BY <1>2, <2>3, <2>5, SameLedgerKeepsIds, SameHealthFits
    DEF RunCheck, actor
<1> QED
  BY <1>1, <1>2 DEF Run

LEMMA WorldKeepsInv == ASSUME Inv, World PROVE Inv'
<1> USE DEF Inv
<1>1. ASSUME NEW j \in jobs, Panic(j) PROVE Inv'
  <2>1. TypeOK'
    BY <1>1 DEF Panic, TypeOK, actor, network, history
  <2> QED
    BY <1>1, <2>1, FewerJobsFit, SameLedgerKeepsIds, SameHealthFits
    DEF Panic, actor
<1>2. ASSUME Restart PROVE Inv'
  <2>1. ledger' = Opened(ledger.file) /\ ledger.file \in File
    BY <1>2, TypeFacts DEF Restart
  <2>2. FileKept(ledger.file)
    BY DEF IdsKept
  <2>3. /\ ledger' \in Ledger
        /\ ledger'.file = ledger.file
        /\ ledger'.next <= MaxId + 1
        /\ Unique(ledger'.mem)
        /\ \A r \in ledger'.mem : r.id < ledger'.next /\ r.id <= MaxId
    BY <2>1, <2>2, OpenKeepsIds
  <2>4. closed' = closed
    BY <1>2 DEF Restart
  <2>5. IdsKept'
    BY <2>2, <2>3, <2>4 DEF IdsKept
  <2>6. health' = [n \in Node |-> Unasked]
    BY <1>2 DEF Restart
  <2>7. /\ health' \in [Node -> [online : BOOLEAN,
                                 failures : 0 .. FailuresBeforeFailover]]
        /\ HealthFits'
    BY <2>6, PaymentsAssumption DEF Unasked, HealthFits
  <2>8. TypeOK'
    BY <1>2, <2>3, <2>7 DEF Restart, TypeOK, network, history
  <2> QED
    BY <1>2, <2>5, <2>7, <2>8, FewerJobsFit DEF Restart
<1>3. ASSUME NEW t \in Tx, NEW n \in Node, Gossip(t, n) \/ Forget(t, n)
      PROVE  Inv'
  <2>1. seen' \in [Node -> SUBSET Tx]
    BY <1>3 DEF Gossip, Forget, TypeOK
  <2>2. UNCHANGED <<actor, jobs, taken, denied, history>>
    BY <1>3 DEF Gossip, Forget
  <2>3. TypeOK'
    BY <2>1, <2>2 DEF TypeOK, actor, history
  <2> QED
    BY <2>2, <2>3, FewerJobsFit, SameLedgerKeepsIds, SameHealthFits
    DEF actor
<1> QED
  BY <1>1, <1>2, <1>3 DEF World

LEMMA InvNext == Inv /\ [Next]_vars => Inv'
<1>1. ASSUME Inv, UNCHANGED vars PROVE Inv'
  <2>1. TypeOK'
    BY <1>1 DEF Inv, TypeOK, vars, actor, network, history
  <2> QED
    BY <1>1, <2>1, FewerJobsFit, SameLedgerKeepsIds, SameHealthFits
    DEF Inv, vars, actor
<1> QED
  BY <1>1, CommandKeepsInv, TickKeepsInv, FinishKeepsInv, RunKeepsInv,
     WorldKeepsInv
  DEF Next

LEMMA InvHolds == Spec => []Inv
BY InvInit, InvNext, PTL DEF Spec

\* Every reachable state of a payment's life is well formed, whatever fails,
\* panics, restarts or arrives late, and on however many chains.
THEOREM TypeCorrect == Spec => []TypeOK
<1>1. Inv => TypeOK
  BY DEF Inv
<1> QED
  BY InvHolds, <1>1, PTL

\* fail_over leaves a node only after FailuresBeforeFailover failures in a row,
\* and only for one that owes nothing.
THEOREM NeverFlaps == Spec => NoFlapping
<1> DEFINE Steady ==
        active' # active /\ health' # health /\ chain' = chain =>
            /\ health'[active].failures = FailuresBeforeFailover
            /\ health'[active'].failures = 0
<1>1. Inv /\ Inv' /\ [Next]_vars => Steady
  <2> SUFFICES ASSUME Inv, Inv', [Next]_vars, active' # active,
                      health' # health, chain' = chain
               PROVE  /\ health'[active].failures = FailuresBeforeFailover
                      /\ health'[active'].failures = 0
    OBVIOUS
  <2>1. PICK n \in Node, b \in BOOLEAN : TipFailed(n, b)
    <3>1. Next
      BY DEF vars, actor
    <3>2. ~(\E j \in jobs : Finish(j) \/ Run(j))
      BY DEF Finish, Run, FinishPrepare, FinishBroadcast, FinishResend,
             FinishCheck, RunBroadcast, RunCheck, actor
    <3>3. ~World
      BY DEF World, Panic, Restart, Gossip, Forget, actor
    <3>4. ~Command
      BY DEF Command, PrepareSend, CancelSend, ConfirmSend, CheckNow,
             CheckPending, Resend, Abandon, SelectNode, SwitchNetwork, actor
    <3>5. Tick
      BY <3>1, <3>2, <3>3, <3>4 DEF Next
    <3> QED
      BY <3>5 DEF Tick, PollPending, CheckPending, TipAnswered
  <2>2. active' \in FailoverTargets(health')
    BY <2>1 DEF TipFailed, FailOver
  <2>3. ~(health'[active].failures < FailuresBeforeFailover)
    BY <2>2 DEF FailoverTargets
  <2>4. health'[active'].online /\ active' \in Node
    BY <2>2 DEF FailoverTargets
  <2>5. health'[active].failures \in 0 .. FailuresBeforeFailover
    BY DEF Inv, TypeOK
  <2>6. health'[active].failures = FailuresBeforeFailover
    BY <2>3, <2>5, PaymentsAssumption
  <2>7. health'[active'].failures = 0
    BY <2>4 DEF Inv, HealthFits
  <2> QED
    BY <2>6, <2>7
<1>2. Inv /\ Inv' /\ [Next]_vars => [Steady]_vars
  BY <1>1
<1> HIDE DEF Steady
<1>3. Spec => [][Steady]_vars
  BY InvHolds, <1>2, PTL DEF Spec
<1> QED
  BY <1>3 DEF NoFlapping, Steady

-----------------------------------------------------------------------------
(* While one chain is open: the bytes on their way are in the ledger *)

\* A job about a payment speaks of the record that has its id.
JobsKnown ==
    \A j \in jobs : j.kind # "prepare" =>
        /\ j.id < ledger.next
        /\ \A r \in ledger.mem : r.id = j.id => r.tx = j.tx

\* What a node has, or said it has, some node did accept.
TakenKnown ==
    /\ \A n \in Node : seen[n] \subseteq taken
    /\ \A j \in jobs : j.answer \in {"ok", "has"} => j.tx \in taken

Listed(S, t) == \E r \in S : r.tx = t /\ r.state # "confirmed"

\* Bytes no node has accepted yet and that are on their way are in memory, and
\* if it is for the first time, on disk.  Not the bytes of a resend: a write
\* that failed since may have left a file without them.
SentListed ==
    \A j \in jobs : j.kind \in Handing /\ j.answer = "none" /\ j.tx \notin taken =>
        /\ Listed(ledger.mem, j.tx)
        /\ j.kind = "broadcast" => Listed(ledger.file.records, j.tx)

\* Inductive, with Inv, for RecordedBeforeBroadcast.
Sure == JobsKnown /\ TakenKnown /\ SentListed

LEMMA SureInit == Init => Sure
BY DEF Init, Sure, JobsKnown, TakenKnown, SentListed

\* Steps that neither touch the ledger nor dispatch nor reach a node.
LEMMA QuietKeepsSure ==
    ASSUME Sure, ledger' = ledger, jobs' \subseteq jobs,
           UNCHANGED <<seen, taken>>
    PROVE  Sure'
BY DEF Sure, JobsKnown, TakenKnown, SentListed, Listed

\* Steps that update the ledger and confirm nothing that was not accepted.
LEMMA UpdateKeepsSure ==
    ASSUME Sure, NEW G, Updated(ledger, ledger', G),
           \A r \in ledger.mem : r.id \in G => r.tx \in taken,
           jobs' \subseteq jobs, UNCHANGED <<seen, taken>>
    PROVE  Sure'
<1>1. JobsKnown'
  BY DEF Sure, JobsKnown, Updated, Follows
<1>2. TakenKnown'
  BY DEF Sure, TakenKnown
<1>3. ASSUME NEW S, Retains(S, ledger.mem, G), NEW t, t \notin taken,
             Listed(ledger.mem, t)
      PROVE  Listed(S, t)
  BY <1>3 DEF Retains, Listed
<1>4. SentListed'
  BY <1>3 DEF Sure, SentListed, Updated
<1> QED
  BY <1>1, <1>2, <1>4 DEF Sure

\* Steps that dispatch a job about a record.
LEMMA DispatchKeepsSure ==
    ASSUME Inv, Sure, NEW kind \in {"resend", "check"}, NEW r \in ledger.mem,
           Dispatch(kind, r.id, r.tx), r.state # "confirmed",
           UNCHANGED <<ledger, seen, taken>>
    PROVE  Sure'
<1>1. PICK s \in Slot :
        jobs' = jobs \cup {[slot |-> s, kind |-> kind, id |-> r.id, tx |-> r.tx,
                            node |-> active, answer |-> "none"]}
  BY DEF Dispatch
<1>2. r.id < ledger.next /\ \A q \in ledger.mem : q.id = r.id => q.tx = r.tx
  BY DEF Inv, IdsKept, Unique
<1>3. JobsKnown'
  BY <1>1, <1>2 DEF Sure, JobsKnown
<1>4. TakenKnown'
  BY <1>1 DEF Sure, TakenKnown
<1>5. SentListed'
  BY <1>1 DEF Sure, SentListed, Listed, Handing
<1> QED
  BY <1>3, <1>4, <1>5 DEF Sure

LEMMA ConfirmSendKeepsSure ==
    ASSUME Inv, Sure, NEW t \in Tx, NEW wrote \in Write, ConfirmSend(t, wrote)
    PROVE  Sure'
<1> DEFINE new == [id |-> ledger.next, tx |-> t, checks |-> 0,
                   state |-> "uncertain"]
<1>0. /\ ledger \in Ledger /\ wrote \in BOOLEAN
      /\ ledger.next \in Nat
      /\ \A r \in ledger.mem : r.id \in Nat
      /\ \A j \in jobs : j.id \in Nat
  BY TypeFacts DEF Inv
<1>1. ledger' = Committed(ledger, t, wrote)
  BY DEF ConfirmSend
<1>2. /\ ledger'.mem = ledger.mem \cup {new}
      /\ ledger'.next = ledger.next + 1
      /\ wrote => ledger'.file = [readable |-> TRUE, records |-> ledger'.mem]
      /\ ~wrote => ledger'.file = ledger.file
  BY <1>0, <1>1, CommittedEffect
<1>3. wrote => ledger'.file.records = ledger'.mem
  BY <1>2
<1>4. new.id = ledger.next /\ new.tx = t /\ new.state # "confirmed"
  OBVIOUS
<1> HIDE DEF new
<1>5. /\ Listed(ledger'.mem, t)
      /\ \A u : Listed(ledger.mem, u) => Listed(ledger'.mem, u)
  BY <1>2, <1>4 DEF Listed
<1>6. seen' = seen /\ taken' = taken
  BY DEF ConfirmSend, network
<1>7. CASE ~wrote
  <2>1. jobs' = jobs
    BY <1>7 DEF ConfirmSend
  <2>2. JobsKnown'
    BY <1>0, <1>2, <1>4, <2>1 DEF Sure, JobsKnown
  <2>3. TakenKnown'
    BY <1>6, <2>1 DEF Sure, TakenKnown
  <2>4. SentListed'
    BY <1>2, <1>5, <1>6, <1>7, <2>1 DEF Sure, SentListed
  <2> QED
    BY <2>2, <2>3, <2>4 DEF Sure
<1>8. CASE wrote
  <2>1. PICK s \in Slot :
          jobs' = jobs \cup {[slot |-> s, kind |-> "broadcast",
                              id |-> ledger.next, tx |-> t,
                              node |-> active, answer |-> "none"]}
    BY <1>8 DEF ConfirmSend, HandOver, Dispatch
  <2>2. JobsKnown'
    <3>1. \A r \in ledger.mem : r.id # ledger.next
      BY <1>0 DEF Inv, IdsKept
    <3>2. \A j \in jobs : j.kind # "prepare" => j.id # ledger.next
      BY <1>0 DEF Sure, JobsKnown
    <3>3. \A j \in jobs : j.kind # "prepare" => j.id < ledger'.next
      BY <1>0, <1>2 DEF Sure, JobsKnown
    <3> QED
      BY <1>0, <1>2, <1>4, <2>1, <3>1, <3>2, <3>3 DEF Sure, JobsKnown
  <2>3. TakenKnown'
    BY <1>6, <2>1 DEF Sure, TakenKnown
  <2>4. SentListed'
    BY <1>3, <1>5, <1>6, <1>8, <2>1 DEF Sure, SentListed
  <2> QED
    BY <2>2, <2>3, <2>4 DEF Sure
<1> QED
  BY <1>0, <1>7, <1>8

LEMMA SureNext ==
    ASSUME Chain = {FirstChain}, Inv, Sure, [Next]_vars
    PROVE  Sure'
<1>0. \A r \in ledger.mem : r.id \in Nat /\ r.tx \in Tx
  BY TypeFacts DEF Inv
<1>1. ASSUME NEW t \in Tx, PrepareSend(t) PROVE Sure'
  <2>1. PICK s \in Slot :
          jobs' = jobs \cup {[slot |-> s, kind |-> "prepare", id |-> 0, tx |-> t,
                              node |-> active, answer |-> "none"]}
    BY <1>1 DEF PrepareSend, Dispatch
  <2>2. UNCHANGED <<ledger, seen, taken>>
    BY <1>1 DEF PrepareSend, actor, network
  <2> QED
    BY <2>1, <2>2
    DEF Sure, JobsKnown, TakenKnown, SentListed, Listed, Handing
<1>2. ASSUME NEW t \in Tx, CancelSend(t) PROVE Sure'
  BY <1>2, QuietKeepsSure DEF CancelSend, network
<1>3. ASSUME NEW t \in Tx, NEW wrote \in Write, ConfirmSend(t, wrote)
      PROVE  Sure'
  BY <1>3, ConfirmSendKeepsSure
<1>4. ASSUME NEW r \in ledger.mem, CheckNow(r) \/ PollPending(r) PROVE Sure'
  <2>1. r.state # "confirmed"
    BY <1>4 DEF CheckNow, PollPending, Unresolved
  <2> QED
    BY <1>4, <2>1, DispatchKeepsSure
    DEF CheckNow, PollPending, CheckPending, network
<1>5. ASSUME NEW r \in ledger.mem, Resend(r) PROVE Sure'
  BY <1>5, DispatchKeepsSure DEF Resend, ResendOffered, HandOver, network
<1>6. ASSUME NEW r \in ledger.mem, NEW wrote \in Write, Abandon(r, wrote)
      PROVE  Sure'
  <2>1. ledger \in Ledger /\ wrote \in BOOLEAN
    BY TypeFacts DEF Inv
  <2>2. /\ "abandoned" \in State
        /\ "abandoned" \notin {"uncertain", "absent", "confirmed"}
    BY DEF State
  <2>3. Updated(ledger, ledger', {})
    BY <1>0, <1>6, <2>1, <2>2, StateSetUpdates DEF Abandon
  <2>4. jobs' = jobs /\ UNCHANGED <<seen, taken>>
    BY <1>6 DEF Abandon, network
  <2> QED
    BY <2>3, <2>4, UpdateKeepsSure
<1>7. ASSUME NEW n \in Node, SelectNode(n) PROVE Sure'
  BY <1>7, QuietKeepsSure DEF SelectNode, network
<1>8. ASSUME NEW c \in Chain PROVE ~SwitchNetwork(c)
  BY DEF SwitchNetwork, Inv, TypeOK
<1>9. ASSUME NEW n \in Node, NEW b \in BOOLEAN,
             TipAnswered(n, b) \/ TipFailed(n, b)
      PROVE  Sure'
  BY <1>9, QuietKeepsSure DEF TipAnswered, TipFailed, network
<1>10. ASSUME NEW j \in jobs, NEW ok \in BOOLEAN, FinishPrepare(j, ok)
       PROVE  Sure'
  BY <1>10, QuietKeepsSure DEF FinishPrepare, network
<1>11. ASSUME NEW j \in jobs, NEW w1 \in Write, NEW w2 \in Write,
              \/ FinishBroadcast(j, w1, w2)
              \/ FinishResend(j, w1, w2)
              \/ FinishCheck(j, w1, w2)
       PROVE  Sure'
  <2> DEFINE G == IF j.answer \in {"ok", "has"} THEN {j.id} ELSE {}
  <2>1. Updated(ledger, ledger', G)
    BY <1>11, FinishUpdates DEF Inv
  <2>2. j.kind # "prepare"
    BY <1>11 DEF FinishBroadcast, FinishResend, FinishCheck
  <2>3. \A r \in ledger.mem : r.id \in G => r.tx \in taken
    BY <2>2 DEF Sure, JobsKnown, TakenKnown
  <2>4. jobs' \subseteq jobs /\ UNCHANGED <<seen, taken>>
    BY <1>11 DEF FinishBroadcast, FinishResend, FinishCheck, network
  <2> HIDE DEF G
  <2> QED
    BY <2>1, <2>3, <2>4, UpdateKeepsSure
<1>12. ASSUME NEW j \in jobs, NEW a \in Answer, RunBroadcast(j, a)
       PROVE  Sure'
  <2> DEFINE k == [j EXCEPT !.answer = a]
  <2>1. j \in Job /\ j.tx \in Tx /\ j.node \in Node
    BY TypeFacts DEF Inv, TypeOK
  <2>2. /\ k.kind = j.kind /\ k.id = j.id /\ k.tx = j.tx /\ k.answer = a
    BY <2>1 DEF Job
  <2>3. jobs' = (jobs \ {j}) \cup {k} /\ ledger' = ledger
    BY <1>12 DEF RunBroadcast, Answered, actor
  <2>4. a \in {"ok", "uncertain", "refused"} /\ taken \subseteq taken'
    BY <1>12 DEF RunBroadcast, Taken, NotTaken, network
  <2>5. a = "ok" => j.tx \in taken'
    BY <1>12 DEF RunBroadcast, Taken, NotTaken
  <2>6. \A n \in Node : seen'[n] \subseteq taken'
    BY <1>12, <2>1
    DEF RunBroadcast, Taken, NotTaken, network, Sure, TakenKnown, Inv, TypeOK
  <2> HIDE DEF k
  <2>7. JobsKnown'
    BY <2>2, <2>3 DEF Sure, JobsKnown
  <2>8. TakenKnown'
    BY <2>2, <2>3, <2>4, <2>5, <2>6 DEF Sure, TakenKnown
  <2>9. SentListed'
    BY <2>2, <2>3, <2>4 DEF Sure, SentListed, Listed
  <2> QED
    BY <2>7, <2>8, <2>9 DEF Sure
<1>13. ASSUME NEW j \in jobs, NEW reached \in BOOLEAN, RunCheck(j, reached)
       PROVE  Sure'
  <2> DEFINE a == IF ~reached THEN "unreached"
                  ELSE IF j.tx \in seen[j.node] THEN "has" ELSE "has_not"
             k == [j EXCEPT !.answer = a]
  <2>1. j \in Job /\ j.tx \in Tx /\ j.node \in Node
    BY TypeFacts DEF Inv, TypeOK
  <2>2. /\ k.kind = j.kind /\ k.id = j.id /\ k.tx = j.tx /\ k.answer = a
    BY <2>1 DEF Job
  <2>3. /\ jobs' = (jobs \ {j}) \cup {k}
        /\ UNCHANGED <<ledger, seen, taken>>
        /\ j.kind = "check"
    BY <1>13 DEF RunCheck, Answered, actor
  <2>4. a \in {"ok", "has"} => j.tx \in taken
    BY <2>1 DEF Sure, TakenKnown
  <2>5. a # "none"
    OBVIOUS
  <2> HIDE DEF a, k
  <2>6. JobsKnown'
    BY <2>2, <2>3 DEF Sure, JobsKnown
  <2>7. TakenKnown'
    BY <2>2, <2>3, <2>4 DEF Sure, TakenKnown
  <2>8. SentListed'
    BY <2>2, <2>3, <2>5 DEF Sure, SentListed, Listed
  <2> QED
    BY <2>6, <2>7, <2>8 DEF Sure
<1>14. ASSUME NEW j \in jobs, Panic(j) PROVE Sure'
  BY <1>14, QuietKeepsSure DEF Panic, actor, network
<1>15. ASSUME Restart PROVE Sure'
  <2>1. jobs' = {} /\ UNCHANGED <<seen, taken>>
    BY <1>15 DEF Restart, network
  <2> QED
    BY <2>1 DEF Sure, JobsKnown, TakenKnown, SentListed
<1>16. ASSUME NEW t \in Tx, NEW n \in Node, Gossip(t, n) \/ Forget(t, n)
       PROVE  Sure'
  <2>1. \A m \in Node : seen'[m] \subseteq taken'
    BY <1>16 DEF Gossip, Forget, Sure, TakenKnown, Inv, TypeOK
  <2>2. UNCHANGED <<ledger, jobs, taken>>
    BY <1>16 DEF Gossip, Forget, actor
  <2> QED
    BY <2>1, <2>2 DEF Sure, JobsKnown, TakenKnown, SentListed, Listed
<1>17. CASE UNCHANGED vars
  BY <1>17, QuietKeepsSure DEF vars, actor, network
<1> QED
  BY <1>1, <1>2, <1>3, <1>4, <1>5, <1>6, <1>7, <1>8, <1>9, <1>10, <1>11,
     <1>12, <1>13, <1>14, <1>15, <1>16, <1>17
  DEF Next, Command, Tick, Finish, Run, World

\* confirm_send commits before it hands over: while one chain is open, whatever
\* writes fail, the bytes no node has yet are on disk before one can have them.
THEOREM RecordedFirst ==
    ASSUME Chain = {FirstChain}
    PROVE  Spec => []RecordedBeforeBroadcast
<1>1. Sure => RecordedBeforeBroadcast
  BY DEF Sure, SentListed, Listed, Handing, RecordedBeforeBroadcast, OnFile
<1>2. Inv /\ Sure /\ [Next]_vars => Sure'
  BY SureNext
<1> QED
  BY SureInit, InvHolds, <1>1, <1>2, PTL DEF Spec

-----------------------------------------------------------------------------
(* While every write succeeds: a signed payment is committed once *)

\* t has been committed: it is in a ledger, on its way or with a node.
Spent(t) ==
    \/ \E r \in ledger.mem : r.tx = t
    \/ \E r \in ledger.file.records : r.tx = t
    \/ \E c \in Chain : \E r \in closed[c].records : r.tx = t
    \/ \E j \in jobs : j.kind \in Handing /\ j.tx = t
    \/ t \in taken

\* t has been asked for and not shown yet.
Building(t) == \E j \in jobs : j.kind = "prepare" /\ j.tx = t

\* Inductive, with Inv, for TicketSpentOnce: a payment is being built, or
\* awaits its confirmation, or was committed, one after the other.
Once ==
    /\ \A t \in Tx : Spent(t) \/ t \in prepared \/ Building(t) => t \in signed
    /\ \A t \in Tx : Spent(t) => t \notin prepared /\ ~Building(t)
    /\ \A t \in prepared : ~Building(t)
    /\ \A j, k \in jobs :
        j.kind = "prepare" /\ k.kind = "prepare" /\ j.tx = k.tx => j = k

LEMMA OnceInit == Init => Once
<1> SUFFICES ASSUME Init PROVE Once
  OBVIOUS
<1>1. EmptyFile \in File /\ FileKept(EmptyFile) /\ EmptyFile.records = {}
  BY DEF EmptyFile, File, FileKept, Unique
<1>2. /\ ledger.file = EmptyFile
      /\ ledger.mem = {}
  BY <1>1, OpenKeepsIds DEF Init
<1> QED
  BY <1>1, <1>2 DEF Init, Once, Spent, Building

\* Steps that commit nothing, prepare nothing and build nothing new.
LEMMA NothingNewOnce ==
    ASSUME Once,
           \A t \in Tx : Spent(t)' => Spent(t),
           prepared' \subseteq prepared,
           \A j \in jobs' : j.kind = "prepare" => j \in jobs,
           signed' = signed
    PROVE  Once'
<1>1. \A t \in Tx : Building(t)' => Building(t)
  BY DEF Building
<1>2. prepared' \subseteq Tx \/ \A t \in prepared' : ~Building(t)'
  BY DEF Once, Building
<1> QED
  BY <1>1, <1>2 DEF Once, Building

\* An update of the ledger commits nothing.
LEMMA UpdateSpendsNothing ==
    ASSUME NEW G, Updated(ledger, ledger', G), closed' = closed,
           jobs' \subseteq jobs, taken' = taken
    PROVE  \A t \in Tx : Spent(t)' => Spent(t)
BY DEF Updated, Follows, Spent

LEMMA OnceNext ==
    ASSUME ~WritesFail, Inv, Once, [Next]_vars
    PROVE  Once'
<1>0. /\ \A r \in ledger.mem : r.id \in Nat /\ r.tx \in Tx
      /\ \A j \in jobs : j.tx \in Tx
      /\ prepared \subseteq Tx
      /\ Write = {TRUE}
  BY TypeFacts DEF Inv, TypeOK, Write
<1>1. ASSUME NEW t \in Tx, PrepareSend(t) PROVE Once'
  <2>1. PICK s \in Slot :
          jobs' = jobs \cup {[slot |-> s, kind |-> "prepare", id |-> 0, tx |-> t,
                              node |-> active, answer |-> "none"]}
    BY <1>1 DEF PrepareSend, Dispatch
  <2>2. /\ t \notin signed /\ signed' = signed \cup {t}
        /\ UNCHANGED <<ledger, closed, prepared, taken>>
    BY <1>1 DEF PrepareSend, actor, network
  <2>3. \A u \in Tx : Spent(u)' => Spent(u)
    BY <2>1, <2>2 DEF Spent, Handing
  <2>4. \A u \in Tx : Building(u)' => Building(u) \/ u = t
    BY <2>1 DEF Building
  <2>5. ~Spent(t) /\ t \notin prepared /\ ~Building(t)
    BY <2>2 DEF Once
  <2>6. \A j, k \in jobs' :
          j.kind = "prepare" /\ k.kind = "prepare" /\ j.tx = k.tx => j = k
    BY <2>1, <2>5 DEF Once, Building
  <2> QED
    BY <1>0, <2>2, <2>3, <2>4, <2>5, <2>6 DEF Once
<1>2. ASSUME NEW t \in Tx, CancelSend(t) PROVE Once'
  BY <1>2, NothingNewOnce DEF CancelSend, network, history, Spent
<1>3. ASSUME NEW t \in Tx, NEW wrote \in Write, ConfirmSend(t, wrote)
      PROVE  Once'
  <2>1. wrote
    BY <1>0
  <2>2. PICK s \in Slot :
          jobs' = jobs \cup {[slot |-> s, kind |-> "broadcast",
                              id |-> ledger.next, tx |-> t,
                              node |-> active, answer |-> "none"]}
    BY <1>3, <2>1 DEF ConfirmSend, HandOver, Dispatch
  <2>3. /\ t \in prepared /\ prepared' = prepared \ {t}
        /\ ledger' = Committed(ledger, t, wrote)
        /\ UNCHANGED <<closed, taken, signed>>
    BY <1>3, <2>1 DEF ConfirmSend, network
  <2>4. ledger \in Ledger /\ wrote \in BOOLEAN
    BY <2>1, TypeFacts DEF Inv
  <2>5. /\ \A r \in ledger'.mem : r \in ledger.mem \/ r.tx = t
        /\ ledger'.file.records = ledger'.mem
    <3>1. /\ ledger'.mem = ledger.mem \cup {[id |-> ledger.next, tx |-> t,
                                             checks |-> 0, state |-> "uncertain"]}
          /\ wrote => ledger'.file = [readable |-> TRUE, records |-> ledger'.mem]
      BY <2>3, <2>4, CommittedEffect
    <3> QED
      BY <2>1, <3>1
  <2>6. \A u \in Tx : Spent(u)' => Spent(u) \/ u = t
    BY <2>2, <2>3, <2>5 DEF Spent
  <2>7. \A u \in Tx : Building(u)' => Building(u)
    BY <2>2 DEF Building
  <2>8. ~Building(t) /\ t \in signed
    BY <2>3 DEF Once
  <2>9. \A j, k \in jobs' :
          j.kind = "prepare" /\ k.kind = "prepare" /\ j.tx = k.tx => j = k
    BY <2>2 DEF Once
  <2> QED
    BY <1>0, <2>3, <2>6, <2>7, <2>8, <2>9 DEF Once
<1>4. ASSUME NEW r \in ledger.mem, CheckNow(r) \/ PollPending(r) PROVE Once'
  <2>1. Dispatch("check", r.id, r.tx)
    BY <1>4 DEF CheckNow, PollPending, CheckPending
  <2>2. UNCHANGED <<ledger, closed, prepared, taken, signed>>
    BY <1>4 DEF CheckNow, PollPending, CheckPending, network, history
  <2> QED
    BY <2>1, <2>2, NothingNewOnce DEF Dispatch, Spent, Handing
<1>5. ASSUME NEW r \in ledger.mem, Resend(r) PROVE Once'
  <2>1. Dispatch("resend", r.id, r.tx)
    BY <1>5 DEF Resend, HandOver
  <2>2. UNCHANGED <<ledger, closed, prepared, taken, signed>>
    BY <1>5 DEF Resend, network
  <2> QED
    BY <2>1, <2>2, NothingNewOnce DEF Dispatch, Spent
<1>6. ASSUME NEW r \in ledger.mem, NEW wrote \in Write, Abandon(r, wrote)
      PROVE  Once'
  <2>1. ledger \in Ledger /\ wrote \in BOOLEAN
    BY TypeFacts DEF Inv
  <2>2. /\ "abandoned" \in State
        /\ "abandoned" \notin {"uncertain", "absent", "confirmed"}
    BY DEF State
  <2>3. Updated(ledger, ledger', {})
    BY <1>0, <1>6, <2>1, <2>2, StateSetUpdates DEF Abandon
  <2>4. UNCHANGED <<closed, prepared, jobs, taken, signed>>
    BY <1>6 DEF Abandon, network, history
  <2> QED
    BY <2>3, <2>4, UpdateSpendsNothing, NothingNewOnce
<1>7. ASSUME NEW n \in Node, SelectNode(n) PROVE Once'
  BY <1>7, NothingNewOnce DEF SelectNode, network, Spent
<1>8. ASSUME NEW c \in Chain, SwitchNetwork(c) PROVE Once'
  <2>1. /\ ledger' = Opened(closed[c])
        /\ closed' = [closed EXCEPT ![chain] = ledger.file, ![c] = EmptyFile]
        /\ prepared' = {}
        /\ UNCHANGED <<jobs, taken, signed>>
    BY <1>8 DEF SwitchNetwork, network, history
  <2>2. /\ ledger'.mem \subseteq closed[c].records
        /\ ledger'.file = closed[c]
    BY <2>1, OpenKeepsIds DEF Inv, TypeOK, IdsKept
  <2>3. ASSUME NEW d \in Chain
        PROVE  closed'[d] \in {closed[d], ledger.file, EmptyFile}
    BY <2>1 DEF Inv, TypeOK
  <2>4. EmptyFile.records = {}
    BY DEF EmptyFile
  <2>5. \A t \in Tx : Spent(t)' => Spent(t)
    BY <2>1, <2>2, <2>3, <2>4 DEF Spent
  <2> QED
    BY <2>1, <2>5, NothingNewOnce
<1>9. ASSUME NEW n \in Node, NEW b \in BOOLEAN,
             TipAnswered(n, b) \/ TipFailed(n, b)
      PROVE  Once'
  BY <1>9, NothingNewOnce DEF TipAnswered, TipFailed, network, history, Spent
<1>10. ASSUME NEW j \in jobs, NEW ok \in BOOLEAN, FinishPrepare(j, ok)
       PROVE  Once'
  <2>1. /\ prepared' \subseteq prepared \cup {j.tx}
        /\ jobs' = jobs \ {j} /\ j.kind = "prepare"
        /\ UNCHANGED <<ledger, closed, taken, signed>>
    BY <1>10 DEF FinishPrepare, network, history
  <2>2. \A t \in Tx : Spent(t)' => Spent(t)
    BY <2>1 DEF Spent
  <2>3. Building(j.tx) /\ j.tx \in Tx
    BY <1>0, <2>1 DEF Building
  <2>4. \A t \in Tx : Building(t)' => Building(t) /\ t # j.tx
    BY <2>1 DEF Building, Once
  <2>5. \A k, l \in jobs' :
          k.kind = "prepare" /\ l.kind = "prepare" /\ k.tx = l.tx => k = l
    BY <2>1 DEF Once
  <2>6. prepared' \subseteq Tx
    BY <1>0, <2>1
  <2> QED
    BY <2>1, <2>2, <2>3, <2>4, <2>5, <2>6 DEF Once
<1>11. ASSUME NEW j \in jobs, NEW w1 \in Write, NEW w2 \in Write,
              \/ FinishBroadcast(j, w1, w2)
              \/ FinishResend(j, w1, w2)
              \/ FinishCheck(j, w1, w2)
       PROVE  Once'
  <2>1. PICK G : Updated(ledger, ledger', G)
    BY <1>11, FinishUpdates DEF Inv
  <2>2. jobs' = jobs \ {j} /\ UNCHANGED <<closed, prepared, taken, signed>>
    BY <1>11
    DEF FinishBroadcast, FinishResend, FinishCheck, network, history
  <2>3. jobs' \subseteq jobs
    BY <2>2
  <2> QED
    BY <2>1, <2>2, <2>3, UpdateSpendsNothing, NothingNewOnce
<1>12. ASSUME NEW j \in jobs, NEW a \in Answer,
              j.kind # "prepare", Answered(j, a),
              UNCHANGED <<ledger, closed, prepared, signed>>,
              \/ taken' = taken
              \/ j.kind \in Handing /\ taken' = taken \cup {j.tx}
       PROVE  Once'
  <2> DEFINE k == [j EXCEPT !.answer = a]
  <2>1. k.kind = j.kind /\ k.tx = j.tx
    BY DEF Inv, TypeOK, Job
  <2>2. jobs' = (jobs \ {j}) \cup {k}
    BY <1>12 DEF Answered
  <2> HIDE DEF k
  <2>3. \A t \in Tx : Spent(t)' => Spent(t)
    BY <1>12, <2>1, <2>2 DEF Spent
  <2> QED
    BY <1>12, <2>1, <2>2, <2>3, NothingNewOnce
<1>13. ASSUME NEW j \in jobs, NEW a \in Answer, RunBroadcast(j, a)
       PROVE  Once'
  <2>1. \/ taken' = taken
        \/ j.kind \in Handing /\ taken' = taken \cup {j.tx}
    BY <1>13 DEF RunBroadcast, Taken, NotTaken, network, Handing
  <2> QED
    BY <1>12, <1>13, <2>1 DEF RunBroadcast, actor, history
<1>14. ASSUME NEW j \in jobs, NEW reached \in BOOLEAN, RunCheck(j, reached)
       PROVE  Once'
  <2>1. PICK a \in Answer : Answered(j, a)
    BY <1>14 DEF RunCheck, Answer
  <2> QED
    BY <1>12, <1>14, <2>1 DEF RunCheck, actor, history
<1>15. ASSUME NEW j \in jobs, Panic(j) PROVE Once'
  BY <1>15, NothingNewOnce DEF Panic, actor, network, history, Spent
<1>16. ASSUME Restart PROVE Once'
  <2>1. /\ ledger' = Opened(ledger.file)
        /\ prepared' = {} /\ jobs' = {}
        /\ UNCHANGED <<closed, taken, signed>>
    BY <1>16 DEF Restart, network, history
  <2>2. /\ ledger'.mem \subseteq ledger.file.records
        /\ ledger'.file = ledger.file
    BY <2>1, OpenKeepsIds, TypeFacts DEF Inv, IdsKept
  <2>3. \A t \in Tx : Spent(t)' => Spent(t)
    BY <2>1, <2>2 DEF Spent
  <2> QED
    BY <2>1, <2>3, NothingNewOnce
<1>17. ASSUME NEW t \in Tx, NEW n \in Node, Gossip(t, n) \/ Forget(t, n)
       PROVE  Once'
  <2>1. UNCHANGED <<ledger, closed, prepared, jobs, taken, signed>>
    BY <1>17 DEF Gossip, Forget, actor, history
  <2> QED
    BY <2>1, NothingNewOnce DEF Spent
<1>18. CASE UNCHANGED vars
  <2>1. UNCHANGED <<ledger, closed, prepared, jobs, taken, signed>>
    BY <1>18 DEF vars, actor, network, history
  <2> QED
    BY <2>1, NothingNewOnce DEF Spent
<1> QED
  BY <1>1, <1>2, <1>3, <1>4, <1>5, <1>6, <1>7, <1>8, <1>9, <1>10, <1>11,
     <1>13, <1>14, <1>15, <1>16, <1>17, <1>18
  DEF Next, Command, Tick, Finish, Run, World

\* A confirmed ticket is used up: while every write succeeds, no payment that
\* waits for its confirmation is in a ledger, on any chain.
THEOREM TicketsSpentOnce ==
    ASSUME ~WritesFail
    PROVE  Spec => []TicketSpentOnce
<1>1. Inv /\ Once => TicketSpentOnce
  <2> SUFFICES ASSUME Inv, Once, NEW t \in prepared
               PROVE  /\ \A r \in ledger.mem : r.tx # t
                      /\ \A c \in Chain : \A r \in closed[c].records : r.tx # t
    BY DEF TicketSpentOnce
  <2>1. t \in Tx
    BY DEF Inv, TypeOK
  <2> QED
    BY <2>1 DEF Once, Spent
<1>2. Inv /\ Once /\ [Next]_vars => Once'
  BY OnceNext
<1> QED
  BY OnceInit, InvHolds, <1>1, <1>2, PTL DEF Spec

-----------------------------------------------------------------------------
(* While one chain is open and every write succeeds: the file is what memory *)
(* holds, and nothing confirmed stays in either                              *)

Written(L) ==
    /\ L.file = [readable |-> TRUE, records |-> L.mem]
    /\ \A r \in L.mem : r.state # "confirmed"

LEMMA CommittedWritten ==
    ASSUME NEW L \in Ledger, NEW wrote \in BOOLEAN,
           NEW t \in Tx, Written(L)
    PROVE  wrote => Written(Committed(L, t, wrote))
<1> DEFINE new == [id |-> L.next, tx |-> t, checks |-> 0,
                   state |-> "uncertain"]
           M == Committed(L, t, wrote)
<1>1. /\ M.mem = L.mem \cup {new}
      /\ M.next = L.next + 1
      /\ wrote => M.file = [readable |-> TRUE, records |-> M.mem]
      /\ ~wrote => M.file = L.file
  BY CommittedEffect
<1>2. new.state # "confirmed"
  OBVIOUS
<1> HIDE DEF new, M
<1>3. wrote => Written(M)
  BY <1>1, <1>2 DEF Written
<1> QED
  BY <1>3 DEF M

LEMMA StateSetWritten ==
    ASSUME NEW L \in Ledger, NEW wrote \in BOOLEAN,
           NEW id \in Nat, NEW s \in State,
           s # "confirmed", Written(L)
    PROVE  wrote => Written(StateSet(L, id, s, wrote))
<1> DEFINE F(r) == IF r.id = id THEN [r EXCEPT !.state = s] ELSE r
           M == StateSet(L, id, s, wrote)
<1>1. /\ M.mem = {F(r) : r \in L.mem}
      /\ M.next = L.next
      /\ wrote => M.file = [readable |-> TRUE, records |-> M.mem]
      /\ ~wrote => M.file = L.file
  BY StateSetEffect
<1>2. \A r \in L.mem : F(r).state # "confirmed"
  BY DEF Ledger, Record, Written
<1> HIDE DEF F, M
<1>3. wrote => Written(M)
  BY <1>1, <1>2 DEF Written
<1> QED
  BY <1>3 DEF M

LEMMA CheckNotedWritten ==
    ASSUME NEW L \in Ledger, NEW id \in Nat, Written(L)
    PROVE  Written(CheckNoted(L, id, TRUE))
<1> DEFINE F(r) == IF r.id = id /\ r.checks < AbsentAfter
                   THEN [r EXCEPT !.checks = @ + 1] ELSE r
           M == CheckNoted(L, id, TRUE)
<1>1. /\ M.mem = {F(r) : r \in L.mem}
      /\ M.file = [readable |-> TRUE, records |-> M.mem]
  BY ZenonT(40), CheckNotedEffect
<1>2. \A r \in L.mem : F(r).state # "confirmed"
  BY DEF Ledger, Record, Written
<1> HIDE DEF F, M
<1>3. Written(M)
  BY <1>1, <1>2 DEF Written
<1> QED
  BY <1>3 DEF M

LEMMA SettledWritten ==
    ASSUME TypeOK, NEW id \in Nat
    PROVE  Written(Settled(id, TRUE, TRUE))
<1> DEFINE L == StateSet(ledger, id, "confirmed", TRUE)
           M == ConfirmedForgotten(L, TRUE)
<1>1. L \in Ledger
  BY TypeFacts, OperationsTyped DEF State
<1> HIDE DEF L
<1>2. /\ M.mem = {r \in L.mem : r.state # "confirmed"}
      /\ M.file = [readable |-> TRUE, records |-> M.mem]
  BY <1>1, ConfirmedForgottenEffect
<1> HIDE DEF M
<1>3. Written(M)
  BY <1>2 DEF Written
<1> QED
  BY <1>3 DEF M, L, Settled

LEMMA FruitlessWritten ==
    ASSUME TypeOK, NEW id \in Nat, Written(ledger)
    PROVE  Written(Fruitless(id, TRUE, TRUE))
<1> DEFINE noted == CheckNoted(ledger, id, TRUE)
<1>1. noted \in Ledger /\ Written(noted)
  BY TypeFacts, OperationsTyped, CheckNotedWritten
<1> HIDE DEF noted
<1>2. Written(StateSet(noted, id, "absent", TRUE))
  BY <1>1, StateSetWritten DEF State
<1> QED
  BY <1>1, <1>2 DEF Fruitless, noted

\* Everything written, as an invariant of the payments.
OnDisk == Written(ledger)

LEMMA OnDiskInit == Init => OnDisk
<1> SUFFICES ASSUME Init PROVE OnDisk
  OBVIOUS
<1>1. EmptyFile \in File /\ FileKept(EmptyFile)
  BY DEF EmptyFile, File, FileKept, Unique
<1>2. ledger = Opened(EmptyFile)
  BY DEF Init
<1>3. ledger.file = EmptyFile /\ ledger.mem = {}
  BY <1>1, <1>2, OpenKeepsIds DEF EmptyFile
<1> QED
  BY <1>3 DEF OnDisk, Written, EmptyFile

LEMMA OnDiskNext ==
    ASSUME Chain = {FirstChain}, ~WritesFail, Inv, OnDisk, [Next]_vars
    PROVE  OnDisk'
<1>0. /\ ledger \in Ledger /\ Write = {TRUE}
      /\ \A r \in ledger.mem : r.id \in Nat
      /\ \A j \in jobs : j.id \in Nat
  BY TypeFacts DEF Inv, Write
<1>1. ASSUME ledger' = ledger PROVE OnDisk'
  BY <1>1 DEF OnDisk, Written
<1>2. ASSUME NEW t \in Tx, NEW wrote \in Write, ConfirmSend(t, wrote)
      PROVE  OnDisk'
  <2>1. ledger' = Committed(ledger, t, wrote) /\ wrote
    BY <1>0, <1>2 DEF ConfirmSend
  <2> QED
    BY <1>0, <2>1, CommittedWritten DEF OnDisk
<1>3. ASSUME NEW r \in ledger.mem, NEW wrote \in Write, Abandon(r, wrote)
      PROVE  OnDisk'
  <2>1. ledger' = StateSet(ledger, r.id, "abandoned", TRUE)
    BY <1>0, <1>3 DEF Abandon
  <2> QED
    BY <1>0, <2>1, StateSetWritten DEF OnDisk, State
<1>4. ASSUME NEW c \in Chain PROVE ~SwitchNetwork(c)
  BY DEF SwitchNetwork, Inv, TypeOK
<1>5. ASSUME NEW j \in jobs, NEW w1 \in Write, NEW w2 \in Write,
             \/ FinishBroadcast(j, w1, w2)
             \/ FinishResend(j, w1, w2)
             \/ FinishCheck(j, w1, w2)
      PROVE  OnDisk'
  <2>0. j.id \in Nat /\ w1 = TRUE /\ w2 = TRUE /\ TypeOK
    BY <1>0 DEF Inv
  <2>1. Written(Settled(j.id, w1, w2))
    BY <2>0, SettledWritten
  <2>2. Written(Fruitless(j.id, w1, w2))
    BY <2>0, FruitlessWritten DEF OnDisk
  <2>3. /\ Written(StateSet(ledger, j.id, "abandoned", w1))
        /\ Written(StateSet(ledger, j.id, "resent", w1))
    BY <1>0, <2>0, StateSetWritten DEF OnDisk, State
  <2>4. CASE FinishBroadcast(j, w1, w2)
    <3>1. j.answer \in {"ok", "uncertain", "refused"}
      BY <2>4 DEF FinishBroadcast, Inv, JobsFit, Handing
    <3> QED
      BY <2>1, <2>3, <2>4, <3>1 DEF FinishBroadcast, AfterBroadcast, OnDisk
  <2>5. CASE FinishResend(j, w1, w2)
    BY <2>1, <2>3, <2>5 DEF FinishResend, OnDisk
  <2>6. CASE FinishCheck(j, w1, w2)
    BY <2>1, <2>2, <2>6 DEF FinishCheck, OnDisk
  <2> QED
    BY <1>5, <2>4, <2>5, <2>6
<1>6. ASSUME Restart PROVE OnDisk'
  <2>1. ledger' = Opened(ledger.file)
    BY <1>6 DEF Restart
  <2>2. ledger'.mem = ledger.mem /\ ledger'.file = ledger.file
    BY <2>1 DEF Opened, OnDisk, Written
  <2> QED
    BY <2>2 DEF OnDisk, Written
<1>7. CASE UNCHANGED vars
  BY <1>1, <1>7 DEF vars, actor
<1>8. ASSUME NEW t \in Tx, PrepareSend(t) \/ CancelSend(t) PROVE OnDisk'
  BY <1>1, <1>8 DEF PrepareSend, CancelSend, actor
<1>9. ASSUME NEW r \in ledger.mem, CheckNow(r) \/ PollPending(r) \/ Resend(r)
      PROVE  OnDisk'
  BY <1>1, <1>9 DEF CheckNow, PollPending, CheckPending, Resend
<1>10. ASSUME NEW n \in Node, NEW b \in BOOLEAN,
              SelectNode(n) \/ TipAnswered(n, b) \/ TipFailed(n, b)
       PROVE  OnDisk'
  BY <1>1, <1>10 DEF SelectNode, TipAnswered, TipFailed
<1>11. ASSUME NEW j \in jobs, NEW ok \in BOOLEAN, FinishPrepare(j, ok)
       PROVE  OnDisk'
  BY <1>1, <1>11 DEF FinishPrepare
<1>12. ASSUME NEW j \in jobs, Run(j) \/ Panic(j) PROVE OnDisk'
  BY <1>1, <1>12 DEF Run, RunBroadcast, RunCheck, Panic, actor
<1>13. ASSUME NEW t \in Tx, NEW n \in Node, Gossip(t, n) \/ Forget(t, n)
       PROVE  OnDisk'
  BY <1>1, <1>13 DEF Gossip, Forget, actor
<1> QED
  BY <1>0, <1>2, <1>3, <1>4, <1>5, <1>6, <1>7, <1>8, <1>9, <1>10, <1>11,
     <1>12, <1>13
  DEF Next, Command, Tick, Finish, World

-----------------------------------------------------------------------------
(* Where the wallet asks about a payment *)

\* Inductive, with Inv, Sure and OnDisk, for AskedWhereHanded: the node in use
\* was handed every payment that is undecided, so what it is asked about is.
Asked ==
    moved \/
        /\ \A r \in ledger.mem : r.state \in Undecided => active \in handed[r.tx]
        /\ \A j \in jobs, r \in ledger.mem :
            j.kind = "check" /\ j.id = r.id /\ r.state \in Undecided
                => j.node \in handed[j.tx]

LEMMA AskedInit == Init => Asked
<1> SUFFICES ASSUME Init PROVE Asked
  OBVIOUS
<1>1. EmptyFile \in File /\ FileKept(EmptyFile) /\ EmptyFile.records = {}
  BY DEF EmptyFile, File, FileKept, Unique
<1>2. ledger.mem = {}
  BY <1>1, OpenKeepsIds DEF Init
<1> QED
  BY <1>2 DEF Asked

\* Steps after which no more is undecided, and no more is asked.
LEMMA NothingAskedKeepsAsked ==
    ASSUME Inv, Asked, moved' = moved,
           \A q \in ledger'.mem : \E r \in ledger.mem :
               /\ q.id = r.id /\ q.tx = r.tx
               /\ q.state \in Undecided => r.state \in Undecided,
           \A j \in jobs' : j.kind = "check" =>
               \E k \in jobs : /\ k.kind = "check" /\ k.id = j.id
                               /\ k.tx = j.tx /\ k.node = j.node,
           \A t \in Tx : handed[t] \subseteq handed'[t],
           \/ active' = active
           \/ \A r \in ledger'.mem : r.state \notin Undecided
    PROVE  Asked'
<1>1. \A r \in ledger.mem : r.tx \in Tx
  BY TypeFacts DEF Inv
<1>2. \A j \in jobs : j.tx \in Tx
  BY TypeFacts DEF Inv
<1>3. ASSUME ~moved, NEW q \in ledger'.mem, q.state \in Undecided
      PROVE  active' \in handed'[q.tx]
  BY <1>1, <1>3 DEF Asked
<1>4. ASSUME ~moved, NEW j \in jobs', NEW q \in ledger'.mem,
             j.kind = "check", j.id = q.id, q.state \in Undecided
      PROVE  j.node \in handed'[j.tx]
  <2>1. PICK r \in ledger.mem : r.id = q.id /\ r.state \in Undecided
    BY <1>4
  <2>2. PICK k \in jobs : /\ k.kind = "check" /\ k.id = j.id
                          /\ k.tx = j.tx /\ k.node = j.node
    BY <1>4
  <2>3. k.node \in handed[k.tx]
    BY <1>4, <2>1, <2>2 DEF Asked
  <2> QED
    BY <1>2, <2>2, <2>3
<1> QED
  BY <1>3, <1>4 DEF Asked

LEMMA AskedNext ==
    ASSUME Chain = {FirstChain}, ~WritesFail, Inv, Sure, OnDisk, Asked,
           [Next]_vars
    PROVE  Asked'
<1>0. /\ ledger \in Ledger /\ Write = {TRUE} /\ ledger.next \in Nat
      /\ \A r \in ledger.mem : r.id \in Nat /\ r.tx \in Tx
      /\ \A j \in jobs : j.id \in Nat /\ j.tx \in Tx
      /\ handed \in [Tx -> SUBSET Node]
  BY TypeFacts DEF Inv, TypeOK, Write
<1>h. ASSUME UNCHANGED <<ledger, moved>>, active' = active,
             \A t \in Tx : handed[t] \subseteq handed'[t],
             \A j \in jobs' : j.kind = "check" =>
                 \E k \in jobs : /\ k.kind = "check" /\ k.id = j.id
                                 /\ k.tx = j.tx /\ k.node = j.node
      PROVE  Asked'
  <2>1. \A q \in ledger'.mem : \E r \in ledger.mem :
          /\ q.id = r.id /\ q.tx = r.tx
          /\ q.state \in Undecided => r.state \in Undecided
    BY <1>h
  <2> QED
    BY <1>h, <2>1, NothingAskedKeepsAsked
<1>1. ASSUME NEW t \in Tx, PrepareSend(t) PROVE Asked'
  <2>1. PICK s \in Slot :
          jobs' = jobs \cup {[slot |-> s, kind |-> "prepare", id |-> 0, tx |-> t,
                              node |-> active, answer |-> "none"]}
    BY <1>1 DEF PrepareSend, Dispatch
  <2> QED
    BY <1>1, <1>h, <2>1 DEF PrepareSend, actor
<1>2. ASSUME NEW t \in Tx, CancelSend(t) PROVE Asked'
  BY <1>2, <1>h DEF CancelSend, history
<1>3. ASSUME NEW t \in Tx, NEW wrote \in Write, ConfirmSend(t, wrote)
      PROVE  Asked'
  <2> DEFINE new == [id |-> ledger.next, tx |-> t, checks |-> 0,
                     state |-> "uncertain"]
  <2>1. /\ ledger' = Committed(ledger, t, wrote) /\ wrote \in BOOLEAN
        /\ HandOver("broadcast", ledger.next, t)
        /\ active' = active /\ moved' = moved
    BY <1>0, <1>3 DEF ConfirmSend
  <2>2. PICK s \in Slot :
          jobs' = jobs \cup {[slot |-> s, kind |-> "broadcast",
                              id |-> ledger.next, tx |-> t,
                              node |-> active, answer |-> "none"]}
    BY <2>1 DEF HandOver, Dispatch
  <2>3. /\ handed' = [handed EXCEPT ![t] = @ \cup {active}]
        /\ \A u \in Tx : handed[u] \subseteq handed'[u]
        /\ active \in handed'[t]
    BY <1>0, <2>1 DEF HandOver
  <2>4. /\ ledger'.mem = ledger.mem \cup {new}
        /\ ledger'.next = ledger.next + 1
        /\ wrote => ledger'.file = [readable |-> TRUE, records |-> ledger'.mem]
        /\ ~wrote => ledger'.file = ledger.file
    <3>1. ledger \in Ledger
      BY <1>0
    <3>2. ledger' = Committed(ledger, t, wrote) /\ wrote \in BOOLEAN
      BY <2>1
    <3> QED
      BY <3>1, <3>2, CommittedEffect
  <2>5. new.id = ledger.next /\ new.tx = t
    OBVIOUS
  <2> HIDE DEF new
  <2>6. ASSUME ~moved, NEW q \in ledger'.mem, q.state \in Undecided
        PROVE  active' \in handed'[q.tx]
    BY <1>0, <2>1, <2>3, <2>4, <2>5, <2>6 DEF Asked
  <2>7. ASSUME ~moved, NEW j \in jobs', NEW q \in ledger'.mem,
               j.kind = "check", j.id = q.id, q.state \in Undecided
        PROVE  j.node \in handed'[j.tx]
    <3>1. j \in jobs
      BY <2>2, <2>7
    <3>2. j.id # ledger.next
      BY <1>0, <2>7, <3>1 DEF Sure, JobsKnown
    <3>3. q \in ledger.mem
      BY <2>4, <2>5, <2>7, <3>2
    <3> QED
      BY <1>0, <2>3, <2>7, <3>1, <3>3 DEF Asked
  <2> QED
    BY <2>1, <2>6, <2>7 DEF Asked
<1>4. ASSUME NEW r \in ledger.mem, CheckNow(r) \/ PollPending(r) PROVE Asked'
  <2>1. PICK s \in Slot :
          jobs' = jobs \cup {[slot |-> s, kind |-> "check", id |-> r.id,
                              tx |-> r.tx, node |-> active, answer |-> "none"]}
    BY <1>4 DEF CheckNow, PollPending, CheckPending, Dispatch
  <2>2. UNCHANGED <<ledger, active, handed, moved>>
    BY <1>4 DEF CheckNow, PollPending, CheckPending, history
  <2>3. \A q \in ledger.mem : q.id = r.id => q = r
    BY DEF Inv, IdsKept, Unique
  <2>4. ASSUME ~moved, NEW j \in jobs', NEW q \in ledger.mem,
               j.kind = "check", j.id = q.id, q.state \in Undecided
        PROVE  j.node \in handed[j.tx]
    <3>1. CASE j \in jobs
      BY <2>4, <3>1 DEF Asked
    <3>2. CASE j \notin jobs
      <4>1. j.id = r.id /\ j.tx = r.tx /\ j.node = active
        BY <2>1, <3>2
      <4>2. q = r
        BY <2>3, <2>4, <4>1
      <4> QED
        BY <2>4, <4>1, <4>2 DEF Asked
    <3> QED
      BY <3>1, <3>2
  <2> QED
    BY <2>2, <2>4 DEF Asked
<1>5. ASSUME NEW r \in ledger.mem, Resend(r) PROVE Asked'
  <2>1. PICK s \in Slot :
          jobs' = jobs \cup {[slot |-> s, kind |-> "resend", id |-> r.id,
                              tx |-> r.tx, node |-> active, answer |-> "none"]}
    BY <1>5 DEF Resend, HandOver, Dispatch
  <2>2. \A u \in Tx : handed[u] \subseteq handed'[u]
    BY <1>0, <1>5 DEF Resend, HandOver
  <2> QED
    BY <1>5, <1>h, <2>1, <2>2 DEF Resend
<1>6. ASSUME NEW G, Updated(ledger, ledger', G), jobs' \subseteq jobs,
             UNCHANGED <<active, handed, moved>>
      PROVE  Asked'
  <2>1. \A q \in ledger'.mem : \E r \in ledger.mem :
          /\ q.id = r.id /\ q.tx = r.tx
          /\ q.state \in Undecided => r.state \in Undecided
    BY <1>6 DEF Updated, Follows
  <2> QED
    BY <1>6, <2>1, NothingAskedKeepsAsked
<1>7. ASSUME NEW r \in ledger.mem, NEW wrote \in Write, Abandon(r, wrote)
      PROVE  Asked'
  <2>1. wrote \in BOOLEAN
    BY <1>0
  <2>2. /\ "abandoned" \in State
        /\ "abandoned" \notin {"uncertain", "absent", "confirmed"}
    BY DEF State
  <2>3. Updated(ledger, ledger', {})
    BY <1>0, <1>7, <2>1, <2>2, StateSetUpdates DEF Abandon
  <2> QED
    BY <1>6, <1>7, <2>3 DEF Abandon, history
<1>8. ASSUME NEW n \in Node, SelectNode(n) PROVE Asked'
  <2>1. CASE n = active
    BY <1>8, <2>1 DEF SelectNode, Asked
  <2>2. CASE n # active
    BY <1>8, <2>2 DEF SelectNode, Asked
  <2> QED
    BY <2>1, <2>2
<1>9. ASSUME NEW c \in Chain PROVE ~SwitchNetwork(c)
  BY DEF SwitchNetwork, Inv, TypeOK
<1>10. ASSUME NEW n \in Node, NEW b \in BOOLEAN, TipAnswered(n, b)
       PROVE  Asked'
  BY <1>10, <1>h DEF TipAnswered, history
<1>11. ASSUME NEW n \in Node, NEW b \in BOOLEAN, TipFailed(n, b)
       PROVE  Asked'
  <2>1. UNCHANGED <<ledger, jobs, handed, moved>>
    BY <1>11 DEF TipFailed, history
  <2>2. active' = active \/ \A r \in ledger.mem : r.state \notin Undecided
    BY <1>11 DEF TipFailed, FailOver, ResolutionPending, Undecided
  <2> QED
    BY <2>1, <2>2, NothingAskedKeepsAsked
<1>12. ASSUME NEW j \in jobs, NEW ok \in BOOLEAN, FinishPrepare(j, ok)
       PROVE  Asked'
  BY <1>12, <1>h DEF FinishPrepare, history
<1>13. ASSUME NEW j \in jobs, NEW w1 \in Write, NEW w2 \in Write,
              \/ FinishBroadcast(j, w1, w2)
              \/ FinishResend(j, w1, w2)
              \/ FinishCheck(j, w1, w2)
       PROVE  Asked'
  <2>1. PICK G : Updated(ledger, ledger', G)
    BY <1>13, FinishUpdates DEF Inv
  <2>2. jobs' = jobs \ {j} /\ UNCHANGED <<active, handed, moved>>
    BY <1>13 DEF FinishBroadcast, FinishResend, FinishCheck, history
  <2>3. jobs' \subseteq jobs
    BY <2>2
  <2> QED
    BY <1>6, <2>1, <2>2, <2>3
<1>14. ASSUME NEW j \in jobs, Run(j) PROVE Asked'
  <2>1. PICK a : Answered(j, a)
    BY <1>14 DEF Run, RunBroadcast, RunCheck
  <2> DEFINE k == [j EXCEPT !.answer = a]
  <2>2. /\ k.kind = j.kind /\ k.id = j.id /\ k.tx = j.tx /\ k.node = j.node
    BY DEF Inv, TypeOK, Job
  <2>3. jobs' = (jobs \ {j}) \cup {k}
    BY <2>1 DEF Answered
  <2> HIDE DEF k
  <2>4. UNCHANGED <<ledger, active, handed, moved>>
    BY <1>14 DEF Run, RunBroadcast, RunCheck, actor, history
  <2> QED
    BY <1>h, <2>2, <2>3, <2>4
<1>15. ASSUME NEW j \in jobs, Panic(j) PROVE Asked'
  BY <1>15, <1>h DEF Panic, actor, history
<1>16. ASSUME Restart PROVE Asked'
  <2>1. ledger' = Opened(ledger.file) /\ jobs' = {}
    BY <1>16 DEF Restart
  <2>2. ledger'.mem = ledger.mem
    BY <2>1 DEF Opened, OnDisk, Written
  <2> QED
    BY <1>16, <2>1, <2>2 DEF Restart, history, Asked
<1>17. ASSUME NEW t \in Tx, NEW n \in Node, Gossip(t, n) \/ Forget(t, n)
       PROVE  Asked'
  BY <1>17, <1>h DEF Gossip, Forget, actor, history
<1>18. CASE UNCHANGED vars
  BY <1>18, <1>h DEF vars, actor, history
<1> QED
  BY <1>1, <1>2, <1>3, <1>4, <1>5, <1>7, <1>8, <1>9, <1>10, <1>11, <1>12,
     <1>13, <1>14, <1>15, <1>16, <1>17, <1>18
  DEF Next, Command, Tick, Finish, World

\* What the theorems about one chain and writes that succeed rest on.
Settling == Inv /\ Sure /\ OnDisk

LEMMA SettlingHolds ==
    ASSUME Chain = {FirstChain}, ~WritesFail
    PROVE  Spec => []Settling
<1>1. Settling /\ [Next]_vars => Settling'
  BY InvNext, SureNext, OnDiskNext DEF Settling
<1>2. Init => Settling
  BY InvInit, SureInit, OnDiskInit DEF Settling
<1> QED
  BY <1>1, <1>2, PTL DEF Spec

\* While one chain is open, every write succeeds and the user chooses no other
\* node, an undecided payment is asked about only where it was handed to: the
\* failover never turns the question to a node whose "no" would mean nothing.
THEOREM AskedOnlyWhereHanded ==
    ASSUME Chain = {FirstChain}, ~WritesFail
    PROVE  Spec => []AskedWhereHanded
<1>1. Asked => AskedWhereHanded
  BY DEF Asked, AskedWhereHanded, Undecided
<1>2. Settling /\ Asked /\ [Next]_vars => Asked'
  BY AskedNext DEF Settling
<1> QED
  BY AskedInit, SettlingHolds, <1>1, <1>2, PTL DEF Spec

-----------------------------------------------------------------------------
(* The payments keep custody of the bytes *)

OnFileTxs == {r.tx : r \in ledger.file.records}

LEMMA CustodyStep ==
    ASSUME Chain = {FirstChain}, ~WritesFail, Inv, Sure, OnDisk, OnDisk', Once,
           [Next]_vars
    PROVE  \/ \E t \in Tx : Promise!Keep(t) \/ Promise!Take(t) \/ Promise!LetGo(t)
           \/ OnFileTxs' = OnFileTxs /\ taken' = taken
<1> DEFINE Step == \/ \E t \in Tx : \/ Promise!Keep(t)
                                    \/ Promise!Take(t)
                                    \/ Promise!LetGo(t)
                   \/ OnFileTxs' = OnFileTxs /\ taken' = taken
<1> SUFFICES Step
  OBVIOUS
<1>0. /\ ledger \in Ledger /\ Write = {TRUE}
      /\ \A r \in ledger.mem : r.id \in Nat /\ r.tx \in Tx
      /\ \A j \in jobs : j.tx \in Tx
  BY TypeFacts DEF Inv, Write
<1>f. ledger.file.records = ledger.mem /\ ledger'.file.records = ledger'.mem
  BY DEF OnDisk, Written
<1>s. ASSUME ledger' = ledger, taken' = taken PROVE Step
  BY <1>s DEF OnFileTxs
<1>1. ASSUME NEW t \in Tx, NEW wrote \in Write, ConfirmSend(t, wrote)
      PROVE  Step
  <2>1. wrote \in BOOLEAN /\ ledger' = Committed(ledger, t, wrote)
    BY <1>0, <1>1 DEF ConfirmSend
  <2> DEFINE new == [id |-> ledger.next, tx |-> t, checks |-> 0,
                     state |-> "uncertain"]
  <2>2. ledger \in Ledger
    BY <1>0
  <2>3. /\ ledger'.mem = ledger.mem \cup {new}
        /\ ledger'.next = ledger.next + 1
        /\ wrote => ledger'.file = [readable |-> TRUE, records |-> ledger'.mem]
        /\ ~wrote => ledger'.file = ledger.file
    BY <2>1, <2>2, CommittedEffect
  <2>4. new.tx = t
    OBVIOUS
  <2> HIDE DEF new
  <2>5. OnFileTxs' = OnFileTxs \cup {t}
    BY <1>f, <2>3, <2>4 DEF OnFileTxs
  <2>6. t \notin taken
    BY <1>1 DEF ConfirmSend, Once, Spent
  <2>7. taken' = taken
    BY <1>1 DEF ConfirmSend, network
  <2>8. Promise!Keep(t)
    BY <2>5, <2>6, <2>7 DEF Promise!Keep, OnFileTxs
  <2> QED
    BY <2>8
<1>2. ASSUME NEW G, Updated(ledger, ledger', G), taken' = taken,
             NEW t \in Tx, t \in taken \/ G = {},
             \A r \in ledger.mem : r.id \in G => r.tx = t
      PROVE  Step
  <2>1. OnFileTxs' \subseteq OnFileTxs
    BY <1>2, <1>f DEF Updated, Follows, OnFileTxs
  <2>2. ASSUME NEW r \in ledger.mem, r.id \notin G PROVE r.tx \in OnFileTxs'
    <3>1. r.state # "confirmed"
      BY DEF OnDisk, Written
    <3>2. \E q \in ledger'.mem : q.tx = r.tx
      BY <1>2, <2>2, <3>1 DEF Updated, Retains
    <3> QED
      BY <1>f, <3>2 DEF OnFileTxs
  <2>3. OnFileTxs \subseteq OnFileTxs' \cup {t}
    BY <1>2, <1>f, <2>2 DEF OnFileTxs
  <2>4. CASE OnFileTxs' = OnFileTxs
    BY <1>2, <2>4
  <2>5. CASE OnFileTxs' # OnFileTxs
    <3>1. OnFileTxs' = OnFileTxs \ {t} /\ t \in OnFileTxs
      BY <2>1, <2>3, <2>5
    <3>2. t \in taken
      <4>1. G = {} => OnFileTxs \subseteq OnFileTxs'
        BY <1>f, <2>2 DEF OnFileTxs
      <4> QED
        BY <1>2, <2>1, <2>5, <4>1
    <3>3. Promise!LetGo(t)
      BY <1>2, <3>1, <3>2 DEF Promise!LetGo, OnFileTxs
    <3> QED
      BY <3>3
  <2> QED
    BY <2>4, <2>5
<1>3. ASSUME NEW r \in ledger.mem, NEW wrote \in Write, Abandon(r, wrote)
      PROVE  Step
  <2>1. wrote \in BOOLEAN
    BY <1>0
  <2>2. /\ "abandoned" \in State
        /\ "abandoned" \notin {"uncertain", "absent", "confirmed"}
    BY DEF State
  <2>3. Updated(ledger, ledger', {})
    BY <1>0, <1>3, <2>1, <2>2, StateSetUpdates DEF Abandon
  <2>4. r.tx \in Tx /\ taken' = taken
    BY <1>0, <1>3 DEF Abandon, network
  <2> QED
    BY <1>2, <2>3, <2>4
<1>4. ASSUME NEW c \in Chain PROVE ~SwitchNetwork(c)
  BY DEF SwitchNetwork, Inv, TypeOK
<1>5. ASSUME NEW j \in jobs, NEW w1 \in Write, NEW w2 \in Write,
             \/ FinishBroadcast(j, w1, w2)
             \/ FinishResend(j, w1, w2)
             \/ FinishCheck(j, w1, w2)
      PROVE  Step
  <2> DEFINE G == IF j.answer \in {"ok", "has"} THEN {j.id} ELSE {}
  <2>1. Updated(ledger, ledger', G)
    BY <1>5, FinishUpdates DEF Inv
  <2>2. j.kind # "prepare" /\ taken' = taken
    BY <1>5 DEF FinishBroadcast, FinishResend, FinishCheck, network
  <2>3. \A r \in ledger.mem : r.id \in G => r.tx = j.tx
    BY <2>2 DEF Sure, JobsKnown
  <2>4. j.tx \in taken \/ G = {}
    BY DEF Sure, TakenKnown
  <2> HIDE DEF G
  <2> QED
    BY <1>0, <1>2, <2>1, <2>2, <2>3, <2>4
<1>6. ASSUME NEW j \in jobs, NEW a \in Answer, RunBroadcast(j, a) PROVE Step
  <2>1. ledger' = ledger
    BY <1>6 DEF RunBroadcast, actor
  <2>2. CASE taken' = taken
    BY <1>s, <2>1, <2>2
  <2>3. CASE taken' # taken
    <3>1. taken' = taken \cup {j.tx}
      BY <1>6, <2>3 DEF RunBroadcast, Taken, NotTaken, network
    <3>2. j.tx \notin taken
      BY <2>3, <3>1
    <3>3. Listed(ledger.mem, j.tx)
      BY <1>6, <3>2 DEF RunBroadcast, Sure, SentListed, Handing
    <3>4. j.tx \in OnFileTxs /\ OnFileTxs' = OnFileTxs
      BY <1>f, <2>1, <3>3 DEF Listed, OnFileTxs
    <3>5. Promise!Take(j.tx)
      BY <3>1, <3>4 DEF Promise!Take, OnFileTxs
    <3> QED
      BY <1>0, <3>5
  <2> QED
    BY <2>2, <2>3
<1>7. ASSUME Restart PROVE Step
  <2>1. ledger' = Opened(ledger.file) /\ taken' = taken
    BY <1>7 DEF Restart, network
  <2>2. ledger'.file = ledger.file
    BY <2>1 DEF Opened
  <2> QED
    BY <2>1, <2>2 DEF OnFileTxs
<1>8. ASSUME NEW t \in Tx, PrepareSend(t) \/ CancelSend(t) PROVE Step
  BY <1>s, <1>8 DEF PrepareSend, CancelSend, actor, network
<1>9. ASSUME NEW r \in ledger.mem, CheckNow(r) \/ PollPending(r) \/ Resend(r)
      PROVE  Step
  BY <1>s, <1>9 DEF CheckNow, PollPending, CheckPending, Resend, network
<1>10. ASSUME NEW n \in Node, NEW b \in BOOLEAN,
              SelectNode(n) \/ TipAnswered(n, b) \/ TipFailed(n, b)
       PROVE  Step
  BY <1>s, <1>10 DEF SelectNode, TipAnswered, TipFailed, network
<1>11. ASSUME NEW j \in jobs, NEW ok \in BOOLEAN, FinishPrepare(j, ok)
       PROVE  Step
  BY <1>s, <1>11 DEF FinishPrepare, network
<1>12. ASSUME NEW j \in jobs, NEW reached \in BOOLEAN,
              RunCheck(j, reached) \/ Panic(j)
       PROVE  Step
  BY <1>s, <1>12 DEF RunCheck, Panic, actor, network
<1>13. ASSUME NEW t \in Tx, NEW n \in Node, Gossip(t, n) \/ Forget(t, n)
       PROVE  Step
  BY <1>s, <1>13 DEF Gossip, Forget, actor
<1>14. CASE UNCHANGED vars
  BY <1>s, <1>14 DEF vars, actor, network
<1> HIDE DEF Step
<1> QED
  BY <1>1, <1>3, <1>4, <1>5, <1>6, <1>7, <1>8, <1>9, <1>10, <1>11, <1>12,
     <1>13, <1>14
  DEF Next, Command, Tick, Finish, Run, World

\* The payments implement Custody while one chain is open and every write
\* succeeds: signed bytes are on disk before a node has them, and are let go of
\* only once one has, through failures, panics, restarts and nodes that forget.
THEOREM CustodyKept ==
    ASSUME Chain = {FirstChain}, ~WritesFail
    PROVE  Spec => KeepsCustody
<1>1. Init => Promise!Init
  <2> SUFFICES ASSUME Init PROVE Promise!Init
    OBVIOUS
  <2>1. EmptyFile \in File /\ FileKept(EmptyFile) /\ EmptyFile.records = {}
    BY DEF EmptyFile, File, FileKept, Unique
  <2>2. ledger.file = EmptyFile
    BY <2>1, OpenKeepsIds DEF Init
  <2> QED
    BY <2>1, <2>2 DEF Init, Promise!Init
<1>2. Settling /\ Settling' /\ Once /\ [Next]_vars
        => [Promise!Next]_<<{r.tx : r \in ledger.file.records}, taken>>
  BY CustodyStep DEF Settling, Promise!Next, OnFileTxs
<1>3. Settling /\ Once /\ [Next]_vars => Once'
  BY OnceNext DEF Settling
<1>4. Spec => []Once
  BY OnceInit, SettlingHolds, <1>3, PTL DEF Spec
<1> QED
  BY <1>1, <1>2, <1>4, SettlingHolds, PTL DEF Spec, KeepsCustody, Promise!Spec

-----------------------------------------------------------------------------
(* Which payments the wallet gives up by itself *)

\* Inductive, with Settling and Once, for GivenUpOnlyIfRefused.  A payment is
\* handed over for the first time by one job; until that job is answered or the
\* payment is called absent, nobody else can have given it to a node.
FirstSend ==
    /\ \A j, k \in jobs :
        j.kind = "broadcast" /\ k.kind = "broadcast" /\ j.tx = k.tx => j = k
    /\ \A r, q \in ledger.mem : r.tx = q.tx => r = q
    /\ \A j \in jobs, r \in ledger.mem :
        j.kind = "broadcast" /\ j.answer \in {"none", "refused"}
        /\ r.id = j.id /\ r.state = "uncertain" => j.tx \notin taken
    /\ \A j \in jobs, r \in ledger.mem :
        j.kind = "resend" /\ r.tx = j.tx => r.state # "uncertain"

LEMMA FirstSendInit == Init => FirstSend
<1> SUFFICES ASSUME Init PROVE FirstSend
  OBVIOUS
<1>1. EmptyFile \in File /\ FileKept(EmptyFile) /\ EmptyFile.records = {}
  BY DEF EmptyFile, File, FileKept, Unique
<1>2. ledger.mem = {}
  BY <1>1, OpenKeepsIds DEF Init
<1> QED
  BY <1>2 DEF Init, FirstSend

\* Steps that update the ledger and send nothing.
LEMMA UpdateKeepsFirstSend ==
    ASSUME Inv, FirstSend, NEW G, Updated(ledger, ledger', G),
           \A j \in jobs' : j.kind \in Handing => j \in jobs,
           taken' = taken
    PROVE  FirstSend'
<1>1. Unique(ledger'.mem)
  BY DEF Inv, IdsKept, Updated, Follows
<1>2. \A q \in ledger'.mem : \E r \in ledger.mem :
          /\ q.id = r.id /\ q.tx = r.tx
          /\ q.state = "uncertain" => r.state = "uncertain"
  BY DEF Updated, Follows
<1>3. \A q, p \in ledger'.mem : q.tx = p.tx => q = p
  <2> SUFFICES ASSUME NEW q \in ledger'.mem, NEW p \in ledger'.mem, q.tx = p.tx
               PROVE  q = p
    OBVIOUS
  <2>1. PICK r \in ledger.mem : q.id = r.id /\ q.tx = r.tx
    BY <1>2
  <2>2. PICK s \in ledger.mem : p.id = s.id /\ p.tx = s.tx
    BY <1>2
  <2>3. r = s
    BY <2>1, <2>2 DEF FirstSend
  <2> QED
    BY <1>1, <2>1, <2>2, <2>3 DEF Unique
<1>4. \A j \in jobs' : j.kind \in {"broadcast", "resend"} => j \in jobs
  BY DEF Handing
<1> QED
  BY <1>2, <1>3, <1>4 DEF FirstSend

LEMMA FirstSendNext ==
    ASSUME Chain = {FirstChain}, ~WritesFail, Settling, Once, FirstSend,
           [Next]_vars
    PROVE  FirstSend'
<1> USE DEF Settling
<1>0. /\ ledger \in Ledger /\ Write = {TRUE} /\ ledger.next \in Nat
      /\ \A r \in ledger.mem : r.id \in Nat /\ r.tx \in Tx
      /\ \A j \in jobs : j \in Job /\ j.id \in Nat /\ j.tx \in Tx
  BY TypeFacts DEF Inv, TypeOK, Write
<1>u. Updated(ledger, ledger, {})
  BY <1>0 DEF Updated, Follows, Retains
<1>s. ASSUME UNCHANGED <<ledger, taken>>,
             \A j \in jobs' : j.kind \in Handing => j \in jobs
      PROVE  FirstSend'
  <2>1. Updated(ledger, ledger', {})
    BY <1>u, <1>s
  <2> QED
    BY <1>s, <2>1, UpdateKeepsFirstSend
<1>1. ASSUME NEW t \in Tx, PrepareSend(t) PROVE FirstSend'
  <2>1. \A j \in jobs' : j.kind \in Handing => j \in jobs
    BY <1>1 DEF PrepareSend, Dispatch, Handing
  <2> QED
    BY <1>1, <1>s, <2>1 DEF PrepareSend, actor, network
<1>2. ASSUME NEW t \in Tx, CancelSend(t) PROVE FirstSend'
  BY <1>2, <1>s DEF CancelSend, network
<1>3. ASSUME NEW t \in Tx, NEW wrote \in Write, ConfirmSend(t, wrote)
      PROVE  FirstSend'
  <2> DEFINE new == [id |-> ledger.next, tx |-> t, checks |-> 0,
                     state |-> "uncertain"]
             job(s) == [slot |-> s, kind |-> "broadcast", id |-> ledger.next,
                        tx |-> t, node |-> active, answer |-> "none"]
  <2>1. /\ ledger' = Committed(ledger, t, wrote) /\ wrote \in BOOLEAN
        /\ HandOver("broadcast", ledger.next, t)
        /\ t \in prepared /\ taken' = taken
    BY <1>0, <1>3 DEF ConfirmSend, network
  <2>2. PICK s \in Slot : jobs' = jobs \cup {job(s)}
    BY <2>1 DEF HandOver, Dispatch
  <2>3. /\ ledger'.mem = ledger.mem \cup {new}
        /\ ledger'.next = ledger.next + 1
        /\ wrote => ledger'.file = [readable |-> TRUE, records |-> ledger'.mem]
        /\ ~wrote => ledger'.file = ledger.file
    <3>1. ledger \in Ledger
      BY <1>0
    <3>2. ledger' = Committed(ledger, t, wrote) /\ wrote \in BOOLEAN
      BY <2>1
    <3> QED
      BY <3>1, <3>2, CommittedEffect
  <2>4. /\ \A r \in ledger.mem : r.tx # t
        /\ \A j \in jobs : j.kind \in Handing => j.tx # t
        /\ t \notin taken
    BY <2>1 DEF Once, Spent
  <2>5. /\ \A r \in ledger.mem : r.id # ledger.next
        /\ \A j \in jobs : j.kind # "prepare" => j.id # ledger.next
    BY <1>0 DEF Inv, IdsKept, Sure, JobsKnown
  <2>6. /\ new.id = ledger.next /\ new.tx = t
        /\ job(s).kind = "broadcast" /\ job(s).id = ledger.next
        /\ job(s).tx = t
    OBVIOUS
  <2> HIDE DEF new, job
  <2> QED
    BY <2>1, <2>2, <2>3, <2>4, <2>5, <2>6 DEF FirstSend, Handing
<1>4. ASSUME NEW r \in ledger.mem, CheckNow(r) \/ PollPending(r)
      PROVE  FirstSend'
  <2>1. \A j \in jobs' : j.kind \in Handing => j \in jobs
    BY <1>4 DEF CheckNow, PollPending, CheckPending, Dispatch, Handing
  <2> QED
    BY <1>4, <1>s, <2>1 DEF CheckNow, PollPending, CheckPending, network
<1>5. ASSUME NEW r \in ledger.mem, Resend(r) PROVE FirstSend'
  <2>1. PICK s \in Slot :
          jobs' = jobs \cup {[slot |-> s, kind |-> "resend", id |-> r.id,
                              tx |-> r.tx, node |-> active, answer |-> "none"]}
    BY <1>5 DEF Resend, HandOver, Dispatch
  <2>2. r.state = "absent" /\ UNCHANGED <<ledger, taken>>
    BY <1>5 DEF Resend, ResendOffered, network
  <2>3. \A q \in ledger.mem : q.tx = r.tx => q.state # "uncertain"
    BY <2>2 DEF FirstSend
  <2> QED
    BY <2>1, <2>2, <2>3 DEF FirstSend
<1>6. ASSUME NEW r \in ledger.mem, NEW wrote \in Write, Abandon(r, wrote)
      PROVE  FirstSend'
  <2>1. wrote \in BOOLEAN
    BY <1>0
  <2>2. /\ "abandoned" \in State
        /\ "abandoned" \notin {"uncertain", "absent", "confirmed"}
    BY DEF State
  <2>3. Updated(ledger, ledger', {})
    BY <1>0, <1>6, <2>1, <2>2, StateSetUpdates DEF Abandon
  <2> QED
    BY <1>6, <2>3, UpdateKeepsFirstSend DEF Abandon, network
<1>7. ASSUME NEW c \in Chain PROVE ~SwitchNetwork(c)
  BY DEF SwitchNetwork, Inv, TypeOK
<1>8. ASSUME NEW j \in jobs, NEW w1 \in Write, NEW w2 \in Write,
             \/ FinishBroadcast(j, w1, w2)
             \/ FinishResend(j, w1, w2)
             \/ FinishCheck(j, w1, w2)
      PROVE  FirstSend'
  <2>1. PICK G : Updated(ledger, ledger', G)
    BY <1>8, FinishUpdates DEF Inv
  <2>2. jobs' = jobs \ {j} /\ taken' = taken
    BY <1>8 DEF FinishBroadcast, FinishResend, FinishCheck, network
  <2> QED
    BY <2>1, <2>2, UpdateKeepsFirstSend
<1>9. ASSUME NEW j \in jobs, NEW a \in Answer, RunBroadcast(j, a)
      PROVE  FirstSend'
  <2> DEFINE k == [j EXCEPT !.answer = a]
  <2>1. /\ k.kind = j.kind /\ k.id = j.id /\ k.tx = j.tx /\ k.answer = a
    BY <1>0 DEF Job
  <2>2. jobs' = (jobs \ {j}) \cup {k} /\ ledger' = ledger
    BY <1>9 DEF RunBroadcast, Answered, actor
  <2>3. j.kind \in {"broadcast", "resend"} /\ j.answer = "none"
    BY <1>9 DEF RunBroadcast
  <2>4. \/ taken' = taken \cup {j.tx} /\ a \in {"ok", "uncertain"}
        \/ taken' = taken
    BY <1>9 DEF RunBroadcast, Taken, NotTaken, network
  <2> HIDE DEF k
  <2>5. \A i, l \in jobs' :
          i.kind = "broadcast" /\ l.kind = "broadcast" /\ i.tx = l.tx => i = l
    BY <2>1, <2>2 DEF FirstSend
  <2>6. \A i \in jobs', r \in ledger.mem :
          i.kind = "resend" /\ r.tx = i.tx => r.state # "uncertain"
    BY <2>1, <2>2 DEF FirstSend
  <2>7. ASSUME NEW i \in jobs', NEW r \in ledger.mem,
               i.kind = "broadcast", i.answer \in {"none", "refused"},
               r.id = i.id, r.state = "uncertain"
        PROVE  i.tx \notin taken'
    <3>1. CASE i = k
      <4>1. i.tx \notin taken
        BY <2>1, <2>3, <2>7, <3>1 DEF FirstSend
      <4> QED
        BY <2>1, <2>4, <2>7, <3>1, <4>1
    <3>2. CASE i # k
      <4>1. i \in jobs /\ i # j
        BY <2>2, <3>2
      <4>2. i.tx \notin taken
        BY <2>7, <4>1 DEF FirstSend
      <4>3. r.tx = i.tx
        BY <2>7, <4>1 DEF Sure, JobsKnown
      <4>4. i.tx # j.tx
        BY <2>3, <2>7, <4>1, <4>3 DEF FirstSend
      <4> QED
        BY <2>4, <4>2, <4>4
    <3> QED
      BY <3>1, <3>2
  <2> QED
    BY <2>2, <2>5, <2>6, <2>7 DEF FirstSend
<1>10. ASSUME NEW j \in jobs, NEW reached \in BOOLEAN, RunCheck(j, reached)
       PROVE  FirstSend'
  <2>1. PICK a : Answered(j, a)
    BY <1>10 DEF RunCheck
  <2>2. [j EXCEPT !.answer = a].kind = j.kind
    BY <1>0 DEF Job
  <2>3. j.kind \notin Handing /\ UNCHANGED <<ledger, taken>>
    BY <1>10 DEF RunCheck, actor, Handing
  <2> QED
    BY <1>s, <2>1, <2>2, <2>3 DEF Answered
<1>11. ASSUME Restart PROVE FirstSend'
  <2>1. ledger' = Opened(ledger.file) /\ jobs' = {}
    BY <1>11 DEF Restart
  <2>2. ledger'.mem = ledger.mem
    BY <2>1 DEF Opened, OnDisk, Written
  <2> QED
    BY <2>1, <2>2 DEF FirstSend
<1>12. ASSUME NEW n \in Node, NEW b \in BOOLEAN,
              SelectNode(n) \/ TipAnswered(n, b) \/ TipFailed(n, b)
       PROVE  FirstSend'
  BY <1>s, <1>12 DEF SelectNode, TipAnswered, TipFailed, network
<1>13. ASSUME NEW j \in jobs, NEW ok \in BOOLEAN,
              FinishPrepare(j, ok) \/ Panic(j)
       PROVE  FirstSend'
  BY <1>s, <1>13 DEF FinishPrepare, Panic, actor, network
<1>14. ASSUME NEW t \in Tx, NEW n \in Node, Gossip(t, n) \/ Forget(t, n)
       PROVE  FirstSend'
  BY <1>s, <1>14 DEF Gossip, Forget, actor
<1>15. CASE UNCHANGED vars
  BY <1>s, <1>15 DEF vars, actor, network
<1> QED
  BY <1>1, <1>2, <1>3, <1>4, <1>5, <1>6, <1>7, <1>8, <1>9, <1>10, <1>11,
     <1>12, <1>13, <1>14, <1>15
  DEF Next, Command, Tick, Finish, Run, World

\* The abandoned records of M were so in L.
AbandonsNone(L, M) ==
    \A q \in M.mem : q.state = "abandoned" =>
        \E r \in L.mem : r.id = q.id /\ r.state = "abandoned"

\* Nothing but the answer "refused" to a first broadcast abandons.
LEMMA FinishAbandons ==
    ASSUME Inv, NEW j \in jobs, NEW w1 \in Write, NEW w2 \in Write,
           \/ FinishBroadcast(j, w1, w2) /\ j.answer # "refused"
           \/ FinishResend(j, w1, w2)
           \/ FinishCheck(j, w1, w2)
    PROVE  AbandonsNone(ledger, ledger')
<1>0. /\ ledger \in Ledger /\ j.id \in Nat /\ w1 \in BOOLEAN /\ w2 \in BOOLEAN
      /\ {"confirmed", "resent", "absent"} \subseteq State
  BY TypeFacts DEF Inv, State
<1>1. ASSUME NEW L \in Ledger, NEW s \in State, s # "abandoned",
             NEW w \in BOOLEAN
      PROVE  AbandonsNone(L, StateSet(L, j.id, s, w))
  <2> DEFINE F(r) == IF r.id = j.id THEN [r EXCEPT !.state = s] ELSE r
             M == StateSet(L, j.id, s, w)
  <2>1. /\ M.mem = {F(r) : r \in L.mem}
        /\ M.next = L.next
        /\ w => M.file = [readable |-> TRUE, records |-> M.mem]
        /\ ~w => M.file = L.file
    BY <1>0, StateSetEffect
  <2>2. \A r \in L.mem :
          F(r).id = r.id /\ (F(r).state = "abandoned" => r.state = "abandoned")
    BY <1>1 DEF Ledger, Record
  <2> HIDE DEF F, M
  <2>3. AbandonsNone(L, M)
    BY <2>1, <2>2 DEF AbandonsNone
  <2> QED
    BY <2>3 DEF M
<1>2. ASSUME NEW L \in Ledger, NEW w \in BOOLEAN
      PROVE  AbandonsNone(L, ConfirmedForgotten(L, w))
  <2> DEFINE M == ConfirmedForgotten(L, w)
  <2>1. /\ M.mem = {r \in L.mem : r.state # "confirmed"}
        /\ M.next = L.next
        /\ w => M.file = [readable |-> TRUE, records |-> M.mem]
        /\ ~w => M.file = L.file
    BY ConfirmedForgottenEffect
  <2> HIDE DEF M
  <2>2. AbandonsNone(L, M)
    BY <2>1 DEF AbandonsNone
  <2> QED
    BY <2>2 DEF M
<1>3. AbandonsNone(ledger, CheckNoted(ledger, j.id, w1))
  <2> DEFINE F(r) == IF r.id = j.id /\ r.checks < AbsentAfter
                     THEN [r EXCEPT !.checks = @ + 1] ELSE r
             M == CheckNoted(ledger, j.id, w1)
  <2>1. /\ M.mem = {F(r) : r \in ledger.mem}
        /\ M.next = ledger.next
        /\ w1 => M.file = [readable |-> TRUE, records |-> M.mem]
        /\ ~w1 => M.file = ledger.file
    BY <1>0, CheckNotedEffect
  <2>2. \A r \in ledger.mem : F(r).id = r.id /\ F(r).state = r.state
    BY <1>0 DEF Ledger, Record
  <2> HIDE DEF F, M
  <2>3. AbandonsNone(ledger, M)
    BY <2>1, <2>2 DEF AbandonsNone
  <2> QED
    BY <2>3 DEF M
<1>4. ASSUME NEW L, NEW M, NEW N, AbandonsNone(L, M), AbandonsNone(M, N)
      PROVE  AbandonsNone(L, N)
  BY <1>4 DEF AbandonsNone
<1>5. AbandonsNone(ledger, Settled(j.id, w1, w2))
  <2> DEFINE M == StateSet(ledger, j.id, "confirmed", w1)
  <2>1. M \in Ledger /\ AbandonsNone(ledger, M)
    BY <1>0, <1>1, OperationsTyped
  <2> HIDE DEF M
  <2>2. AbandonsNone(ledger, ConfirmedForgotten(M, w2))
    BY <1>0, <1>2, <1>4, <2>1
  <2> QED
    BY <2>2 DEF Settled, M
<1>6. AbandonsNone(ledger, Fruitless(j.id, w1, w2))
  <2> DEFINE M == CheckNoted(ledger, j.id, w1)
  <2>1. M \in Ledger /\ AbandonsNone(ledger, M)
    BY <1>0, <1>3, OperationsTyped
  <2> HIDE DEF M
  <2>2. AbandonsNone(ledger, StateSet(M, j.id, "absent", w2))
    BY <1>0, <1>1, <1>4, <2>1
  <2> QED
    BY <2>1, <2>2 DEF Fruitless, M
<1>7. AbandonsNone(ledger, ledger)
  BY DEF AbandonsNone
<1>8. CASE FinishBroadcast(j, w1, w2) /\ j.answer # "refused"
  <2>1. j.answer \in {"ok", "uncertain"}
    BY <1>8 DEF FinishBroadcast, Inv, JobsFit, Handing
  <2> QED
    BY <1>5, <1>7, <1>8, <2>1 DEF FinishBroadcast, AfterBroadcast
<1>9. CASE FinishResend(j, w1, w2)
  BY <1>0, <1>1, <1>5, <1>9 DEF FinishResend
<1>10. CASE FinishCheck(j, w1, w2)
  BY <1>5, <1>6, <1>10 DEF FinishCheck
<1> QED
  BY <1>8, <1>9, <1>10

\* finish_broadcast: while one chain is open and every write succeeds, the
\* wallet gives an uncertain payment up by itself only when no node ever took
\* it: "A refusal is unambiguous".
THEOREM GivenUpWhenRefused ==
    ASSUME Chain = {FirstChain}, ~WritesFail
    PROVE  Spec => GivenUpOnlyIfRefused
<1> DEFINE Unseen ==
        \A r \in ledger.mem, q \in ledger'.mem :
            r.id = q.id /\ r.state = "uncertain" /\ q.state = "abandoned"
            /\ jobs' # jobs => r.tx \notin taken
<1>1. Settling /\ FirstSend /\ [Next]_vars => Unseen
  <2> SUFFICES ASSUME Settling, FirstSend, [Next]_vars,
                      NEW r \in ledger.mem, NEW q \in ledger'.mem,
                      r.id = q.id, r.state = "uncertain",
                      q.state = "abandoned", jobs' # jobs
               PROVE  r.tx \notin taken
    OBVIOUS
  <2> USE DEF Settling
  <2>0. /\ ledger \in Ledger /\ r \in Record
        /\ \A w \in Write : w \in BOOLEAN
        /\ Unique(ledger.mem)
    BY TypeFacts DEF Inv, IdsKept
  <2>1. ~AbandonsNone(ledger, ledger')
    <3>1. \A s \in ledger.mem : s.id = r.id => s = r
      BY <2>0 DEF Unique
    <3> QED
      BY <3>1 DEF AbandonsNone
  <2>2. AbandonsNone(ledger, ledger)
    BY DEF AbandonsNone
  <2>3. ledger' # ledger
    BY <2>1, <2>2
  <2>4. ASSUME NEW t \in Tx, NEW wrote \in Write, ConfirmSend(t, wrote)
        PROVE  FALSE
    <3> DEFINE new == [id |-> ledger.next, tx |-> t, checks |-> 0,
                       state |-> "uncertain"]
    <3>1. ledger' = Committed(ledger, t, wrote)
      BY <2>4 DEF ConfirmSend
    <3>2. /\ ledger'.mem = ledger.mem \cup {new}
          /\ ledger'.next = ledger.next + 1
          /\ wrote => ledger'.file = [readable |-> TRUE, records |-> ledger'.mem]
          /\ ~wrote => ledger'.file = ledger.file
      BY <2>0, <3>1, CommittedEffect
    <3>3. new.state # "abandoned"
      OBVIOUS
    <3> HIDE DEF new
    <3> QED
      BY <2>1, <3>2, <3>3 DEF AbandonsNone
  <2>5. ASSUME Restart PROVE FALSE
    <3>1. ledger'.mem = ledger.mem
      BY <2>5 DEF Restart, Opened, OnDisk, Written
    <3> QED
      BY <2>1, <3>1 DEF AbandonsNone
  <2>6. ASSUME NEW j \in jobs, NEW w1 \in Write, NEW w2 \in Write,
               \/ FinishBroadcast(j, w1, w2)
               \/ FinishResend(j, w1, w2)
               \/ FinishCheck(j, w1, w2)
        PROVE  r.tx \notin taken
    <3>1. FinishBroadcast(j, w1, w2) /\ j.answer = "refused"
      BY <2>1, <2>6, FinishAbandons
    <3>2. ledger' = StateSet(ledger, j.id, "abandoned", w1)
      BY <3>1 DEF FinishBroadcast, AfterBroadcast
    <3>3. j.id \in Nat /\ "abandoned" \in State /\ w1 \in BOOLEAN
      BY <2>0, TypeFacts DEF Inv, State
    <3> DEFINE F(s) == IF s.id = j.id THEN [s EXCEPT !.state = "abandoned"]
                       ELSE s
    <3>4. /\ ledger'.mem = {F(s) : s \in ledger.mem}
          /\ ledger'.next = ledger.next
          /\ w1 => ledger'.file = [readable |-> TRUE, records |-> ledger'.mem]
          /\ ~w1 => ledger'.file = ledger.file
      BY <2>0, <3>2, <3>3, StateSetEffect
    <3>5. \A s \in ledger.mem : F(s).id = s.id
      BY <2>0 DEF Ledger, Record
    <3>6. r.id # j.id => F(r) = r
      OBVIOUS
    <3> HIDE DEF F
    <3>7. PICK s \in ledger.mem : q = F(s)
      BY <3>4
    <3>8. s = r
      BY <2>0, <3>5, <3>7 DEF Unique
    <3>9. r.id = j.id
      BY <3>6, <3>7, <3>8
    <3>10. j.kind = "broadcast"
      BY <3>1 DEF FinishBroadcast
    <3> QED
      BY <3>1, <3>9, <3>10 DEF FirstSend, Sure, JobsKnown
  <2>7. ASSUME NEW c \in Chain PROVE ~SwitchNetwork(c)
    BY DEF SwitchNetwork, Inv, TypeOK
  <2>8. ASSUME NEW s \in ledger.mem, NEW wrote \in Write PROVE ~Abandon(s, wrote)
    BY DEF Abandon
  <2>9. ASSUME NEW t \in Tx PROVE ~PrepareSend(t) /\ ~CancelSend(t)
    BY <2>3 DEF PrepareSend, CancelSend, actor
  <2>10. ASSUME NEW s \in ledger.mem
         PROVE  ~CheckNow(s) /\ ~PollPending(s) /\ ~Resend(s)
    BY <2>3 DEF CheckNow, PollPending, CheckPending, Resend
  <2>11. ASSUME NEW n \in Node PROVE ~SelectNode(n)
    BY <2>3 DEF SelectNode
  <2>12. ASSUME NEW n \in Node, NEW b \in BOOLEAN
         PROVE  ~TipAnswered(n, b) /\ ~TipFailed(n, b)
    BY <2>3 DEF TipAnswered, TipFailed
  <2>13. ASSUME NEW j \in jobs PROVE ~Run(j) /\ ~Panic(j)
    BY <2>3 DEF Run, RunBroadcast, RunCheck, Panic, actor
  <2>14. ASSUME NEW j \in jobs, NEW ok \in BOOLEAN PROVE ~FinishPrepare(j, ok)
    BY <2>3 DEF FinishPrepare
  <2>15. ASSUME NEW t \in Tx, NEW n \in Node PROVE ~Gossip(t, n) /\ ~Forget(t, n)
    BY <2>3 DEF Gossip, Forget, actor
  <2>16. ~UNCHANGED vars
    BY DEF vars
  <2> QED
    BY <2>4, <2>5, <2>6, <2>7, <2>8, <2>9, <2>10, <2>11, <2>12, <2>13, <2>14,
       <2>15, <2>16
    DEF Next, Command, Tick, Finish, World
<1>2. Settling /\ FirstSend /\ [Next]_vars => [Unseen]_vars
  BY <1>1
<1> HIDE DEF Unseen
<1>3. Settling /\ Once /\ [Next]_vars => Once'
  BY OnceNext DEF Settling
<1>4. Settling /\ Once /\ FirstSend /\ [Next]_vars => FirstSend'
  BY FirstSendNext
<1>5. Spec => [][Unseen]_vars
  BY OnceInit, FirstSendInit, SettlingHolds, <1>2, <1>3, <1>4, PTL DEF Spec
<1> QED
  BY <1>5 DEF GivenUpOnlyIfRefused, Unseen

=============================================================================
