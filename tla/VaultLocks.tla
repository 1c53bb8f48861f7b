------------------------------ MODULE VaultLocks ------------------------------
(* The two read-write locks of a Vault, dek and doc, and who holds them:      *)
(* crates/pecu-keystore/src/vault.rs. The core calls one operation at a time; *)
(* signing runs on blocking workers that share the vault (Wallet::vault), so  *)
(* with_key meets every operation of the core half-way. An operation is the   *)
(* sequence of its acquisitions and releases, in the order of the source.     *)
(*                                                                            *)
(* The locks are std's (external): a reader waits while a writer holds or     *)
(* waits, which is what makes a lock taken twice by one thread a deadlock.    *)
EXTENDS Naturals, Sequences, FiniteSets

CONSTANTS Core, Worker, None

VaultLocksAssumption == Core \notin Worker /\ None \notin Worker \cup {Core}

VARIABLES
    op, pc,   \* per process: the operation it is in, and its next step
    reading,  \* per lock: who holds it for reading
    writing,  \* per lock: who holds it for writing
    asking,   \* per lock: who waits to write
    dek       \* is the data key there?

vars == <<op, pc, reading, writing, asking, dek>>

Process == Worker \cup {Core}
Lock == {"dek", "doc"}

Read(l) == [do |-> "read", lock |-> l]
Write(l) == [do |-> "write", lock |-> l]
Drop(l) == [do |-> "drop", lock |-> l]
Do(what) == [do |-> what, lock |-> "dek"]

\* persist serialises the document under its lock.
Persist == <<Read("doc"), Drop("doc")>>

\* with_key, with_shielded_key, shielded_view, seal_blob, open_blob: the data key
\* stays locked for reading until what is done with it is done.
UseKey == <<Read("dek"), Do("need"), Read("doc"), Do("use"), Drop("doc"), Drop("dek")>>
UnlockSteps == <<Read("doc"), Write("dek"), Do("set"), Drop("dek"), Drop("doc")>>
LockSteps == <<Write("dek"), Do("clear"), Drop("dek")>>
\* Mutant: the document is still held when it is written.
AddKeyHeld == <<Read("dek"), Do("need"), Write("doc")>> \o Persist \o <<Drop("doc"), Drop("dek")>>
AddKeySteps == <<Read("dek"), Do("need"), Write("doc"), Drop("doc"), Drop("dek")>> \o Persist
\* The last pair is the entry put back when the write failed.
RenameKeySteps ==
    <<Read("dek"), Do("need"), Write("doc"), Drop("doc"), Drop("dek")>> \o Persist
        \o <<Write("doc"), Drop("doc")>>
ChangePassphraseSteps ==
    <<Read("doc"), Drop("doc"), Read("doc"), Drop("doc"), Write("doc"), Drop("doc")>> \o Persist
        \o <<Write("doc"), Drop("doc")>>
MarkBackedUpSteps == <<Write("doc"), Drop("doc")>> \o Persist
KeysSteps == <<Read("doc"), Drop("doc")>>
IsUnlockedSteps == <<Read("dek"), Drop("dek")>>

CoreOps ==
    [unlock |-> UnlockSteps, lock |-> LockSteps, add_key |-> AddKeySteps,
     rename_key |-> RenameKeySteps, change_passphrase |-> ChangePassphraseSteps,
     mark_backed_up |-> MarkBackedUpSteps, keys |-> KeysSteps,
     is_unlocked |-> IsUnlockedSteps, view |-> UseKey]

\* What is left of a process's operation.
Steps(p) == IF p = Core THEN CoreOps[op[p]] ELSE UseKey
Idle(p) == op[p] = "idle"
Now(p) == Steps(p)[pc[p]]
-----------------------------------------------------------------------------
Init ==
    /\ op = [p \in Process |-> "idle"] /\ pc = [p \in Process |-> 1]
    /\ reading = [l \in Lock |-> {}] /\ writing = [l \in Lock |-> None]
    /\ asking = [l \in Lock |-> {}] /\ dek = FALSE

Begin(p) ==
    /\ Idle(p)
    /\ \E o \in IF p = Core THEN DOMAIN CoreOps ELSE {"with_key"} : op' = [op EXCEPT ![p] = o]
    /\ pc' = [pc EXCEPT ![p] = 1]
    /\ UNCHANGED <<reading, writing, asking, dek>>

\* On to the next step, or out of the operation.
Advance(p) ==
    IF pc[p] = Len(Steps(p))
    THEN op' = [op EXCEPT ![p] = "idle"] /\ pc' = [pc EXCEPT ![p] = 1]
    ELSE pc' = [pc EXCEPT ![p] = @ + 1] /\ UNCHANGED op

AcquireRead(p, l) ==
    /\ ~Idle(p) /\ Now(p) = Read(l) /\ writing[l] = None /\ asking[l] = {}
    /\ reading' = [reading EXCEPT ![l] = @ \cup {p}]
    /\ Advance(p) /\ UNCHANGED <<writing, asking, dek>>

\* A writer first waits in line, then for the lock to be free.
AskToWrite(p, l) ==
    /\ ~Idle(p) /\ Now(p) = Write(l) /\ p \notin asking[l]
    /\ asking' = [asking EXCEPT ![l] = @ \cup {p}]
    /\ UNCHANGED <<op, pc, reading, writing, dek>>
AcquireWrite(p, l) ==
    /\ ~Idle(p) /\ Now(p) = Write(l) /\ p \in asking[l]
    /\ reading[l] = {} /\ writing[l] = None
    /\ asking' = [asking EXCEPT ![l] = @ \ {p}] /\ writing' = [writing EXCEPT ![l] = p]
    /\ Advance(p) /\ UNCHANGED <<reading, dek>>

Release(p, l) ==
    /\ ~Idle(p) /\ Now(p) = Drop(l)
    /\ reading' = [reading EXCEPT ![l] = @ \ {p}]
    /\ writing' = [writing EXCEPT ![l] = IF @ = p THEN None ELSE @]
    /\ Advance(p) /\ UNCHANGED <<asking, dek>>

\* `ok_or(VaultError::Locked)?`: without a data key the guards are dropped.
Need(p) ==
    /\ ~Idle(p) /\ Now(p) = Do("need")
    /\ IF dek THEN Advance(p) /\ UNCHANGED reading
       ELSE /\ reading' = [l \in Lock |-> reading[l] \ {p}]
            /\ op' = [op EXCEPT ![p] = "idle"] /\ pc' = [pc EXCEPT ![p] = 1]
    /\ UNCHANGED <<writing, asking, dek>>

\* The key is used: a signature is made, a blob sealed.
Use(p) ==
    /\ ~Idle(p) /\ Now(p) = Do("use")
    /\ Advance(p) /\ UNCHANGED <<reading, writing, asking, dek>>

SetDek(p) ==
    /\ ~Idle(p) /\ Now(p).do \in {"set", "clear"} /\ dek' = (Now(p).do = "set")
    /\ Advance(p) /\ UNCHANGED <<reading, writing, asking>>

Step(p) ==
    \/ \E l \in Lock : AcquireRead(p, l) \/ AskToWrite(p, l) \/ AcquireWrite(p, l) \/ Release(p, l)
    \/ Need(p) \/ Use(p) \/ SetDek(p)

Next == \E p \in Process : Begin(p) \/ Step(p)

Spec == Init /\ [][Next]_vars

-----------------------------------------------------------------------------
TypeOK ==
    /\ op \in [Process -> DOMAIN CoreOps \cup {"with_key", "idle"}]
    /\ \A p \in Process : Idle(p) \/ pc[p] \in 1 .. Len(Steps(p))
    /\ \A l \in Lock :
          /\ reading[l] \subseteq Process /\ asking[l] \subseteq Process
          /\ writing[l] \in Process \cup {None}
          /\ writing[l] # None => reading[l] = {}
    /\ dek \in BOOLEAN

\* "the window in which a signing key exists is one operation" (Vault): while a
\* key is in use the wallet is unlocked; locking waits for it.
KeyOnlyWhileUnlocked ==
    \A p \in Process : ~Idle(p) /\ Now(p) = Do("use") => dek

\* Half-way through an operation of the vault: no order of the two locks stops the
\* core and its workers for each other.
Waiting(p) == op[p] # "idle"
=============================================================================
