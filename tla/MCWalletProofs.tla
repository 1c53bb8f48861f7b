--------------------------- MODULE MCWalletProofs ---------------------------
(* The properties of the run Wallet as theorems: the wallet file, its locks,  *)
(* the birthdays, the nodes, the proving parameters and the databases.        *)
(*                                                                            *)
(* A behaviour is that of one part, so an invariant is one implication for    *)
(* each part, and PartStep gives each part its own step.                      *)
EXTENDS MCWallet, FiniteSetTheorems, TLAPS

\* The wallet file and what is proved of it, with the values of V and of N.
PV == INSTANCE VaultProofs WITH
    up <- s1, file <- s2, bak <- s3, vault <- s4, dek <- s5, active <- s6, backup <- s7,
    shielded <- s8, used <- s9, stored <- s10, proven <- s11, Key <- Keys, Label <- Labels,
    Main <- MainLabel, Pass <- Passes, Write <- Writes, FailsIn <- LateWrites, Imports <- TRUE,
    MayCrash <- FALSE
PN == INSTANCE VaultProofs WITH
    up <- s1, file <- s2, bak <- s3, vault <- s4, dek <- s5, active <- s6, backup <- s7,
    shielded <- s8, used <- s9, stored <- s10, proven <- s11, Key <- Keys, Label <- Labels,
    Main <- MainLabel, Pass <- Passes, Write <- Writes, FailsIn <- {}, Imports <- FALSE,
    ReadsFail <- FALSE, MayCrash <- TRUE

\* A step is one of the part whose behaviour it is.
LEMMA PartStep ==
    ASSUME [Next]_vars
    PROVE  /\ part' = part
           /\ part = "vault" => [V!Next]_(V!vars)
           /\ part = "created" => [N!Next]_(N!vars)
           /\ part = "locks" => [L!Next]_(L!vars)
           /\ part = "birthday" => [B!Next]_(B!vars)
           /\ part = "nodes" => [K!Next]_(K!vars)
           /\ part = "params" => [P!Next]_(P!vars)
           /\ part = "store" => [S!Next]_(S!vars)
<1>1. CASE UNCHANGED vars
  BY <1>1 DEF vars, slots, V!vars, N!vars, L!vars, B!vars, K!vars, P!vars, S!vars
<1>2. CASE Next
  BY <1>2 DEF Next
<1> QED
  BY <1>1, <1>2

\* A behaviour starts as that part does.
LEMMA PartInit ==
    ASSUME Init
    PROVE  /\ part = "vault" => V!Init
           /\ part = "created" => N!Init
           /\ part = "locks" => L!Init
           /\ part = "birthday" => B!Init
           /\ part = "nodes" => K!Init
           /\ part = "params" => P!Init
           /\ part = "store" => S!Init
  BY DEF Init

\* Two names for one thing: what V says of the wallet file and what PV says.
LEMMA VaultIsThat ==
    /\ V!VaultAssumption = PV!VaultAssumption /\ V!Init = PV!Init /\ V!vars = PV!vars
    /\ V!TypeOK = PV!TypeOK
    /\ V!NoKeyLost = PV!NoKeyLost /\ V!NoEmptyWallet = PV!NoEmptyWallet
    /\ V!OpensAfterRestart = PV!OpensAfterRestart
    /\ V!ReferencesLive = PV!ReferencesLive /\ V!BackedUpWasSeen = PV!BackedUpWasSeen
    /\ V!ShieldedIsActives = PV!ShieldedIsActives
    /\ V!ShieldedFollowsActive = PV!ShieldedFollowsActive
    /\ V!FlagStays = PV!FlagStays
  BY DEF V!VaultAssumption, PV!VaultAssumption, V!Init, PV!Init, V!vars, PV!vars,
         V!IsDoc, PV!IsDoc, V!TypeOK, PV!TypeOK, V!Opens, PV!Opens,
         V!OpensAfterRestart, PV!OpensAfterRestart, V!NoKeyLost, PV!NoKeyLost,
         V!NoEmptyWallet, PV!NoEmptyWallet, V!ReferencesLive, PV!ReferencesLive,
         V!BackedUpWasSeen, PV!BackedUpWasSeen, V!ShieldedIsActives, PV!ShieldedIsActives,
         V!ShieldedFollowsActive, PV!ShieldedFollowsActive, V!FlagStays, PV!FlagStays,
         V!NoDoc, PV!NoDoc, V!NoBackup, PV!NoBackup, V!Exists, PV!Exists, V!KeysIn, PV!KeysIn,
         V!LabelsIn, PV!LabelsIn, V!AccountOf, PV!AccountOf, V!Entry, PV!Entry,
         V!Origin, PV!Origin

\* So too for their steps.
LEMMA VaultStepIsThat == [V!Next]_(V!vars) => [PV!Next]_(PV!vars)
<1>1. V!Next <=> PV!Next
    BY DEF V!Origin, PV!Origin, V!NoDoc, PV!NoDoc, V!NoBackup, PV!NoBackup, V!KeysIn, PV!KeysIn,
         V!LabelsIn, PV!LabelsIn, V!At, PV!At, V!Exists, PV!Exists, V!Copied, PV!Copied,
         V!Persisted, PV!Persisted, V!Disk, PV!Disk, V!EmptyDoc, PV!EmptyDoc,
         V!EntryOf, PV!EntryOf, V!WithKey, PV!WithKey, V!Renamed, PV!Renamed,
         V!Flagged, PV!Flagged, V!WithPass, PV!WithPass, V!AccountOf, PV!AccountOf,
         V!FirstLabel, PV!FirstLabel, V!Open, PV!Open, V!Gone, PV!Gone, V!Stop, PV!Stop,
         V!CrashHalfway, PV!CrashHalfway, V!MayCreate, PV!MayCreate, V!Create, PV!Create,
         V!Added, PV!Added, V!Import, PV!Import, V!AddKey, PV!AddKey, V!RenameKey, PV!RenameKey,
         V!SetActiveKey, PV!SetActiveKey, V!ChangePassphrase, PV!ChangePassphrase,
         V!RevealBackup, PV!RevealBackup, V!CancelBackup, PV!CancelBackup,
         V!ConfirmPhrase, PV!ConfirmPhrase, V!Unlock, PV!Unlock, V!Lock, PV!Lock,
         V!Next, PV!Next
<1>2. V!vars = PV!vars /\ (V!vars)' = (PV!vars)'
  BY DEF V!vars, PV!vars
<1> QED
  BY <1>1, <1>2

\* Likewise for N and PN.
LEMMA CreatedIsThat ==
    /\ N!VaultAssumption = PN!VaultAssumption /\ N!Init = PN!Init /\ N!vars = PN!vars
    /\ N!TypeOK = PN!TypeOK
    /\ N!NoKeyLost = PN!NoKeyLost /\ N!NoEmptyWallet = PN!NoEmptyWallet
    /\ N!OpensAfterRestart = PN!OpensAfterRestart
    /\ N!ReferencesLive = PN!ReferencesLive /\ N!BackedUpWasSeen = PN!BackedUpWasSeen
    /\ N!ShieldedIsActives = PN!ShieldedIsActives
    /\ N!ShieldedFollowsActive = PN!ShieldedFollowsActive
    /\ N!FlagStays = PN!FlagStays
  BY DEF N!VaultAssumption, PN!VaultAssumption, N!Init, PN!Init, N!vars, PN!vars,
         N!IsDoc, PN!IsDoc, N!TypeOK, PN!TypeOK, N!Opens, PN!Opens,
         N!OpensAfterRestart, PN!OpensAfterRestart, N!NoKeyLost, PN!NoKeyLost,
         N!NoEmptyWallet, PN!NoEmptyWallet, N!ReferencesLive, PN!ReferencesLive,
         N!BackedUpWasSeen, PN!BackedUpWasSeen, N!ShieldedIsActives, PN!ShieldedIsActives,
         N!ShieldedFollowsActive, PN!ShieldedFollowsActive, N!FlagStays, PN!FlagStays,
         N!NoDoc, PN!NoDoc, N!NoBackup, PN!NoBackup, N!Exists, PN!Exists, N!KeysIn, PN!KeysIn,
         N!LabelsIn, PN!LabelsIn, N!AccountOf, PN!AccountOf, N!Entry, PN!Entry,
         N!Origin, PN!Origin

\* And for the steps of N and PN.
LEMMA CreatedStepIsThat == [N!Next]_(N!vars) => [PN!Next]_(PN!vars)
<1>1. N!Next <=> PN!Next
    BY DEF N!Origin, PN!Origin, N!NoDoc, PN!NoDoc, N!NoBackup, PN!NoBackup, N!KeysIn, PN!KeysIn,
         N!LabelsIn, PN!LabelsIn, N!At, PN!At, N!Exists, PN!Exists, N!Copied, PN!Copied,
         N!Persisted, PN!Persisted, N!Disk, PN!Disk, N!EmptyDoc, PN!EmptyDoc,
         N!EntryOf, PN!EntryOf, N!WithKey, PN!WithKey, N!Renamed, PN!Renamed,
         N!Flagged, PN!Flagged, N!WithPass, PN!WithPass, N!AccountOf, PN!AccountOf,
         N!FirstLabel, PN!FirstLabel, N!Open, PN!Open, N!Gone, PN!Gone, N!Stop, PN!Stop,
         N!CrashHalfway, PN!CrashHalfway, N!MayCreate, PN!MayCreate, N!Create, PN!Create,
         N!Added, PN!Added, N!Import, PN!Import, N!AddKey, PN!AddKey, N!RenameKey, PN!RenameKey,
         N!SetActiveKey, PN!SetActiveKey, N!ChangePassphrase, PN!ChangePassphrase,
         N!RevealBackup, PN!RevealBackup, N!CancelBackup, PN!CancelBackup,
         N!ConfirmPhrase, PN!ConfirmPhrase, N!Unlock, PN!Unlock, N!Lock, PN!Lock,
         N!Next, PN!Next
<1>2. N!vars = PN!vars /\ (N!vars)' = (PN!vars)'
  BY DEF N!vars, PN!vars
<1> QED
  BY <1>1, <1>2

-----------------------------------------------------------------------------
(* The wallet file *)

\* What the values of the constants make true of the file.
LEMMA WalletConstants ==
    /\ PV!VaultAssumption /\ "add" \notin LateWrites
    /\ PN!VaultAssumption
  BY WalletAssumption, VaultIsThat, CreatedIsThat DEF LateWrites

\* What is proved in VaultProofs, for a behaviour of the wallet file.
VaultInv ==
    /\ part = "vault" => PV!Core /\ PV!Refs /\ PV!ShieldedIsActives
    /\ part = "created" => PN!Core /\ PN!Refs /\ PN!ShieldedFollowsActive
FileInv ==
    part = "vault" => PV!Kept /\ PV!FlagsKept /\ PV!NeverEmpty /\ PV!OpensAfterRestart

\* At the start.
LEMMA VaultInvInit == Init => VaultInv /\ FileInv
<1>1. ASSUME Init, part = "vault" PROVE PV!Core /\ PV!Refs /\ PV!ShieldedIsActives
  BY <1>1, PartInit, WalletConstants, VaultIsThat, PV!CoreInit, PV!ShieldedInit
<1>2. ASSUME Init, part = "created" PROVE PN!Core /\ PN!Refs /\ PN!ShieldedFollowsActive
  BY <1>2, PartInit, WalletConstants, CreatedIsThat, PN!CoreInit, PN!ShieldedInit
<1>3. ASSUME Init, part = "vault"
      PROVE  PV!Kept /\ PV!FlagsKept /\ PV!NeverEmpty /\ PV!OpensAfterRestart
  BY <1>3, PartInit, VaultIsThat, PV!FilesInit
<1> QED
  BY <1>1, <1>2, <1>3 DEF VaultInv, FileInv

\* Every step keeps what is in memory known, closed and under its names.
LEMMA VaultInvStep == VaultInv /\ [Next]_vars => VaultInv'
<1>1. ASSUME VaultInv, [Next]_vars, part' = "vault"
      PROVE  (PV!Core /\ PV!Refs /\ PV!ShieldedIsActives)'
  <2>1. /\ part = "vault" /\ [PV!Next]_(PV!vars)
        /\ PV!Core /\ PV!Refs /\ PV!ShieldedIsActives
    BY <1>1, PartStep, VaultIsThat, VaultStepIsThat DEF VaultInv
  <2> QED
    BY <2>1, WalletConstants, PV!CoreStep, PV!RefsStep, PV!ShieldedStep
<1>2. ASSUME VaultInv, [Next]_vars, part' = "created"
      PROVE  (PN!Core /\ PN!Refs /\ PN!ShieldedFollowsActive)'
  <2>1. /\ part = "created" /\ [PN!Next]_(PN!vars)
        /\ PN!Core /\ PN!Refs /\ PN!ShieldedFollowsActive
    BY <1>2, PartStep, CreatedIsThat, CreatedStepIsThat DEF VaultInv
  <2> QED
    BY <2>1, WalletConstants, PN!CoreStep, PN!RefsStep, PN!ShieldedStep
<1> QED
  BY <1>1, <1>2 DEF VaultInv

\* And, as long as the file can be read, what is in the file.
LEMMA FileInvStep ==
    ASSUME ~ReadsFail, VaultInv, FileInv, [Next]_vars
    PROVE  FileInv' /\ (part = "vault" => V!FlagStays)
<1> SUFFICES ASSUME part' = "vault"
             PROVE  /\ (PV!Kept /\ PV!FlagsKept /\ PV!NeverEmpty /\ PV!OpensAfterRestart)'
                    /\ V!FlagStays
  BY PartStep DEF FileInv
<1>1. /\ part = "vault" /\ [PV!Next]_(PV!vars) /\ PV!Core
      /\ PV!Kept /\ PV!FlagsKept /\ PV!NeverEmpty /\ PV!OpensAfterRestart
  BY PartStep, VaultIsThat, VaultStepIsThat DEF VaultInv, FileInv
<1>2. PV!Kept'
  BY <1>1, WalletConstants, PV!KeptStep
<1>3. PV!FlagsKept' /\ PV!FlagStays
  BY <1>1, WalletConstants, PV!FlagsStep
<1>4. PV!NeverEmpty'
  BY <1>1, WalletConstants, PV!NeverEmptyStep
<1>5. PV!OpensAfterRestart'
  BY <1>1, WalletConstants, PV!OpensStep
<1> QED
  BY <1>2, <1>3, <1>4, <1>5, VaultIsThat

\* "A half-written vault is unrecoverable and would destroy funds" (Vault::persist):
\* as long as the file can be read, a key that was written is in it or in its copy,
\* it has a key in it, and a restart opens what memory has.
THEOREM WrittenKeysStay == ASSUME ~ReadsFail PROVE Spec => []NoKeyLost
<1>1. Init => VaultInv /\ FileInv
  BY VaultInvInit
<1>2. VaultInv /\ FileInv /\ [Next]_vars => VaultInv' /\ FileInv'
  BY VaultInvStep, FileInvStep
<1>3. FileInv => NoKeyLost
  BY VaultIsThat, PV!FilesAre DEF FileInv, NoKeyLost
<1> QED
  BY <1>1, <1>2, <1>3, PTL DEF Spec

-----------------------------------------------------------------------------
(* The locks *)

Act == [do : {"read", "write", "drop", "need", "use", "set", "clear"}, lock : L!Lock]
\* The steps that neither use the data key nor set it.
Quiet == {a \in Act : a.do \notin {"use", "set", "clear"}}
Ops == {"unlock", "lock", "add_key", "rename_key", "change_passphrase",
        "mark_backed_up", "keys", "is_unlocked", "view"}

\* The acts of an operation that only takes and lets go of locks are quiet.
LEMMA QuietActs ==
    /\ \A l \in L!Lock : {L!Read(l), L!Write(l), L!Drop(l)} \subseteq Quiet
    /\ L!Do("need") \in Quiet
    /\ \A l \in L!Lock : L!Read(l).do = "read" /\ L!Write(l).do = "write" /\ L!Drop(l).do = "drop"
    /\ \A l \in L!Lock : L!Read(l).lock = l /\ L!Write(l).lock = l /\ L!Drop(l).lock = l
    /\ \A d : L!Do(d).do = d
  BY DEF Quiet, Act, L!Lock, L!Read, L!Write, L!Drop, L!Do

\* An operation of quiet acts does nothing with the data key.
LEMMA QuietSeqs ==
    /\ L!Persist \in Seq(Quiet) /\ L!AddKeySteps \in Seq(Quiet) /\ L!RenameKeySteps \in Seq(Quiet)
    /\ L!ChangePassphraseSteps \in Seq(Quiet) /\ L!MarkBackedUpSteps \in Seq(Quiet)
    /\ L!KeysSteps \in Seq(Quiet) /\ L!IsUnlockedSteps \in Seq(Quiet)
    /\ Len(L!AddKeySteps) > 0 /\ Len(L!RenameKeySteps) > 0 /\ Len(L!ChangePassphraseSteps) > 0
    /\ Len(L!MarkBackedUpSteps) > 0 /\ Len(L!KeysSteps) > 0 /\ Len(L!IsUnlockedSteps) > 0
<1> DEFINE RD == L!Read("dek") RO == L!Read("doc") WO == L!Write("doc")
           DD == L!Drop("dek") DO == L!Drop("doc") ND == L!Do("need")
           thrice == <<RO, DO, RO, DO, WO, DO>>
<1>1. {RD, RO, WO, DD, DO, ND} \subseteq Quiet
  BY QuietActs DEF L!Lock
<1> HIDE DEF RD, RO, WO, DD, DO, ND
<1>2. <<RO, DO>> \in Seq(Quiet) /\ <<RD, ND, WO, DO, DD>> \in Seq(Quiet) /\ <<WO, DO>> \in Seq(Quiet)
      /\ <<RO, DO, RO, DO, WO, DO>> \in Seq(Quiet) /\ <<RD, DD>> \in Seq(Quiet)
  BY <1>1
<1>3. \A s, t \in Seq(Quiet) : s \o t \in Seq(Quiet) /\ Len(s \o t) = Len(s) + Len(t)
  OBVIOUS
<1>4. L!Persist = <<RO, DO>> /\ L!AddKeySteps = <<RD, ND, WO, DO, DD>> \o L!Persist
      /\ L!RenameKeySteps = <<RD, ND, WO, DO, DD>> \o L!Persist \o <<WO, DO>>
      /\ L!ChangePassphraseSteps = <<RO, DO, RO, DO, WO, DO>> \o L!Persist \o <<WO, DO>>
      /\ L!MarkBackedUpSteps = <<WO, DO>> \o L!Persist
      /\ L!KeysSteps = <<RO, DO>> /\ L!IsUnlockedSteps = <<RD, DD>>
  BY DEF RD, RO, WO, DD, DO, ND, L!Persist, L!AddKeySteps, L!RenameKeySteps,
         L!ChangePassphraseSteps, L!MarkBackedUpSteps, L!KeysSteps, L!IsUnlockedSteps
<1>5. Len(<<RO, DO>>) = 2 /\ Len(<<RD, ND, WO, DO, DD>>) = 5 /\ Len(<<WO, DO>>) = 2
      /\ Len(<<RO, DO, RO, DO, WO, DO>>) = 6 /\ Len(<<RD, DD>>) = 2
  OBVIOUS
<1>6. L!Persist \in Seq(Quiet) /\ L!KeysSteps \in Seq(Quiet) /\ L!IsUnlockedSteps \in Seq(Quiet)
      /\ Len(L!Persist) = 2 /\ Len(L!KeysSteps) = 2 /\ Len(L!IsUnlockedSteps) = 2
  BY <1>2, <1>4, <1>5
<1>7. L!AddKeySteps \in Seq(Quiet) /\ Len(L!AddKeySteps) = 7
      /\ L!MarkBackedUpSteps \in Seq(Quiet) /\ Len(L!MarkBackedUpSteps) = 4
  BY <1>2, <1>3, <1>4, <1>5, <1>6
<1>8. (thrice \o L!Persist) \in Seq(Quiet) /\ Len(thrice \o L!Persist) = 8
  <2>1. thrice \in Seq(Quiet) /\ Len(thrice) = 6
    BY <1>2, <1>5
  <2> HIDE DEF thrice
  <2>2. (thrice \o L!Persist) \in Seq(Quiet)
    BY <2>1, <1>3, <1>6, Zenon
  <2>3. Len(thrice \o L!Persist) = Len(thrice) + Len(L!Persist)
    BY <2>1, <1>3, <1>6, Zenon
  <2> QED
    BY <2>1, <2>2, <2>3, <1>6
<1>9. L!RenameKeySteps \in Seq(Quiet) /\ Len(L!RenameKeySteps) = 9
      /\ L!ChangePassphraseSteps \in Seq(Quiet) /\ Len(L!ChangePassphraseSteps) = 10
  BY <1>2, <1>3, <1>4, <1>5, <1>6, <1>7, <1>8
<1> QED
  BY <1>6, <1>7, <1>9

\* The steps of with_key and of the operations that touch the data key.
LEMMA StepsAre ==
    /\ Len(L!UseKey) = 6
    /\ \A o \in Ops : Len(L!CoreOps[o]) \in Nat /\ Len(L!CoreOps[o]) >= 1
<1>1. Len(L!UseKey) = 6 /\ Len(L!UnlockSteps) = 5 /\ Len(L!LockSteps) = 3
  BY DEF L!UseKey, L!UnlockSteps, L!LockSteps
<1>2. \A o \in Ops : L!CoreOps[o] \in {L!UseKey, L!UnlockSteps, L!LockSteps, L!AddKeySteps,
            L!RenameKeySteps, L!ChangePassphraseSteps, L!MarkBackedUpSteps, L!KeysSteps,
            L!IsUnlockedSteps}
  BY DEF L!CoreOps, Ops
<1>3. ASSUME NEW s \in Seq(Quiet), Len(s) > 0 PROVE Len(s) \in Nat /\ Len(s) >= 1
  BY <1>3
<1>4. \A s \in {L!AddKeySteps, L!RenameKeySteps, L!ChangePassphraseSteps, L!MarkBackedUpSteps,
                L!KeysSteps, L!IsUnlockedSteps} : s \in Seq(Quiet) /\ Len(s) > 0
  BY QuietSeqs
<1>5. ASSUME NEW o \in Ops PROVE Len(L!CoreOps[o]) \in Nat /\ Len(L!CoreOps[o]) >= 1
  <2>1. CASE L!CoreOps[o] \in {L!UseKey, L!UnlockSteps, L!LockSteps}
    <3>1. Len(L!CoreOps[o]) \in {6, 5, 3}
      BY <1>1, <2>1, Zenon
    <3> QED
      BY <3>1
  <2>2. CASE L!CoreOps[o] \notin {L!UseKey, L!UnlockSteps, L!LockSteps}
    BY <1>2, <1>3, <1>4, <2>2, Zenon
  <2> QED
    BY <2>1, <2>2
<1> QED
  BY <1>1, <1>5

\* The processes that are in with_key, or in one of the core's views.
Uses(p) == p # Core \/ s1[p] = "view"

LocksTyped ==
    /\ s1 \in [L!Process -> Ops \cup {"with_key", "idle"}]
    /\ s1[Core] # "with_key" /\ \A w \in Workers : s1[w] \in {"with_key", "idle"}
    /\ s2 \in [L!Process -> Nat]
    /\ \A p \in L!Process : s1[p] = "idle" \/ s2[p] \in 1 .. Len(L!Steps(p))
    /\ s3 \in [L!Lock -> SUBSET L!Process] /\ s4 \in [L!Lock -> L!Process \cup {None}]
    /\ s5 \in [L!Lock -> SUBSET L!Process] /\ s6 \in BOOLEAN
    /\ \A l \in L!Lock : s4[l] # None => s3[l] = {}

\* Who uses the data key holds its lock, from before it is looked for; who sets it
\* or clears it has the lock for writing.
Holding ==
    /\ \A p \in L!Process : s1[p] # "idle" /\ Uses(p) =>
          /\ s2[p] \in 2 .. 6 => p \in s3["dek"]
          /\ s2[p] \in 3 .. 6 => s6
    /\ s1[Core] = "unlock" /\ s2[Core] = 3 => s4["dek"] = Core
    /\ s1[Core] = "lock" /\ s2[Core] = 2 => s4["dek"] = Core

\* What a process of the core or a worker is about to do.
StepIs(p) ==
    /\ Len(L!Steps(p)) \in Nat
    /\ Uses(p) => /\ Len(L!Steps(p)) = 6
                  /\ s2[p] = 1 => L!Now(p) = L!Read("dek")
                  /\ s2[p] = 2 => L!Now(p) = L!Do("need")
                  /\ s2[p] = 3 => L!Now(p) = L!Read("doc")
                  /\ s2[p] = 4 => L!Now(p) = L!Do("use")
                  /\ s2[p] = 5 => L!Now(p) = L!Drop("doc")
    /\ p = Core /\ s1[p] = "unlock" =>
                  /\ s2[p] = 1 => L!Now(p) = L!Read("doc")
                  /\ s2[p] = 2 => L!Now(p) = L!Write("dek")
                  /\ s2[p] = 3 => L!Now(p) = L!Do("set")
    /\ p = Core /\ s1[p] = "lock" =>
                  /\ s2[p] = 1 => L!Now(p) = L!Write("dek")
                  /\ s2[p] = 2 => L!Now(p) = L!Do("clear")
    /\ L!Now(p).do = "use" => Uses(p) /\ s2[p] = 4
    /\ L!Now(p).do = "clear" => p = Core /\ s1[p] = "lock" /\ s2[p] = 2

\* Whatever a process is in, its next act is one of the operation it is in.
LEMMA StepKinds ==
    ASSUME LocksTyped, NEW p \in L!Process, s1[p] # "idle"
    PROVE  StepIs(p)
<1>1. s2[p] \in 1 .. Len(L!Steps(p)) /\ L!Now(p) = L!Steps(p)[s2[p]]
  BY DEF LocksTyped, L!Now
<1>2. p # Core => L!Steps(p) = L!UseKey
  BY DEF L!Steps
<1>3. p = Core => s1[p] \in Ops /\ L!Steps(p) = L!CoreOps[s1[p]]
  BY DEF L!Steps, LocksTyped
<1>4. L!CoreOps["view"] = L!UseKey /\ L!CoreOps["unlock"] = L!UnlockSteps
      /\ L!CoreOps["lock"] = L!LockSteps
      /\ \A o \in Ops \ {"view", "unlock", "lock"} :
            L!CoreOps[o] \in {L!AddKeySteps, L!RenameKeySteps, L!ChangePassphraseSteps,
                              L!MarkBackedUpSteps, L!KeysSteps, L!IsUnlockedSteps}
  BY DEF L!CoreOps, Ops
<1>5. CASE Uses(p)
  <2>1. L!Steps(p) = L!UseKey /\ ~(p = Core /\ s1[p] \in {"unlock", "lock"})
    BY <1>2, <1>3, <1>4, <1>5 DEF Uses
  <2>2. Len(L!UseKey) = 6
    BY DEF L!UseKey
  <2>3. /\ s2[p] = 1 => L!Now(p) = L!Read("dek")
        /\ s2[p] = 2 => L!Now(p) = L!Do("need")
        /\ s2[p] = 3 => L!Now(p) = L!Read("doc")
        /\ s2[p] = 4 => L!Now(p) = L!Do("use")
        /\ s2[p] = 5 => L!Now(p) = L!Drop("doc")
        /\ s2[p] = 6 => L!Now(p) = L!Drop("dek")
    BY <1>1, <2>1 DEF L!UseKey
  <2>4. s2[p] \in 1 .. 6
    BY <1>1, <2>1, <2>2
  <2>5. L!Now(p).do = "use" => s2[p] = 4
    BY <2>3, <2>4, QuietActs DEF L!Lock
  <2>6. L!Now(p).do # "clear"
    BY <2>3, <2>4, QuietActs DEF L!Lock
  <2> QED
    BY <2>1, <2>2, <2>3, <2>5, <2>6, <1>5 DEF StepIs
<1>6. CASE p = Core /\ s1[p] = "unlock"
  <2>1. L!Steps(p) = L!UnlockSteps /\ ~Uses(p)
    BY <1>3, <1>4, <1>6 DEF Uses
  <2>2. Len(L!UnlockSteps) = 5
    BY DEF L!UnlockSteps
  <2>3. /\ s2[p] = 1 => L!Now(p) = L!Read("doc")
        /\ s2[p] = 2 => L!Now(p) = L!Write("dek")
        /\ s2[p] = 3 => L!Now(p) = L!Do("set")
        /\ s2[p] = 4 => L!Now(p) = L!Drop("dek")
        /\ s2[p] = 5 => L!Now(p) = L!Drop("doc")
    BY <1>1, <2>1 DEF L!UnlockSteps
  <2>4. s2[p] \in 1 .. 5
    BY <1>1, <2>1, <2>2
  <2>5. L!Now(p).do \notin {"use", "clear"}
    BY <2>3, <2>4, QuietActs DEF L!Lock
  <2> QED
    BY <2>1, <2>2, <2>3, <2>5, <1>6 DEF StepIs
<1>7. CASE p = Core /\ s1[p] = "lock"
  <2>1. L!Steps(p) = L!LockSteps /\ ~Uses(p)
    BY <1>3, <1>4, <1>7 DEF Uses
  <2>2. Len(L!LockSteps) = 3
    BY DEF L!LockSteps
  <2>3. /\ s2[p] = 1 => L!Now(p) = L!Write("dek")
        /\ s2[p] = 2 => L!Now(p) = L!Do("clear")
        /\ s2[p] = 3 => L!Now(p) = L!Drop("dek")
    BY <1>1, <2>1 DEF L!LockSteps
  <2>4. s2[p] \in 1 .. 3
    BY <1>1, <2>1, <2>2
  <2>5. L!Now(p).do # "use" /\ (L!Now(p).do = "clear" => s2[p] = 2)
    BY <2>3, <2>4, QuietActs DEF L!Lock
  <2> QED
    BY <2>1, <2>2, <2>3, <2>5, <1>7 DEF StepIs
<1>8. CASE p = Core /\ s1[p] \notin {"view", "unlock", "lock"}
  <2>1. ~Uses(p) /\ L!Steps(p) \in Seq(Quiet)
    BY <1>3, <1>4, <1>8, QuietSeqs DEF Uses
  <2>2. L!Now(p) \in Quiet
    BY <2>1, <1>1
  <2>3. L!Now(p).do \notin {"use", "clear"}
    BY <2>2 DEF Quiet
  <2> QED
    BY <2>1, <2>3, <1>1, <1>8 DEF StepIs
<1> QED
  BY <1>5, <1>6, <1>7, <1>8 DEF Uses

\* At the start nobody holds anything.
LEMMA LocksInit == ASSUME L!Init PROVE LocksTyped /\ Holding
<1>1. Core \in L!Process /\ Workers \subseteq L!Process
  BY DEF L!Process
<1>2. \A p \in L!Process : s1[p] = "idle" /\ s2[p] = 1
  BY DEF L!Init
<1>3. s1 \in [L!Process -> Ops \cup {"with_key", "idle"}] /\ s2 \in [L!Process -> Nat]
  BY DEF L!Init
<1>4. /\ s3 \in [L!Lock -> SUBSET L!Process] /\ s4 \in [L!Lock -> L!Process \cup {None}]
      /\ s5 \in [L!Lock -> SUBSET L!Process] /\ s6 \in BOOLEAN
      /\ \A l \in L!Lock : s4[l] = None
  BY DEF L!Init
<1> QED
  BY <1>1, <1>2, <1>3, <1>4 DEF LocksTyped, Holding

\* What a step leaves of where the processes are.
LEMMA Advanced ==
    ASSUME LocksTyped, NEW p \in L!Process, s1[p] # "idle", L!Advance(p)
    PROVE  /\ s1' \in [L!Process -> Ops \cup {"with_key", "idle"}]
           /\ s2' \in [L!Process -> Nat]
           /\ \A q \in L!Process : s1'[q] # "idle" => s1'[q] = s1[q]
           /\ \A q \in L!Process \ {p} : s1'[q] = s1[q] /\ s2'[q] = s2[q]
           /\ s1'[p] # "idle" => s2'[p] = s2[p] + 1 /\ s2[p] < Len(L!Steps(p))
<1>1. /\ s1 \in [L!Process -> Ops \cup {"with_key", "idle"}] /\ s2 \in [L!Process -> Nat]
      /\ s2[p] \in 1 .. Len(L!Steps(p)) /\ StepIs(p)
  BY StepKinds DEF LocksTyped
<1>2. CASE s2[p] = Len(L!Steps(p))
  BY <1>1, <1>2 DEF L!Advance
<1>3. CASE s2[p] # Len(L!Steps(p))
  BY <1>1, <1>3 DEF L!Advance, StepIs
<1> QED
  BY <1>2, <1>3

\* An operation that goes on has the same steps.
LEMMA SameSteps ==
    ASSUME NEW q, s1'[q] = s1[q]
    PROVE  L!Steps(q)' = L!Steps(q) /\ Uses(q)' = Uses(q)
  BY DEF L!Steps, Uses

\* Going on by one step keeps the types of the operation and of its place.
LEMMA AdvancedTypes ==
    ASSUME LocksTyped, NEW p \in L!Process, s1[p] # "idle", L!Advance(p),
           s3' \in [L!Lock -> SUBSET L!Process], s4' \in [L!Lock -> L!Process \cup {None}],
           s5' \in [L!Lock -> SUBSET L!Process], s6' \in BOOLEAN,
           \A l \in L!Lock : s4'[l] # None => s3'[l] = {}
    PROVE  LocksTyped'
<1>1. /\ s1' \in [L!Process -> Ops \cup {"with_key", "idle"}]
      /\ s2' \in [L!Process -> Nat]
      /\ \A q \in L!Process : s1'[q] # "idle" => s1'[q] = s1[q]
      /\ \A q \in L!Process \ {p} : s1'[q] = s1[q] /\ s2'[q] = s2[q]
      /\ s1'[p] # "idle" => s2'[p] = s2[p] + 1 /\ s2[p] < Len(L!Steps(p))
  BY Advanced
<1>2. s1'[Core] # "with_key" /\ \A w \in Workers : s1'[w] \in {"with_key", "idle"}
  BY <1>1 DEF LocksTyped, L!Process
<1>3. ASSUME NEW q \in L!Process, s1'[q] # "idle" PROVE s2'[q] \in 1 .. Len(L!Steps(q)')
  <2>1. L!Steps(q)' = L!Steps(q) /\ s1[q] # "idle"
    BY <1>1, <1>3, SameSteps
  <2>2. s2[q] \in 1 .. Len(L!Steps(q)) /\ Len(L!Steps(q)) \in Nat
    BY <2>1, StepKinds DEF LocksTyped, StepIs
  <2> QED
    BY <1>1, <1>3, <2>1, <2>2
<1> QED
  BY <1>1, <1>2, <1>3 DEF LocksTyped, L!Process, L!Lock

\* A step of a process that moves on; what it changes of the locks is its own.
LEMMA AdvancedHolding ==
    ASSUME LocksTyped, Holding, NEW p \in L!Process, s1[p] # "idle", L!Advance(p),
           \A q \in L!Process \ {p} : q \in s3["dek"] => q \in s3'["dek"],
           \A q \in L!Process \ {p} : s4["dek"] = q => s4'["dek"] = q,
           s6 = s6' \/ s6' \/ s3["dek"] = {},
           Uses(p) /\ s2[p] \in 1 .. 5 => p \in s3'["dek"] /\ (s2[p] >= 2 => s6'),
           p = Core /\ s1[p] = "unlock" /\ s2[p] = 2 => s4'["dek"] = p,
           p = Core /\ s1[p] = "lock" /\ s2[p] = 1 => s4'["dek"] = p
    PROVE  Holding'
<1>1. /\ \A q \in L!Process : s1'[q] # "idle" => s1'[q] = s1[q]
      /\ \A q \in L!Process \ {p} : s1'[q] = s1[q] /\ s2'[q] = s2[q]
      /\ s1'[p] # "idle" => s2'[p] = s2[p] + 1 /\ s2[p] < Len(L!Steps(p))
  BY Advanced
<1>2. /\ StepIs(p) /\ Core \in L!Process
      /\ \A q \in L!Process : s2[q] \in Nat
  BY StepKinds DEF LocksTyped, L!Process
<1>3. ASSUME NEW q \in L!Process, s1'[q] # "idle", Uses(q)', s2'[q] \in 2 .. 6
      PROVE  q \in s3'["dek"] /\ (s2'[q] >= 3 => s6')
  <2>1. Uses(q) /\ s1[q] # "idle"
    BY <1>1, <1>3, SameSteps
  <2>2. CASE q = p
    BY <2>1, <2>2, <1>1, <1>2, <1>3
  <2>3. CASE q # p
    BY <2>1, <2>3, <1>1, <1>2, <1>3 DEF Holding
  <2> QED
    BY <2>2, <2>3
<1>4. ASSUME s1'[Core] = "unlock", s2'[Core] = 3 PROVE s4'["dek"] = Core
  BY <1>1, <1>2, <1>4 DEF Holding
<1>5. ASSUME s1'[Core] = "lock", s2'[Core] = 2 PROVE s4'["dek"] = Core
  BY <1>1, <1>2, <1>5 DEF Holding
<1> QED
  BY <1>1, <1>2, <1>3, <1>4, <1>5 DEF Holding, LocksTyped

\* No act of any process takes a lock away that another one uses.
LEMMA LocksStep ==
    ASSUME LocksTyped, Holding, [L!Next]_(L!vars)
    PROVE  LocksTyped' /\ Holding'
<1> DEFINE Goal == LocksTyped' /\ Holding'
<1>1. CASE UNCHANGED L!vars
  <2>1. s1' = s1 /\ s2' = s2 /\ s3' = s3 /\ s4' = s4 /\ s5' = s5 /\ s6' = s6
    BY <1>1 DEF L!vars
  <2>2. \A p \in L!Process : L!Steps(p)' = L!Steps(p) /\ Uses(p)' = Uses(p)
    BY <2>1, SameSteps
  <2> QED
    BY <2>1, <2>2 DEF LocksTyped, Holding
<1>2. /\ Core \in L!Process /\ "dek" \in L!Lock /\ Core \notin Workers /\ None \notin L!Process
      /\ L!Process = Workers \cup {Core}
  BY WalletAssumption DEF L!VaultLocksAssumption, L!Process, L!Lock
<1>3. /\ s3 \in [L!Lock -> SUBSET L!Process] /\ s4 \in [L!Lock -> L!Process \cup {None}]
      /\ s5 \in [L!Lock -> SUBSET L!Process] /\ s6 \in BOOLEAN
      /\ \A l \in L!Lock : s4[l] # None => s3[l] = {}
  BY DEF LocksTyped
<1>4. ASSUME NEW p \in L!Process, L!Begin(p) PROVE Goal
  <2>1. /\ s1[p] = "idle" /\ s3' = s3 /\ s4' = s4 /\ s5' = s5 /\ s6' = s6
        /\ s2' = [s2 EXCEPT ![p] = 1]
    BY <1>4 DEF L!Begin, L!Idle
  <2>2. PICK o \in Ops \cup {"with_key"} :
           s1' = [s1 EXCEPT ![p] = o] /\ (o = "with_key" <=> p # Core)
    BY <1>4 DEF L!Begin, L!CoreOps, Ops
  <2>3. /\ s1' \in [L!Process -> Ops \cup {"with_key", "idle"}] /\ s2' \in [L!Process -> Nat]
        /\ \A q \in L!Process \ {p} : s1'[q] = s1[q] /\ s2'[q] = s2[q]
        /\ s1'[p] = o /\ s2'[p] = 1
    BY <2>1, <2>2 DEF LocksTyped
  <2>4. s1'[Core] # "with_key" /\ \A w \in Workers : s1'[w] \in {"with_key", "idle"}
    BY <2>2, <2>3, <1>2 DEF LocksTyped
  <2>5. \A q \in L!Process \ {p} : L!Steps(q)' = L!Steps(q) /\ Uses(q)' = Uses(q)
    BY <2>3, SameSteps
  <2>6. 1 <= Len(L!Steps(p)') /\ Len(L!Steps(p)') \in Nat
    <3>1. CASE p = Core
      <4>1. o \in Ops /\ L!Steps(p)' = L!CoreOps[o]
        BY <2>2, <2>3, <3>1 DEF L!Steps
      <4> QED
        BY SMTT(20), <4>1, StepsAre
    <3>2. CASE p # Core
      BY SMTT(30), <3>2, StepsAre DEF L!Steps
    <3> QED
      BY <3>1, <3>2
  <2>7. LocksTyped'
    BY <2>1, <2>3, <2>4, <2>5, <2>6, <1>3 DEF LocksTyped
  <2>8. Holding'
    BY <2>1, <2>3, <2>5, <1>2 DEF Holding
  <2> QED
    BY <2>7, <2>8
<1>5. ASSUME NEW p \in L!Process, NEW l \in L!Lock, L!AcquireRead(p, l) PROVE Goal
  <2>1. /\ s1[p] # "idle" /\ L!Now(p) = L!Read(l) /\ s4[l] = None
        /\ s3' = [s3 EXCEPT ![l] = @ \cup {p}] /\ L!Advance(p) /\ s4' = s4 /\ s5' = s5 /\ s6' = s6
    BY <1>5 DEF L!AcquireRead, L!Idle
  <2>2. StepIs(p) /\ L!Now(p).do = "read" /\ L!Now(p).lock = l /\ s2[p] \in Nat
    BY <2>1, StepKinds, QuietActs DEF LocksTyped
  <2>3. LocksTyped'
    BY <2>1, <1>3, AdvancedTypes
  <2>4. Uses(p) /\ s2[p] \in 1 .. 5 => p \in s3'["dek"] /\ (s2[p] >= 2 => s6')
    BY <2>1, <2>2, <1>2, <1>3, QuietActs DEF StepIs, Holding
  <2>5. /\ ~(p = Core /\ s1[p] = "unlock" /\ s2[p] = 2)
        /\ ~(p = Core /\ s1[p] = "lock" /\ s2[p] = 1)
    BY <2>2, <1>2, QuietActs DEF StepIs
  <2>6. \A q \in L!Process \ {p} : q \in s3["dek"] => q \in s3'["dek"]
    BY <2>1, <1>2, <1>3
  <2> QED
    BY <2>1, <2>3, <2>4, <2>5, <2>6, AdvancedHolding
<1>6. ASSUME NEW p \in L!Process, NEW l \in L!Lock, L!AskToWrite(p, l) PROVE Goal
  <2>1. s1' = s1 /\ s2' = s2 /\ s3' = s3 /\ s4' = s4 /\ s5' = [s5 EXCEPT ![l] = @ \cup {p}] /\ s6' = s6
    BY <1>6 DEF L!AskToWrite
  <2>2. \A q \in L!Process : L!Steps(q)' = L!Steps(q) /\ Uses(q)' = Uses(q)
    BY <2>1, SameSteps
  <2>3. s5' \in [L!Lock -> SUBSET L!Process]
    BY <2>1, <1>3
  <2> QED
    BY <2>1, <2>2, <2>3 DEF LocksTyped, Holding
<1>7. ASSUME NEW p \in L!Process, NEW l \in L!Lock, L!AcquireWrite(p, l) PROVE Goal
  <2>1. /\ s1[p] # "idle" /\ L!Now(p) = L!Write(l) /\ s3[l] = {} /\ s4[l] = None
        /\ s5' = [s5 EXCEPT ![l] = @ \ {p}] /\ s4' = [s4 EXCEPT ![l] = p]
        /\ L!Advance(p) /\ s3' = s3 /\ s6' = s6
    BY <1>7 DEF L!AcquireWrite, L!Idle
  <2>2. StepIs(p) /\ L!Now(p).do = "write" /\ L!Now(p).lock = l /\ s2[p] \in Nat
    BY <2>1, StepKinds, QuietActs DEF LocksTyped
  <2>3. LocksTyped'
    BY <2>1, <1>3, AdvancedTypes
  <2>4. ~(Uses(p) /\ s2[p] \in 1 .. 5)
    BY <2>2, <1>2, QuietActs DEF StepIs, L!Lock
  <2>5. (p = Core /\ s1[p] = "unlock" /\ s2[p] = 2) \/ (p = Core /\ s1[p] = "lock" /\ s2[p] = 1)
            => s4'["dek"] = p
    BY <2>1, <2>2, <1>2, <1>3, QuietActs DEF StepIs
  <2>6. \A q \in L!Process \ {p} : s4["dek"] = q => s4'["dek"] = q
    BY <2>1, <1>2, <1>3
  <2> QED
    BY <2>1, <2>3, <2>4, <2>5, <2>6, AdvancedHolding
<1>8. ASSUME NEW p \in L!Process, NEW l \in L!Lock, L!Release(p, l) PROVE Goal
  <2>1. /\ s1[p] # "idle" /\ L!Now(p) = L!Drop(l)
        /\ s3' = [s3 EXCEPT ![l] = @ \ {p}] /\ s4' = [s4 EXCEPT ![l] = IF @ = p THEN None ELSE @]
        /\ L!Advance(p) /\ s5' = s5 /\ s6' = s6
    BY <1>8 DEF L!Release, L!Idle
  <2>2. StepIs(p) /\ L!Now(p).do = "drop" /\ L!Now(p).lock = l /\ s2[p] \in Nat
    BY <2>1, StepKinds, QuietActs DEF LocksTyped
  <2>3. LocksTyped'
    BY <2>1, <1>3, AdvancedTypes
  <2>4. Uses(p) /\ s2[p] \in 1 .. 5 => s2[p] = 5 /\ l = "doc"
    BY <2>2, <1>2, QuietActs DEF StepIs, L!Lock
  <2>5. Uses(p) /\ s2[p] \in 1 .. 5 => p \in s3'["dek"] /\ (s2[p] >= 2 => s6')
    BY <2>1, <2>4, <1>2, <1>3 DEF Holding
  <2>6. /\ ~(p = Core /\ s1[p] = "unlock" /\ s2[p] = 2)
        /\ ~(p = Core /\ s1[p] = "lock" /\ s2[p] = 1)
    BY <2>2, <1>2, QuietActs DEF StepIs
  <2>7. \A q \in L!Process \ {p} : /\ q \in s3["dek"] => q \in s3'["dek"]
                                   /\ s4["dek"] = q => s4'["dek"] = q
    BY <2>1, <1>2, <1>3
  <2> QED
    BY <2>1, <2>3, <2>5, <2>6, <2>7, AdvancedHolding
<1>9. ASSUME NEW p \in L!Process, L!Need(p), s6 PROVE Goal
  <2>1. /\ s1[p] # "idle" /\ L!Now(p) = L!Do("need") /\ L!Advance(p)
        /\ s3' = s3 /\ s4' = s4 /\ s5' = s5 /\ s6' = s6
    BY <1>9 DEF L!Need, L!Idle
  <2>2. StepIs(p) /\ L!Now(p).do = "need" /\ s2[p] \in Nat
    BY <2>1, StepKinds, QuietActs DEF LocksTyped
  <2>3. LocksTyped'
    BY <2>1, <1>3, AdvancedTypes
  <2>4. Uses(p) /\ s2[p] \in 1 .. 5 => p \in s3'["dek"] /\ (s2[p] >= 2 => s6')
    BY <2>1, <2>2, <1>2, <1>9, QuietActs DEF StepIs, Holding
  <2>5. /\ ~(p = Core /\ s1[p] = "unlock" /\ s2[p] = 2)
        /\ ~(p = Core /\ s1[p] = "lock" /\ s2[p] = 1)
    BY <2>2, <1>2, QuietActs DEF StepIs
  <2> QED
    BY <2>1, <2>3, <2>4, <2>5, AdvancedHolding
<1>10. ASSUME NEW p \in L!Process, L!Need(p), ~s6 PROVE Goal
  <2>1. /\ s1[p] # "idle" /\ s3' = [l \in L!Lock |-> s3[l] \ {p}]
        /\ s1' = [s1 EXCEPT ![p] = "idle"] /\ s2' = [s2 EXCEPT ![p] = 1]
        /\ s4' = s4 /\ s5' = s5 /\ s6' = s6
    BY <1>10 DEF L!Need, L!Idle
  <2>2. /\ s1' \in [L!Process -> Ops \cup {"with_key", "idle"}] /\ s2' \in [L!Process -> Nat]
        /\ \A q \in L!Process \ {p} : s1'[q] = s1[q] /\ s2'[q] = s2[q]
        /\ s1'[p] = "idle"
    BY <2>1 DEF LocksTyped
  <2>3. \A q \in L!Process \ {p} : L!Steps(q)' = L!Steps(q) /\ Uses(q)' = Uses(q)
    BY <2>2, SameSteps
  <2>4. /\ s3' \in [L!Lock -> SUBSET L!Process] /\ \A l \in L!Lock : s4'[l] # None => s3'[l] = {}
        /\ \A q \in L!Process \ {p} : q \in s3["dek"] => q \in s3'["dek"]
    BY <2>1, <1>2, <1>3
  <2>5. s1'[Core] # "with_key" /\ \A w \in Workers : s1'[w] \in {"with_key", "idle"}
    BY <2>2, <1>2 DEF LocksTyped
  <2>6. LocksTyped'
    BY <2>1, <2>2, <2>3, <2>4, <2>5, <1>3 DEF LocksTyped
  <2>7. Holding'
    BY <2>1, <2>2, <2>3, <2>4, <1>2 DEF Holding
  <2> QED
    BY <2>6, <2>7
<1>11. ASSUME NEW p \in L!Process, L!Use(p) PROVE Goal
  <2>1. /\ s1[p] # "idle" /\ L!Now(p) = L!Do("use") /\ L!Advance(p)
        /\ s3' = s3 /\ s4' = s4 /\ s5' = s5 /\ s6' = s6
    BY <1>11 DEF L!Use, L!Idle
  <2>2. StepIs(p) /\ L!Now(p).do = "use" /\ s2[p] = 4 /\ Uses(p)
    BY <2>1, StepKinds, QuietActs DEF StepIs
  <2>3. LocksTyped'
    BY <2>1, <1>3, AdvancedTypes
  <2> QED
    BY <2>1, <2>2, <2>3, <1>2, AdvancedHolding DEF Holding
<1>12. ASSUME NEW p \in L!Process, L!SetDek(p) PROVE Goal
  <2>1. /\ s1[p] # "idle" /\ L!Now(p).do \in {"set", "clear"} /\ s6' = (L!Now(p).do = "set")
        /\ L!Advance(p) /\ s3' = s3 /\ s4' = s4 /\ s5' = s5
    BY <1>12 DEF L!SetDek, L!Idle
  <2>2. StepIs(p) /\ s2[p] \in Nat
    BY <2>1, StepKinds DEF LocksTyped
  <2>3. LocksTyped'
    BY <2>1, <1>3, AdvancedTypes
  <2>4. ~(Uses(p) /\ s2[p] \in 1 .. 5)
    BY <2>1, <2>2, QuietActs DEF StepIs, L!Lock
  <2>5. /\ ~(p = Core /\ s1[p] = "unlock" /\ s2[p] = 2)
        /\ ~(p = Core /\ s1[p] = "lock" /\ s2[p] = 1)
    BY <2>1, <2>2, <1>2, QuietActs DEF StepIs
  <2>6. s6' \/ s3["dek"] = {}
    <3>1. L!Now(p).do = "clear" => s4["dek"] = Core
      BY <2>1, <2>2 DEF StepIs, Holding
    <3> QED
      BY <3>1, <2>1, <1>2, <1>3
  <2> QED
    BY <2>1, <2>3, <2>4, <2>5, <2>6, AdvancedHolding
<1> QED
  BY <1>1, <1>4, <1>5, <1>6, <1>7, <1>8, <1>9, <1>10, <1>11, <1>12 DEF L!Next, L!Step

\* "The window in which a signing key exists is one operation" (Vault): whatever
\* the core and any number of workers are in the middle of.
LEMMA HoldingIs == ASSUME LocksTyped, Holding PROVE L!KeyOnlyWhileUnlocked
  BY StepKinds, QuietActs DEF L!KeyOnlyWhileUnlocked, Holding, StepIs, L!Idle

-----------------------------------------------------------------------------
(* The databases *)

StoreTyped ==
    /\ s1 \in Builds /\ s2 \in S!At /\ s3 \in Nat
    /\ s4 \in [version : Nat, has : SUBSET S!Steps, rows : SUBSET S!Steps]
    /\ s4.rows \subseteq s4.has \ {Alter}
    /\ s5 \in [broken : BOOLEAN, version : S!Versions, has : SUBSET S!Tables,
               rows : SUBSET (S!Tables \X Builds)]
    /\ \A r \in s5.rows : r[1] \in s5.has /\ r[1] \in S!Wanted(r[2])

\* The steps that were made, and what is known of the versions at each stage.
WalletHas ==
    /\ 1 .. s4.version \subseteq s4.has
    /\ s2 = "wallet" => /\ s3 >= 1 /\ 1 .. (s3 - 1) \subseteq s4.has /\ s3 <= WalletVersion[s1] + 1
                        /\ s4.version <= WalletVersion[s1]
    /\ s2 \in {"cache", "wipe", "create", "open"} => s4.version = WalletVersion[s1]

CacheHas ==
    /\ s2 \in {"wipe", "create", "open"} => ~s5.broken
    /\ s2 = "create" => s5.version <= CacheVersion[s1]
    /\ s2 = "open" => S!Wanted(s1) \subseteq s5.has /\ s5.version = CacheVersion[s1]

\* A build that would not understand a row sees a version above its own.
RowsMarked ==
    \A r \in s5.rows, b \in Builds :
        r[1] \in S!Wanted(b) /\ CacheVersion[r[2]] > CacheVersion[b] => s5.version > CacheVersion[b]

StoreInv == StoreTyped /\ WalletHas /\ CacheHas

\* There is a newest schema.
LEMMA NewestIs == 
    /\ S!Newest \in Nat \ {0} /\ \A b \in Builds : WalletVersion[b] <= S!Newest
    /\ WalletVersion \in [Builds -> Nat \ {0}] /\ CacheVersion \in [Builds -> Nat \ {0}]
    /\ S!Versions \subseteq Nat /\ \A b \in Builds : CacheVersion[b] \in S!Versions
    /\ 0 \in S!Versions
    /\ \A a, b \in Builds : CacheVersion[a] <= CacheVersion[b] => S!Wanted(a) \subseteq S!Wanted(b)
    /\ Alter \in Nat
<1>1. S!StoreOpenAssumption
  BY WalletAssumption
<1>2. \E n \in {WalletVersion[b] : b \in Builds} : \A b \in Builds : WalletVersion[b] <= n
  BY <1>1 DEF S!StoreOpenAssumption
<1>3. /\ S!Newest \in {WalletVersion[b] : b \in Builds}
      /\ \A b \in Builds : WalletVersion[b] <= S!Newest
  BY <1>2 DEF S!Newest
<1> QED
  BY <1>1, <1>3 DEF S!StoreOpenAssumption, S!Versions, S!Wanted

\* At the start there is no database.
LEMMA StoreInit == ASSUME S!Init PROVE StoreInv /\ RowsMarked
<1>1. /\ s1 \in Builds /\ s2 = "down" /\ s3 = 0
      /\ s4 = [version |-> 0, has |-> {}, rows |-> {}]
      /\ s5 = [broken |-> FALSE, version |-> 0, has |-> {}, rows |-> {}]
  BY DEF S!Init, S!NoCache
<1>2. s4 \in [version : Nat, has : SUBSET S!Steps, rows : SUBSET S!Steps]
  BY <1>1
<1>3. s5 \in [broken : BOOLEAN, version : S!Versions, has : SUBSET S!Tables,
              rows : SUBSET (S!Tables \X Builds)]
  BY <1>1, NewestIs
<1>4. s5.rows = {} /\ s4.rows = {} /\ s4.version = 0
  BY <1>1
<1> QED
  BY <1>1, <1>2, <1>3, <1>4 DEF StoreInv, StoreTyped, WalletHas, CacheHas, RowsMarked, S!At

\* Every step of opening keeps what was made, and touches no row of the user's.
LEMMA StoreStep ==
    ASSUME StoreInv, [S!Next]_(S!vars)
    PROVE  StoreInv' /\ S!RowsStay /\ S!FutureIsUntouched
<1> DEFINE Goal == StoreInv' /\ S!RowsStay /\ S!FutureIsUntouched
<1>1. /\ s1 \in Builds /\ s2 \in S!At /\ s3 \in Nat
      /\ s4 \in [version : Nat, has : SUBSET S!Steps, rows : SUBSET S!Steps]
      /\ s4.rows \subseteq s4.has \ {Alter}
      /\ s5 \in [broken : BOOLEAN, version : S!Versions, has : SUBSET S!Tables,
                 rows : SUBSET (S!Tables \X Builds)]
      /\ \A r \in s5.rows : r[1] \in s5.has /\ r[1] \in S!Wanted(r[2])
  BY DEF StoreInv, StoreTyped
<1>2. s4.version \in Nat /\ s4.has \subseteq S!Steps /\ s4.rows \subseteq S!Steps
  BY <1>1
<1>3. /\ s5.broken \in BOOLEAN /\ s5.version \in Nat /\ s5.version \in S!Versions
      /\ s5.has \subseteq S!Tables /\ s5.rows \subseteq S!Tables \X Builds
  BY <1>1, NewestIs
<1> HIDE DEF Goal
\* The wallet's database changes; the cache does not.
<1>4. ASSUME NEW v \in Nat, NEW h, NEW w, v >= s4.version, s4.has \subseteq h, h \subseteq S!Steps,
             s4.rows \subseteq w, w \subseteq h \ {Alter},
             s4' = [version |-> v, has |-> h, rows |-> w], s1' \in Builds, s2' \in S!At, s3' \in Nat,
             s5' = s5, WalletHas', CacheHas',
             s4.version > WalletVersion[s1'] /\ s2' # "down" => s4' = s4
      PROVE  Goal
  <2>1. s4' \in [version : Nat, has : SUBSET S!Steps, rows : SUBSET S!Steps]
        /\ s4'.rows = w /\ s4'.has = h
    BY <1>4, <1>2
  <2>2. StoreTyped'
    BY <1>1, <1>4, <2>1 DEF StoreTyped
  <2> QED
    BY <1>4, <2>1, <2>2 DEF Goal, StoreInv, S!RowsStay, S!FutureIsUntouched
\* The cache changes; the wallet's database does not.
<1>5. ASSUME NEW c \in BOOLEAN, NEW v \in S!Versions, NEW h \in SUBSET S!Tables,
             NEW w \in SUBSET (S!Tables \X Builds),
             \A r \in w : r[1] \in h /\ r[1] \in S!Wanted(r[2]),
             s5' = [broken |-> c, version |-> v, has |-> h, rows |-> w],
             s1' = s1, s2' \in S!At, s3' = s3, s4' = s4,
             WalletHas', CacheHas'
      PROVE  Goal
  <2>1. s5' \in [broken : BOOLEAN, version : S!Versions, has : SUBSET S!Tables,
                 rows : SUBSET (S!Tables \X Builds)]
    BY <1>5, Zenon
  <2>2. s5'.rows = w /\ s5'.has = h
    BY <1>5
  <2>3. StoreTyped'
    BY <1>1, <1>5, <2>1, <2>2 DEF StoreTyped
  <2> QED
    BY <1>5, <2>3 DEF Goal, StoreInv, S!RowsStay, S!FutureIsUntouched
<1>6. s4 = [version |-> s4.version, has |-> s4.has, rows |-> s4.rows]
  BY <1>1
<1>7. s5 = [broken |-> s5.broken, version |-> s5.version, has |-> s5.has, rows |-> s5.rows]
  BY <1>1, Zenon
<1>8. CASE UNCHANGED S!vars
  <2>1. s1' = s1 /\ s2' = s2 /\ s3' = s3 /\ s4' = s4 /\ s5' = s5
    BY <1>8 DEF S!vars
  <2> QED
    BY <2>1 DEF Goal, StoreInv, StoreTyped, WalletHas, CacheHas, S!RowsStay, S!FutureIsUntouched
<1>9. ASSUME NEW b \in Builds, S!Start(b) PROVE Goal
  <2>1. /\ s1' = b /\ s4' = s4 /\ s5' = s5
        /\ IF s4.version > WalletVersion[b] THEN s2' = "without" /\ s3' = s3
           ELSE s2' = "wallet" /\ s3' = s4.version + 1
    BY <1>9 DEF S!Start
  <2>2. s2' \in {"without", "wallet"} /\ s2' \in S!At /\ s3' \in Nat
    BY <2>1, <1>1, <1>2 DEF S!At
  <2>3. WalletHas'
    <3>1. 1 .. s4.version \subseteq s4.has
      BY DEF StoreInv, WalletHas
    <3>2. s2' = "wallet" => s3' >= 1 /\ 1 .. (s3' - 1) \subseteq s4.has /\ s3' <= WalletVersion[b] + 1
                            /\ s4.version <= WalletVersion[b]
      BY <2>1, <3>1, <1>2, NewestIs
    <3> QED
      BY <2>1, <2>2, <3>1, <3>2 DEF WalletHas
  <2>4. CacheHas'
    BY <2>2 DEF CacheHas
  <2> QED
    BY <2>1, <2>2, <2>3, <2>4, <1>1, <1>2, <1>4, <1>6
<1>10. ASSUME S!CreateTable \/ (S!AddColumn /\ s3 \notin s4.has) PROVE Goal
  <2>1. /\ s2 = "wallet" /\ s3 <= WalletVersion[s1]
        /\ s4' = [s4 EXCEPT !.has = @ \cup {s3}] /\ s3' = s3 + 1
        /\ s1' = s1 /\ s2' = s2 /\ s5' = s5
    BY <1>10 DEF S!CreateTable, S!AddColumn
  <2>2. /\ s3 >= 1 /\ 1 .. (s3 - 1) \subseteq s4.has /\ s4.version <= WalletVersion[s1]
        /\ 1 .. s4.version \subseteq s4.has
    BY <2>1 DEF StoreInv, WalletHas
  <2>3. s3 \in S!Steps
    BY <2>1, <2>2, <1>1, NewestIs DEF S!Steps
  <2>4. s4' = [version |-> s4.version, has |-> s4.has \cup {s3}, rows |-> s4.rows]
    BY <2>1, <1>6
  <2>5. s4'.version = s4.version /\ s4'.has = s4.has \cup {s3}
    BY <2>4
  <2>6. WalletHas'
    BY <2>1, <2>2, <2>5, <1>1, <1>2, NewestIs DEF WalletHas
  <2>7. CacheHas'
    BY <2>1 DEF CacheHas
  <2> QED
    BY <2>1, <2>2, <2>3, <2>4, <2>6, <2>7, <1>1, <1>2, <1>4, NewestIs
<1>11. ASSUME S!AddColumn, s3 \in s4.has PROVE Goal
  <2>1. s2' = "without" /\ s1' = s1 /\ s3' = s3 /\ s4' = s4 /\ s5' = s5
    BY <1>11 DEF S!AddColumn
  <2>2. WalletHas' /\ CacheHas' /\ s2' \in S!At
    BY <2>1 DEF WalletHas, CacheHas, S!At, StoreInv
  <2> QED
    BY <2>1, <2>2, <1>1, <1>2, <1>4, <1>6
<1>12. ASSUME S!SetVersion PROVE Goal
  <2>1. /\ s2 = "wallet" /\ s3 > WalletVersion[s1] /\ s2' = "cache"
        /\ s4' = [s4 EXCEPT !.version = WalletVersion[s1]]
        /\ s1' = s1 /\ s3' = s3 /\ s5' = s5
    BY <1>12 DEF S!SetVersion
  <2>2. 1 .. (s3 - 1) \subseteq s4.has /\ s4.version <= WalletVersion[s1] /\ WalletVersion[s1] \in Nat
    BY <2>1, <1>1, NewestIs DEF StoreInv, WalletHas
  <2>3. s4' = [version |-> WalletVersion[s1], has |-> s4.has, rows |-> s4.rows]
    BY <2>1, <1>6
  <2>4. s4'.version = WalletVersion[s1] /\ s4'.has = s4.has
    BY <2>3
  <2>5. WalletHas'
    BY <2>1, <2>2, <2>4, <1>1 DEF WalletHas
  <2>6. CacheHas' /\ s2' \in S!At
    BY <2>1 DEF CacheHas, S!At
  <2> QED
    BY <2>1, <2>2, <2>3, <2>5, <2>6, <1>1, <1>2, <1>4
<1>13. ASSUME S!OpenCache PROVE Goal
  <2>1. /\ s2 = "cache" /\ s1' = s1 /\ s3' = s3 /\ s4' = s4
        /\ s5' = IF s5.broken THEN S!NoCache ELSE s5
        /\ s2' = IF ~s5.broken /\ s5.version > CacheVersion[s1] THEN "wipe" ELSE "create"
    BY <1>13 DEF S!OpenCache
  <2>2. s2' \in {"wipe", "create"} /\ s2' \in S!At
    BY <2>1 DEF S!At
  <2>3. WalletHas'
    BY <2>1, <2>2 DEF WalletHas, StoreInv
  <2>4. CASE s5.broken
    <3>1. s5' = [broken |-> FALSE, version |-> 0, has |-> {}, rows |-> {}]
      BY <2>1, <2>4 DEF S!NoCache
    <3>2. s5'.version = 0 /\ ~s5'.broken
      BY <3>1, Zenon
    <3>3. CacheHas'
      BY <2>1, <2>2, <3>2, <1>1, NewestIs DEF CacheHas
    <3>4. PICK c \in BOOLEAN : s5' = [broken |-> c, version |-> 0, has |-> {}, rows |-> {}]
      BY <3>1, Zenon
    <3> QED
      BY <2>1, <2>2, <2>3, <3>3, <3>4, <1>5, NewestIs
  <2>5. CASE ~s5.broken
    <3>1. s5' = s5
      BY <2>1, <2>5
    <3>2. CacheHas'
      BY <2>1, <2>2, <2>5, <3>1, <1>1, <1>3, NewestIs DEF CacheHas
    <3> QED
      BY <2>1, <2>2, <2>3, <3>1, <3>2, <1>1, <1>3, <1>5, <1>7
  <2> QED
    BY <2>4, <2>5
<1>14. ASSUME NEW t \in S!Tables, S!DropTable(t) PROVE Goal
  <2>1. /\ s2 = "wipe" /\ s1' = s1 /\ s2' = s2 /\ s3' = s3 /\ s4' = s4
        /\ s5' = [s5 EXCEPT !.has = @ \ {t}, !.rows = {r \in @ : r[1] # t}]
    BY <1>14 DEF S!DropTable
  <2> DEFINE w == {r \in s5.rows : r[1] # t}
  <2>2. s5' = [broken |-> s5.broken, version |-> s5.version, has |-> s5.has \ {t}, rows |-> w]
    BY <2>1, <1>7
  <2>3. s5'.broken = s5.broken
    BY <2>2
  <2>4. WalletHas' /\ CacheHas' /\ s2' \in S!At
    BY <2>1, <2>3, <1>1 DEF WalletHas, CacheHas, StoreInv
  <2>5. w \in SUBSET (S!Tables \X Builds) /\ \A r \in w : r[1] \in s5.has \ {t} /\ r[1] \in S!Wanted(r[2])
    BY <1>1, <1>3
  <2>6. s1' = s1 /\ s3' = s3 /\ s4' = s4
    BY <2>1
  <2>7. s5.has \ {t} \in SUBSET S!Tables
    BY <1>3
  <2> HIDE DEF w
  <2> QED
    BY <2>2, <2>4, <2>5, <2>6, <2>7, <1>3, <1>5
<1>15. ASSUME S!ForgetVersion PROVE Goal
  <2>1. /\ s2 = "wipe" /\ s1' = s1 /\ s2' = "create" /\ s3' = s3 /\ s4' = s4
        /\ s5' = [s5 EXCEPT !.version = 0]
    BY <1>15 DEF S!ForgetVersion
  <2>2. s5' = [broken |-> s5.broken, version |-> 0, has |-> s5.has, rows |-> s5.rows]
    BY <2>1, <1>7
  <2>3. s5'.broken = s5.broken /\ s5'.version = 0
    BY <2>2
  <2>4. WalletHas' /\ CacheHas' /\ s2' \in S!At
    BY <2>1, <2>3, <1>1, NewestIs DEF WalletHas, CacheHas, StoreInv, S!At
  <2> QED
    BY <2>1, <2>2, <2>4, <1>1, <1>3, <1>5, NewestIs
<1>16. ASSUME NEW t \in S!Tables, S!CreateCacheTable(t) PROVE Goal
  <2>1. /\ s2 = "create" /\ s1' = s1 /\ s2' = s2 /\ s3' = s3 /\ s4' = s4
        /\ s5' = [s5 EXCEPT !.has = @ \cup {t}]
    BY <1>16 DEF S!CreateCacheTable
  <2>2. s5' = [broken |-> s5.broken, version |-> s5.version, has |-> s5.has \cup {t}, rows |-> s5.rows]
    BY <2>1, <1>7
  <2>3. s5'.broken = s5.broken /\ s5'.version = s5.version
    BY <2>2
  <2>4. WalletHas' /\ CacheHas' /\ s2' \in S!At
    BY <2>1, <2>3, <1>1 DEF WalletHas, CacheHas, StoreInv
  <2> QED
    BY <2>1, <2>2, <2>4, <1>1, <1>3, <1>5
<1>17. ASSUME S!CacheReady PROVE Goal
  <2>1. /\ s2 = "create" /\ s1' = s1 /\ s2' = "open" /\ s3' = s3 /\ s4' = s4
        /\ s5' = [s5 EXCEPT !.version = CacheVersion[s1]] /\ S!Wanted(s1) \subseteq s5.has
    BY <1>17 DEF S!CacheReady
  <2>2. s5' = [broken |-> s5.broken, version |-> CacheVersion[s1], has |-> s5.has, rows |-> s5.rows]
    BY <2>1, <1>7
  <2>3. s5'.broken = s5.broken /\ s5'.version = CacheVersion[s1] /\ s5'.has = s5.has
    BY <2>2
  <2>4. WalletHas' /\ CacheHas' /\ s2' \in S!At
    BY <2>1, <2>3, <1>1 DEF WalletHas, CacheHas, StoreInv, S!At
  <2> QED
    BY <2>1, <2>2, <2>4, <1>1, <1>3, <1>5, NewestIs
<1>18. ASSUME NEW n \in S!Steps, S!WriteWallet(n) PROVE Goal
  <2>1. /\ s2 = "open" /\ n \in s4.has \ {Alter} /\ s1' = s1 /\ s2' = s2 /\ s3' = s3 /\ s5' = s5
        /\ s4' = [s4 EXCEPT !.rows = @ \cup {n}]
    BY <1>18 DEF S!WriteWallet
  <2>2. s4' = [version |-> s4.version, has |-> s4.has, rows |-> s4.rows \cup {n}]
    BY <2>1, <1>6
  <2>3. s4'.version = s4.version /\ s4'.has = s4.has
    BY <2>2
  <2>4. WalletHas' /\ CacheHas' /\ s2' \in S!At
    BY <2>1, <2>3, <1>1 DEF WalletHas, CacheHas, StoreInv
  <2>5. ~(s4.version > WalletVersion[s1])
    BY <2>1, <1>1, <1>2, NewestIs DEF WalletHas, StoreInv
  <2> QED
    BY <2>1, <2>2, <2>4, <2>5, <1>1, <1>2, <1>4
<1>19. ASSUME NEW t \in S!Tables, S!WriteCache(t) PROVE Goal
  <2>1. /\ s2 = "open" /\ s1' = s1 /\ s2' = s2 /\ s3' = s3 /\ s4' = s4
        /\ t \in s5.has \cap S!Wanted(s1)
        /\ s5' = [s5 EXCEPT !.rows = {r \in @ : r[1] # t} \cup {<<t, s1>>}]
    BY <1>19 DEF S!WriteCache
  <2> DEFINE w == {r \in s5.rows : r[1] # t} \cup {<<t, s1>>}
  <2>2. s5' = [broken |-> s5.broken, version |-> s5.version, has |-> s5.has, rows |-> w]
    BY <2>1, <1>7
  <2>3. s5'.broken = s5.broken /\ s5'.version = s5.version /\ s5'.has = s5.has
    BY <2>2
  <2>4. WalletHas' /\ CacheHas' /\ s2' \in S!At
    BY <2>1, <2>3, <1>1 DEF WalletHas, CacheHas, StoreInv
  <2>5. w \in SUBSET (S!Tables \X Builds) /\ \A r \in w : r[1] \in s5.has /\ r[1] \in S!Wanted(r[2])
    BY <2>1, <1>1, <1>3
  <2> HIDE DEF w
  <2> QED
    BY <2>1, <2>2, <2>4, <2>5, <1>1, <1>3, <1>5
<1>20. ASSUME S!Die PROVE Goal
  <2>1. s2' = "down" /\ s3' = 0 /\ s1' = s1 /\ s4' = s4 /\ s5' = s5
    BY <1>20 DEF S!Die
  <2>2. WalletHas' /\ CacheHas' /\ s2' \in S!At
    BY <2>1 DEF WalletHas, CacheHas, StoreInv, S!At
  <2> QED
    BY <2>1, <2>2, <1>1, <1>2, <1>4, <1>6
<1>21. ASSUME S!Damage PROVE Goal
  <2>1. s2 = "down" /\ s2' = s2 /\ s3' = s3 /\ s1' = s1 /\ s4' = s4 /\ s5' = [s5 EXCEPT !.broken = TRUE]
    BY <1>21 DEF S!Damage
  <2>2. s5' = [broken |-> TRUE, version |-> s5.version, has |-> s5.has, rows |-> s5.rows]
    BY <2>1, <1>7, Zenon
  <2>3. WalletHas' /\ CacheHas' /\ s2' \in S!At
    BY <2>1, <1>1 DEF WalletHas, CacheHas, StoreInv
  <2>4. PICK c \in BOOLEAN : s5' = [broken |-> c, version |-> s5.version, has |-> s5.has, rows |-> s5.rows]
    BY <2>2, Zenon
  <2>5. s1' = s1 /\ s3' = s3 /\ s4' = s4
    BY <2>1
  <2>6. s5.has \in SUBSET S!Tables /\ s5.rows \in SUBSET (S!Tables \X Builds)
    BY <1>3
  <2> QED
    BY <2>3, <2>4, <2>5, <2>6, <1>1, <1>3, <1>5
<1> QED
  BY <1>8, <1>9, <1>10, <1>11, <1>12, <1>13, <1>14, <1>15, <1>16, <1>17, <1>18, <1>19, <1>20, <1>21
     DEF S!Next, S!Opening, S!AddColumn, Goal

\* And, with no table between, the version tells of the rows.
LEMMA RowsMarkedStep ==
    ASSUME S!NoTableBetween, StoreInv, RowsMarked, [S!Next]_(S!vars)
    PROVE  RowsMarked'
<1>1. /\ s1 \in Builds
      /\ s5 \in [broken : BOOLEAN, version : S!Versions, has : SUBSET S!Tables,
                 rows : SUBSET (S!Tables \X Builds)]
      /\ \A r \in s5.rows : r[1] \in s5.has /\ r[1] \in S!Wanted(r[2])
  BY DEF StoreInv, StoreTyped
<1>2. /\ s5.version \in Nat
      /\ \A r \in s5.rows : r[2] \in Builds
      /\ \A b \in Builds : CacheVersion[b] \in Nat
  BY <1>1, NewestIs
\* No newer row and no older version.
<1>3. ASSUME s5'.rows \subseteq s5.rows, s5'.version \in Nat, s5'.version >= s5.version
      PROVE  RowsMarked'
  BY <1>2, <1>3 DEF RowsMarked
<1>4. ASSUME S!OpenCache \/ S!ForgetVersion \/ S!CacheReady
             \/ (\E t \in S!Tables : S!DropTable(t) \/ S!CreateCacheTable(t) \/ S!WriteCache(t))
             \/ S!Damage
             \/ s5' = s5
      PROVE  RowsMarked'
  <2>1. CASE S!OpenCache
    <3>1. CASE s5.broken
      <4>1. s5' = [broken |-> FALSE, version |-> 0, has |-> {}, rows |-> {}]
        BY <2>1, <3>1 DEF S!OpenCache, S!NoCache
      <4>2. s5'.rows = {}
        BY <4>1
      <4> QED
        BY <4>2 DEF RowsMarked
    <3>2. CASE ~s5.broken
      BY <2>1, <3>2, <1>2, <1>3 DEF S!OpenCache
    <3> QED
      BY <3>1, <3>2
  <2>2. CASE S!ForgetVersion
    <3>1. s5'.rows = s5.rows /\ s5.has \cap S!Wanted(s1) = {}
      BY <2>2, <1>1 DEF S!ForgetVersion
    <3>2. ASSUME NEW r \in s5.rows, NEW b \in Builds, r[1] \in S!Wanted(b),
                 CacheVersion[r[2]] > CacheVersion[b]
          PROVE  FALSE
      <4>1. r[1] \notin S!Wanted(s1) /\ r[1] \in S!Wanted(r[2]) /\ r[2] \in Builds
        BY <3>1, <1>1, <1>2
      <4>2. CacheVersion[s1] < CacheVersion[b]
        BY <4>1, <3>2, <1>1, <1>2, NewestIs
      <4> QED
        BY <4>1, <4>2, <3>2, <1>1, <1>2 DEF S!NoTableBetween
    <3> QED
      BY <3>1, <3>2 DEF RowsMarked
  <2>3. CASE S!CacheReady
    <3>1. s5'.rows = s5.rows /\ s5'.version = CacheVersion[s1] /\ s2 = "create"
      BY <2>3, <1>1 DEF S!CacheReady
    <3> QED
      BY <3>1, <1>1, <1>2, <1>3 DEF StoreInv, CacheHas
  <2>4. ASSUME NEW t \in S!Tables, S!DropTable(t) PROVE RowsMarked'
    <3>1. s5'.rows = {r \in s5.rows : r[1] # t} /\ s5'.version = s5.version
      BY <2>4, <1>1 DEF S!DropTable
    <3> QED
      BY <3>1, <1>2, <1>3
  <2>5. ASSUME NEW t \in S!Tables, S!CreateCacheTable(t) PROVE RowsMarked'
    <3>1. s5'.rows = s5.rows /\ s5'.version = s5.version
      BY <2>5, <1>1 DEF S!CreateCacheTable
    <3> QED
      BY <3>1, <1>2, <1>3
  <2>6. ASSUME NEW t \in S!Tables, S!WriteCache(t) PROVE RowsMarked'
    <3>1. /\ s5'.rows = {r \in s5.rows : r[1] # t} \cup {<<t, s1>>}
          /\ s5'.version = s5.version /\ s2 = "open"
      BY <2>6, <1>1 DEF S!WriteCache
    <3>2. s5.version = CacheVersion[s1]
      BY <3>1 DEF StoreInv, CacheHas
    <3> QED
      BY <3>1, <3>2, <1>2 DEF RowsMarked
  <2>7. CASE S!Damage
    <3>1. s5'.rows = s5.rows /\ s5'.version = s5.version
      BY <2>7, <1>1 DEF S!Damage
    <3> QED
      BY <3>1, <1>2, <1>3
  <2> QED
    BY <1>4, <2>1, <2>2, <2>3, <2>4, <2>5, <2>6, <2>7, <1>2, <1>3
<1>5. ASSUME UNCHANGED S!vars \/ S!CreateTable \/ S!AddColumn \/ S!SetVersion \/ S!Die
             \/ (\E b \in Builds : S!Start(b)) \/ \E n \in S!Steps : S!WriteWallet(n)
      PROVE  s5' = s5
  BY <1>5, Zenon DEF S!vars, S!Start, S!CreateTable, S!AddColumn, S!SetVersion, S!WriteWallet, S!Die
<1>6. CASE UNCHANGED S!vars
  BY <1>4, <1>5, <1>6
<1>7. CASE S!Next
  <2>1. CASE S!Opening
    BY <2>1, <1>4, <1>5, Zenon DEF S!Opening
  <2>2. CASE \E t \in S!Tables : S!WriteCache(t)
    BY <2>2, <1>4
  <2> QED
    BY <2>1, <2>2, <1>7, <1>4, <1>5, Zenon DEF S!Next
<1> QED
  BY <1>6, <1>7

\* What the invariants say of the two databases.
LEMMA StoreIs ==
    /\ StoreInv => S!SchemaIsThere
    /\ StoreInv /\ RowsMarked => S!CacheIsUnderstood
<1>1. ASSUME StoreInv PROVE S!SchemaIsThere
  BY <1>1 DEF StoreInv, WalletHas, CacheHas, S!SchemaIsThere
<1>2. ASSUME StoreInv, RowsMarked PROVE S!CacheIsUnderstood
  <2>1. ASSUME s2 = "open", NEW r \in s5.rows, r[1] \in S!Wanted(s1)
        PROVE  CacheVersion[r[2]] <= CacheVersion[s1]
    <3>1. s1 \in Builds /\ r[2] \in Builds /\ s5.version = CacheVersion[s1]
      BY <1>2, <2>1 DEF StoreInv, StoreTyped, CacheHas
    <3>2. CacheVersion[r[2]] \in Nat /\ CacheVersion[s1] \in Nat
      BY <3>1, NewestIs
    <3> QED
      BY <1>2, <2>1, <3>1, <3>2 DEF RowsMarked
  <2> QED
    BY <2>1 DEF S!CacheIsUnderstood
<1> QED
  BY <1>1, <1>2

StoreBounds == s3 \in 0 .. S!Newest + 1 /\ s4.version \in 0 .. S!Newest /\ s6 \in 0 .. MaxStarts

\* The bounds on steps, versions and starts are kept.
LEMMA StoreBoundsStep ==
    ASSUME StoreInv, StoreBounds, [S!Next]_(S!vars)
    PROVE  StoreBounds'
<1>1. /\ S!Newest \in Nat /\ \A b \in Builds : WalletVersion[b] <= S!Newest /\ WalletVersion[b] \in Nat
      /\ MaxStarts \in Nat
  BY NewestIs, WalletAssumption DEF S!StoreOpenAssumption
<1>2. /\ s1 \in Builds /\ s4 \in [version : Nat, has : SUBSET S!Steps, rows : SUBSET S!Steps]
      /\ s4.version \in 0 .. S!Newest /\ s3 \in 0 .. S!Newest + 1 /\ s6 \in 0 .. MaxStarts
  BY DEF StoreInv, StoreTyped, StoreBounds
<1>3. s4'.version = s4.version \/ s4'.version = WalletVersion[s1]
  <2>1. S!CreateTable \/ S!AddColumn => s4'.version = s4.version
    BY <1>2 DEF S!CreateTable, S!AddColumn
  <2>2. S!SetVersion => s4'.version = WalletVersion[s1]
    BY <1>2 DEF S!SetVersion
  <2>3. (\E n \in S!Steps : S!WriteWallet(n)) => s4'.version = s4.version
    BY <1>2 DEF S!WriteWallet
  <2> QED
    BY <2>1, <2>2, <2>3 DEF S!Next, S!Opening, S!vars, S!Start, S!OpenCache, S!ForgetVersion, S!CacheReady,
       S!DropTable, S!CreateCacheTable, S!WriteCache, S!Die, S!Damage
<1>4. s3' \in 0 .. S!Newest + 1
  <2>1. s3' = s3 \/ s3' = 0 \/ s3' = s4.version + 1 \/ (s3' = s3 + 1 /\ s3 <= WalletVersion[s1])
    BY DEF S!Next, S!Opening, S!vars, S!Start, S!OpenCache, S!ForgetVersion, S!CacheReady,
       S!DropTable, S!CreateCacheTable, S!WriteCache, S!Die, S!Damage, S!CreateTable, S!AddColumn, S!SetVersion,
       S!WriteWallet
  <2> QED
    BY <2>1, <1>1, <1>2
<1>5. s6' \in 0 .. MaxStarts
  <2>1. s6' = s6 \/ (s6' = s6 + 1 /\ s6 < MaxStarts)
    BY DEF S!Next, S!Opening, S!vars, S!Start, S!OpenCache, S!ForgetVersion, S!CacheReady,
       S!DropTable, S!CreateCacheTable, S!WriteCache, S!Die, S!Damage, S!CreateTable, S!AddColumn, S!SetVersion,
       S!WriteWallet
  <2> QED
    BY <2>1, <1>1, <1>2
<1> QED
  BY <1>1, <1>2, <1>3, <1>4, <1>5 DEF StoreBounds

\* With the bounds, the types.
LEMMA StoreTypes == ASSUME StoreInv, StoreBounds PROVE S!TypeOK
<1>1. s4 \in [version : 0 .. S!Newest, has : SUBSET S!Steps, rows : SUBSET S!Steps]
  BY DEF StoreInv, StoreTyped, StoreBounds
<1> QED
  BY <1>1 DEF StoreInv, StoreTyped, StoreBounds, S!TypeOK

-----------------------------------------------------------------------------
(* The proving parameters *)

File == [len : Nat, good : BOOLEAN]

\* What lies under a name of the wallet's own is whole, and no file is too long.
FilesWhole ==
    /\ s1 \in [1 .. Places -> [P!File -> File]] /\ s2 \in [P!File -> File]
    /\ \A d \in 1 .. Places, f \in P!File : s1[d][f].len <= Size[f]
    /\ \A f \in P!File : s2[f].len <= Size[f]
    /\ P!WholeUnderItsName

\* A transfer is as far as it says, and the second file comes after the first.
AsFar ==
    /\ s4 \in Nat /\ s2[s3].len = s4 /\ s5 = P!Before(s3) + s4
    /\ s3 = "spend" => P!IsSized(s1, P!Own, "output")

Found(fs) == \E d \in 1 .. Places : \A f \in P!File : P!IsSized(fs, d, f)

\* No call has ended while one is under way, and one that went through found all.
CallsEnd ==
    /\ s3 # "" => s3 \in P!File /\ s6 = "" /\ AsFar
    /\ s6 \in {"", "loaded", "not the ceremony's", "missing", "failed"}
    /\ s6 = "loaded" => Found(s1)

ParamsInv == FilesWhole /\ CallsEnd /\ s5 \in 0 .. P!Total

\* The sizes are numbers and so is their sum.
LEMMA SizesAre ==
    /\ Places \in Nat /\ Places >= 1 /\ P!Own \in 1 .. Places
    /\ "output" \in P!File /\ "spend" \in P!File /\ \A f \in P!File : f = "output" \/ f = "spend"
    /\ \A f \in P!File : Size[f] \in Nat /\ Size[f] >= 1
    /\ P!Total \in Nat /\ P!Total = Size["output"] + Size["spend"]
    /\ P!Before("output") = 0 /\ P!Before("spend") = Size["output"]
<1>1. Places \in Nat \ {0} /\ \A f \in P!File : Size[f] \in Nat \ {0}
  BY WalletAssumption DEF P!ParamsAssumption
<1>2. "output" \in P!File /\ "spend" \in P!File /\ \A f \in P!File : f = "output" \/ f = "spend"
  BY DEF P!File
<1>3. \A f \in P!File : Size[f] \in Nat /\ Size[f] >= 1
  BY <1>1
<1> QED
  BY <1>1, <1>2, <1>3 DEF P!Own, P!Total, P!Before

\* The smaller of two numbers has the smaller interval below it, and no set of finite
\* sets goes down for ever.
LEMMA LeastOf ==
    ASSUME NEW H \in SUBSET Nat, H # {}
    PROVE  \E x \in H : \A y \in H : x <= y
<1> DEFINE T == {0 .. n : n \in H}
<1>1. T \subseteq FiniteSubsetsOf(Nat) /\ T # {}
  <2>1. \A n \in H : 0 .. n \in SUBSET Nat /\ IsFiniteSet(0 .. n)
    BY FS_Interval
  <2> QED
    BY <2>1 DEF FiniteSubsetsOf
<1>2. PICK X \in T : \A Y \in T : ~ (<<Y, X>> \in StrictSubsetOrdering(Nat))
  BY <1>1, FS_StrictSubsetOrderingWellFounded, WFMin, Zenon
<1>3. PICK x \in H : X = 0 .. x
  OBVIOUS
<1>4. ASSUME NEW y \in H, y < x PROVE FALSE
  <2>1. 0 .. y \subseteq 0 .. x /\ 0 .. y # 0 .. x /\ 0 .. y \in T
    <3>1. x \in 0 .. x /\ x \notin 0 .. y /\ x \in Nat /\ y \in Nat
      BY <1>4
    <3> QED
      BY <3>1, <1>4
  <2>2. 0 .. y \in SUBSET Nat /\ 0 .. x \in SUBSET Nat
    BY <1>4
  <2>3. <<0 .. y, 0 .. x>> \in StrictSubsetOrdering(Nat)
    BY <2>1, <2>2, Zenon DEF StrictSubsetOrdering
  <2> QED
    BY <2>1, <2>3, <1>2, <1>3, Zenon
<1> QED
  BY <1>4

\* Where a file starts in the whole download, and where it ends.
LEMMA BeforeIs ==
    ASSUME NEW f \in P!File
    PROVE  P!Before(f) \in Nat /\ P!Before(f) + Size[f] <= P!Total
<1>1. f = "output" \/ f = "spend"
  BY SizesAre
<1>2. CASE f = "output"
  <2>1. P!Before(f) = 0
    BY <1>2, SizesAre
  <2>2. Size[f] = Size["output"]
    BY <1>2
  <2> QED
    BY <2>1, <2>2, SizesAre
<1>3. CASE f = "spend"
  <2>1. P!Before(f) = Size["output"]
    BY <1>3, SizesAre
  <2>2. Size[f] = Size["spend"]
    BY <1>3
  <2> QED
    BY <2>1, <2>2, SizesAre
<1> QED
  BY <1>1, <1>2, <1>3

\* Parameters that are found stay found when a file comes to be whole.
LEMMA FoundIs ==
    ASSUME NEW fs
    PROVE  Found(fs) <=> P!FindIn(fs) # 0
<1> DEFINE H == P!Holders(fs)
<1>1. H \subseteq Nat /\ 0 \notin H
  BY SizesAre DEF P!Holders
<1>2. ASSUME H # {} PROVE P!FindIn(fs) \in H
  <2>2. PICK x \in H : \A y \in H : x <= y
    BY <1>1, <1>2, LeastOf
  <2>3. P!FindIn(fs) = CHOOSE m \in H : \A y \in H : m <= y
    BY <1>2 DEF P!FindIn, P!Min
  <2> QED
    BY <2>2, <2>3
<1>3. H = {} => P!FindIn(fs) = 0
  BY DEF P!FindIn
<1> QED
  BY <1>1, <1>2, <1>3 DEF P!Holders, Found

\* A file that is not there is a file of no length.
LEMMA MissingIs == P!Missing \in File /\ P!Missing.len = 0
<1>1. PICK g \in BOOLEAN : P!Missing = [len |-> 0, good |-> g]
  BY Zenon DEF P!Missing
<1> QED
  BY <1>1 DEF File

\* At the start nothing of the wallet's own is there.
LEMMA ParamsInit == ASSUME P!Init PROVE ParamsInv
<1>1. /\ s1 \in [1 .. Places -> [P!File -> UNION {P!Left(f) : f \in P!File}]]
      /\ \A d \in 1 .. Places, f \in P!File : s1[d][f] \in P!Left(f)
      /\ s1[P!Own] = [f \in P!File |-> P!Missing]
  BY DEF P!Init
<1>0. s2 = [f \in P!File |-> P!Missing] /\ s3 = "" /\ s4 = 0 /\ s5 = 0 /\ s6 = ""
  BY DEF P!Init
<1>2. \A f \in P!File : P!Left(f) \subseteq File /\ \A x \in P!Left(f) : x.len <= Size[f]
  <2>1. ASSUME NEW f \in P!File, NEW x \in P!Left(f) PROVE x \in File /\ x.len <= Size[f]
    <3>1. x = P!Missing \/ x = [len |-> 1, good |-> FALSE] \/ x \in [len : {Size[f]}, good : BOOLEAN]
      BY DEF P!Left
    <3>2. CASE x \in [len : {Size[f]}, good : BOOLEAN]
      BY <3>2, SizesAre DEF File
    <3>3. ASSUME NEW g \in BOOLEAN, NEW n \in {0, 1}, x = [len |-> n, good |-> g]
          PROVE  x \in File /\ x.len <= Size[f]
      BY <3>3, SizesAre DEF File
    <3>4. CASE x = P!Missing
      <4>1. \E g \in BOOLEAN : x = [len |-> 0, good |-> g]
        BY <3>4, Zenon DEF P!Missing
      <4> QED
        BY <4>1, <3>3
    <3>5. CASE x = [len |-> 1, good |-> FALSE]
      <4>1. \E g \in BOOLEAN : x = [len |-> 1, good |-> g]
        BY <3>5, Zenon
      <4> QED
        BY <4>1, <3>3
    <3> QED
      BY <3>1, <3>2, <3>4, <3>5
  <2> QED
    BY <2>1
<1>3. P!Missing \in File /\ P!Missing.len = 0
  BY MissingIs
<1>4. s1 \in [1 .. Places -> [P!File -> File]]
  <2>1. (UNION {P!Left(f) : f \in P!File}) \subseteq File
    BY <1>2
  <2>2. \A d \in 1 .. Places : s1[d] \in [P!File -> File]
    BY <1>1, <1>2
  <2> QED
    BY <1>1, <2>2
<1>5. s2 \in [P!File -> File] /\ \A f \in P!File : s2[f].len <= Size[f]
  <2>1. s2 = [f \in P!File |-> P!Missing]
    BY <1>0
  <2> QED
    BY <2>1, <1>3, SizesAre
<1>6. P!WholeUnderItsName
  BY <1>1 DEF P!WholeUnderItsName
<1>7. \A d \in 1 .. Places, f \in P!File : s1[d][f].len <= Size[f]
  BY <1>1, <1>2
<1>8. s5 \in 0 .. P!Total
  <2>1. s5 = 0
    BY <1>0
  <2> QED
    BY <2>1, SizesAre
<1> QED
  <2>1. CallsEnd
    BY <1>0 DEF CallsEnd
  <2> QED
    BY <2>1, <1>4, <1>5, <1>6, <1>7, <1>8 DEF ParamsInv, FilesWhole

\* How a download begins: nothing is written yet, or the call has failed.
LEMMA DownloadIs ==
    ASSUME NEW f \in P!File, NEW ts \in [P!File -> File], \A g \in P!File : ts[g].len <= Size[g],
           P!Download(f, ts)
    PROVE  /\ s2' \in [P!File -> File] /\ \A g \in P!File : s2'[g].len <= Size[g]
           /\ \/ s3' = f /\ s4' = 0 /\ s6' = "" /\ s2'[f].len = 0
              \/ s3' = "" /\ s6' = "failed"
<1>1. CASE /\ s3' = f /\ s4' = 0 /\ s6' = ""
           /\ \E good \in BOOLEAN : s2' = [ts EXCEPT ![f] = [len |-> 0, good |-> good]]
  <2>1. PICK good \in BOOLEAN : s2' = [ts EXCEPT ![f] = [len |-> 0, good |-> good]]
    BY <1>1
  <2> DEFINE x == [len |-> 0, good |-> good]
  <2>2. x \in File /\ x.len = 0
    BY DEF File
  <2>3. s2' = [ts EXCEPT ![f] = x]
    BY <2>1
  <2> HIDE DEF x
  <2>4. s2' \in [P!File -> File] /\ s2'[f] = x /\ \A g \in P!File \ {f} : s2'[g] = ts[g]
    BY <2>2, <2>3
  <2>5. \A g \in P!File : s2'[g].len <= Size[g]
    BY <2>2, <2>4, SizesAre
  <2> QED
    BY <1>1, <2>2, <2>4, <2>5
<1>2. CASE P!End("failed") /\ s2' = ts
  BY <1>2 DEF P!End
<1> QED
  BY <1>1, <1>2 DEF P!Download

\* The progress told is between what it was and the total.
LEMMA ProgressIs ==
    ASSUME ParamsInv, s3 # ""
    PROVE  /\ s3 \in P!File /\ P!Before(s3) \in Nat /\ P!Before(s3) + Size[s3] <= P!Total
           /\ s4 \in Nat /\ s2[s3].len = s4 /\ s5 = P!Before(s3) + s4
           /\ s3 = "spend" => P!IsSized(s1, P!Own, "output")
<1>1. s3 \in P!File /\ AsFar
  BY DEF ParamsInv, CallsEnd
<1>3. s3 \in P!File
  BY <1>1
<1>2. P!Before(s3) \in Nat /\ P!Before(s3) + Size[s3] <= P!Total
  BY <1>3, BeforeIs
<1> QED
  BY <1>1, <1>2 DEF AsFar

\* Wherever a download ends, what is under a name is whole; progress goes on.
LEMMA ParamsStep ==
    ASSUME ParamsInv, [P!Next]_(P!vars)
    PROVE  ParamsInv' /\ P!ProgressGrows
<1> DEFINE Goal == ParamsInv' /\ P!ProgressGrows
<1>1. /\ s1 \in [1 .. Places -> [P!File -> File]] /\ s2 \in [P!File -> File]
      /\ \A d \in 1 .. Places, f \in P!File : s1[d][f].len <= Size[f]
      /\ \A f \in P!File : s2[f].len <= Size[f]
      /\ P!WholeUnderItsName
  BY DEF ParamsInv, FilesWhole
<1>2. s5 \in 0 .. P!Total
  BY DEF ParamsInv
<1>3. \A f \in P!File : s2[f] \in File /\ s2[f].len \in Nat /\ s2[f].len <= Size[f]
  BY <1>1 DEF File
<1>4. s5 \in Nat /\ s5 >= s5
  BY <1>2, SizesAre
\* A call ends, or another step tells no less than the one before.
<1>5. ASSUME FilesWhole', s5' \in 0 .. P!Total, s3' = "", s6' \in {"", "missing", "failed"}
      PROVE  Goal
  <2>1. CallsEnd'
    BY <1>5 DEF CallsEnd
  <2> QED
    BY <1>5, <2>1 DEF ParamsInv, P!ProgressGrows
<1>6. ASSUME FilesWhole', s5' \in 0 .. P!Total, s3' = "", Found(s1'), s3 # "" => s5' = P!Total,
             s6' \in {"loaded", "not the ceremony's"}
      PROVE  Goal
  <2>1. CallsEnd'
    BY <1>6 DEF CallsEnd, Found
  <2> QED
    BY <1>6, <2>1 DEF ParamsInv, P!ProgressGrows
<1>7. ASSUME FilesWhole', s5' \in 0 .. P!Total, s3' \in P!File, s6' = "", AsFar',
             s3 = "" \/ s5' >= s5
      PROVE  Goal
  <2>1. CallsEnd'
    BY <1>7 DEF CallsEnd
  <2> QED
    BY <1>7, <2>1 DEF ParamsInv, P!ProgressGrows
\* A call that begins to download, or fails to.
<1>8. ASSUME NEW f \in P!File, NEW fs, NEW ts, P!Download(f, ts), s1' = fs,
             fs \in [1 .. Places -> [P!File -> File]], ts \in [P!File -> File],
             \A d \in 1 .. Places, g \in P!File : fs[d][g].len <= Size[g],
             \A g \in P!File : ts[g].len <= Size[g],
             \A g \in P!File : fs[P!Own][g] = P!Missing \/ P!IsSized(fs, P!Own, g),
             s5' = P!Before(f), s3 = "" \/ s5' >= s5, f = "spend" => P!IsSized(fs, P!Own, "output")
      PROVE  Goal
  <2>1. /\ s2' \in [P!File -> File] /\ \A g \in P!File : s2'[g].len <= Size[g]
        /\ \/ s3' = f /\ s4' = 0 /\ s6' = "" /\ s2'[f].len = 0
           \/ s3' = "" /\ s6' = "failed"
    BY <1>8, DownloadIs
  <2>0. s5' = P!Before(f)
    BY <1>8
  <2>2. P!Before(f) \in Nat /\ P!Before(f) <= P!Total /\ P!Total \in Nat
    <3>1. P!Before(f) \in Nat /\ P!Before(f) + Size[f] <= P!Total /\ Size[f] \in Nat
      BY BeforeIs, SizesAre
    <3>2. P!Total \in Nat
      BY SizesAre
    <3> QED
      BY <3>1, <3>2
  <2>3. FilesWhole'
    BY <1>8, <2>1 DEF FilesWhole, P!WholeUnderItsName, P!IsSized
  <2>4. s5' \in 0 .. P!Total
    BY <2>0, <2>2
  <2>5. CASE s3' = f /\ s4' = 0 /\ s6' = "" /\ s2'[f].len = 0
    <3>1. s5' = P!Before(s3') + s4'
      <4>1. s3' = f
        BY <2>5
      <4>2. s4' = 0
        BY <2>5
      <4>3. P!Before(s3') = P!Before(f)
        BY <4>1, Zenon
      <4> QED
        BY <4>2, <4>3, <2>0, <2>2
    <3>2. AsFar'
      BY <2>5, <3>1, <1>8 DEF AsFar, P!IsSized
    <3> QED
      BY <2>3, <2>4, <2>5, <3>2, <1>7, <1>8
  <2>6. CASE s3' = "" /\ s6' = "failed"
    BY <2>3, <2>4, <2>6, <1>5
  <2> QED
    BY <2>1, <2>5, <2>6
<1>9. CASE UNCHANGED P!vars
  <2>1. s1' = s1 /\ s2' = s2 /\ s3' = s3 /\ s4' = s4 /\ s5' = s5 /\ s6' = s6
    BY <1>9 DEF P!vars
  <2>2. ParamsInv'
    BY <2>1 DEF ParamsInv, FilesWhole, CallsEnd, AsFar, Found, P!IsSized, P!WholeUnderItsName
  <2>3. s3 # "" => s6 = ""
    BY DEF ParamsInv, CallsEnd
  <2>4. s5' >= s5
    BY <2>1, <1>4
  <2>5. P!ProgressGrows
    BY <2>1, <2>3, <2>4 DEF P!ProgressGrows
  <2> QED
    BY <2>2, <2>5
<1>10. ASSUME NEW may \in BOOLEAN, P!Ensure(may) PROVE Goal
  <2>1. CASE P!FindIn(s1) # 0 \/ ~may
    <3>1. /\ s1' = s1 /\ s2' = s2 /\ s3' = s3 /\ s5' = s5 /\ s3 = ""
          /\ s6' = IF P!FindIn(s1) # 0 THEN P!Load(s1, P!FindIn(s1)) ELSE "missing"
      BY <1>10, <2>1 DEF P!Ensure
    <3>2. FilesWhole' /\ s5' \in 0 .. P!Total
      BY <1>1, <1>2, <3>1 DEF FilesWhole, P!IsSized, P!WholeUnderItsName
    <3>3. CASE P!FindIn(s1) # 0
      <4>1. s6' \in {"loaded", "not the ceremony's"} /\ Found(s1') /\ s3' = ""
        BY <3>1, <3>3, FoundIs DEF P!Load
      <4> QED
        BY <3>1, <3>2, <4>1, <1>6
    <3>4. CASE P!FindIn(s1) = 0
      BY <3>1, <3>2, <3>4, <1>5
    <3> QED
      BY <3>3, <3>4
  <2>2. CASE ~(P!FindIn(s1) # 0 \/ ~may)
    <3> DEFINE first == IF P!IsSized(s1, P!Own, "output") THEN "spend" ELSE "output"
    <3>1. s3 = "" /\ s1' = s1 /\ s5' = P!Before(first) /\ P!Download(first, s2)
      BY <1>10, <2>2 DEF P!Ensure
    <3>2. first \in P!File /\ (first = "spend" => P!IsSized(s1, P!Own, "output"))
      BY SizesAre
    <3> HIDE DEF first
    <3>3. \A g \in P!File : s1[P!Own][g] = P!Missing \/ P!IsSized(s1, P!Own, g)
      BY <1>1 DEF P!WholeUnderItsName
    <3> QED
      BY <1>1, <1>8, <3>1, <3>2, <3>3
  <2> QED
    BY <2>1, <2>2
<1>11. ASSUME P!Block PROVE Goal
  <2>1. s3 # "" /\ s6' = s6 /\ s3' = s3
    BY <1>11 DEF P!Block
  <2>2. /\ s4 < Size[s3] /\ s4' = s4 + 1 /\ s5' = P!Before(s3) + s4 + 1
        /\ s1' = s1 /\ s2' = [s2 EXCEPT ![s3].len = s4 + 1]
    BY <1>11 DEF P!Block
  <2>3. s3' \in P!File /\ s6' = ""
    BY <2>1 DEF ParamsInv, CallsEnd
  <2>4. /\ s3 \in P!File /\ P!Before(s3) \in Nat /\ P!Before(s3) + Size[s3] <= P!Total
        /\ s4 \in Nat /\ s2[s3].len = s4 /\ s5 = P!Before(s3) + s4
        /\ s3 = "spend" => P!IsSized(s1, P!Own, "output")
    BY <2>1, ProgressIs
  <2> DEFINE x == [s2[s3] EXCEPT !.len = s4 + 1]
  <2>5. x \in File /\ x.len = s4 + 1
    <3>1. s2[s3] \in File /\ s4 + 1 \in Nat
      BY <2>4, <1>3
    <3> QED
      BY <3>1 DEF File
  <2>6. s2' = [s2 EXCEPT ![s3] = x]
    BY <2>2
  <2> HIDE DEF x
  <2>7. s2' \in [P!File -> File] /\ s2'[s3] = x /\ \A g \in P!File \ {s3} : s2'[g] = s2[g]
    BY <2>4, <2>5, <2>6, <1>1
  <2>8. \A g \in P!File : s2'[g].len <= Size[g]
    <3>1. x.len <= Size[s3]
      BY <2>2, <2>4, <2>5, SizesAre
    <3> QED
      BY <3>1, <2>7, <1>3
  <2>9. s5' \in 0 .. P!Total /\ s5' >= s5
    BY <2>2, <2>4, SizesAre
  <2>10. AsFar'
    <3>1. s4' \in Nat /\ s2'[s3].len = s4' /\ s5' = P!Before(s3) + s4'
      BY <2>2, <2>4, <2>5, <2>7
    <3> QED
      BY <3>1, <2>1, <2>2, <2>4 DEF AsFar, P!IsSized
  <2>11. FilesWhole'
    BY <2>2, <2>7, <2>8, <1>1 DEF FilesWhole, P!WholeUnderItsName, P!IsSized
  <2> QED
    BY <2>3, <2>9, <2>10, <2>11, <1>7
<1>12. ASSUME P!Break PROVE Goal
  <2>1. s3 # "" /\ s3' = "" /\ s6' = "failed"
    BY <1>12 DEF P!Break, P!End
  <2>2. s1' = s1 /\ s5' = s5 /\ s2' = [s2 EXCEPT ![s3] = P!Missing]
    BY <1>12 DEF P!Break
  <2>3. s3 \in P!File
    BY <2>1, ProgressIs
  <2>4. s2' \in [P!File -> File] /\ \A g \in P!File : s2'[g].len <= Size[g]
    BY <2>2, <2>3, <1>1, MissingIs, SizesAre
  <2>5. FilesWhole'
    BY <2>2, <2>4, <1>1 DEF FilesWhole, P!WholeUnderItsName, P!IsSized
  <2> QED
    BY <2>1, <2>2, <2>5, <1>2, <1>5
<1>13. ASSUME P!Crash PROVE Goal
  <2>1. s3' = "" /\ s6' = ""
    BY <1>13 DEF P!Crash, P!End
  <2>2. s1' = s1 /\ s5' = 0 /\ s2' = s2
    BY <1>13 DEF P!Crash
  <2>3. FilesWhole' /\ s5' \in 0 .. P!Total
    BY <2>2, <1>1, SizesAre DEF FilesWhole, P!WholeUnderItsName, P!IsSized
  <2> QED
    BY <2>1, <2>3, <1>5
<1>14. ASSUME P!Rename PROVE Goal
  <2> DEFINE fs == [s1 EXCEPT ![P!Own][s3] = s2[s3]]
             ts == [s2 EXCEPT ![s3] = P!Missing]
  <2>1. s3 # "" /\ s4 = Size[s3]
    BY <1>14 DEF P!Rename
  <2>2. /\ s3 \in P!File /\ s2[s3].len = Size[s3] /\ s5 = P!Before(s3) + Size[s3]
        /\ s3 = "spend" => P!IsSized(s1, P!Own, "output")
    BY <2>1, ProgressIs
  <2>3. /\ ts \in [P!File -> File] /\ \A g \in P!File : ts[g].len <= Size[g]
    BY <2>2, <1>1, MissingIs, SizesAre
  <2>4. /\ fs \in [1 .. Places -> [P!File -> File]] /\ fs[P!Own][s3] = s2[s3]
        /\ \A g \in P!File \ {s3} : fs[P!Own][g] = s1[P!Own][g]
        /\ \A d \in 1 .. Places \ {P!Own} : fs[d] = s1[d]
    BY <2>2, <1>1, <1>3, SizesAre
  <2>5. \/ /\ s1' = fs
           /\ IF s3 = "output" /\ ~P!IsSized(fs, P!Own, "spend")
              THEN s5' = s5 /\ P!Download("spend", ts)
              ELSE s5' = P!Total /\ P!End(P!Load(fs, P!Own)) /\ s2' = ts
        \/ P!End("failed") /\ s1' = s1 /\ s2' = s2 /\ s5' = s5
    BY <1>14 DEF P!Rename
  <2> HIDE DEF fs, ts
  <2>6. /\ \A d \in 1 .. Places, g \in P!File : fs[d][g].len <= Size[g]
        /\ \A g \in P!File : fs[P!Own][g] = P!Missing \/ P!IsSized(fs, P!Own, g)
        /\ P!IsSized(fs, P!Own, s3)
        /\ s3 = "spend" => P!IsSized(fs, P!Own, "output")
    <3>1. fs[P!Own][s3].len = Size[s3]
      BY <2>2, <2>4
    <3>2. \A g \in P!File \ {s3} : fs[P!Own][g] = P!Missing \/ fs[P!Own][g].len = Size[g]
      BY <2>4, <1>1 DEF P!WholeUnderItsName, P!IsSized
    <3>3. \A d \in 1 .. Places, g \in P!File : d # P!Own \/ g # s3 => fs[d][g] = s1[d][g]
      BY <2>4
    <3>4. s3 = "spend" => fs[P!Own]["output"].len = Size["output"]
      BY <2>2, <2>4, SizesAre DEF P!IsSized
    <3>5. \A d \in 1 .. Places, g \in P!File : fs[d][g].len <= Size[g]
      BY <3>1, <3>3, <1>1, <2>2, SizesAre
    <3> QED
      BY <3>1, <3>2, <3>4, <3>5 DEF P!IsSized
  <2>7. CASE s3 = "output" /\ s1' = fs /\ s5' = s5 /\ P!Download("spend", ts)
    <3>1. s5' = P!Before("spend") /\ s5' >= s5
      BY <2>2, <2>7, SizesAre
    <3>2. P!IsSized(fs, P!Own, "output") /\ "spend" \in P!File
      BY <2>6, <2>7, SizesAre
    <3> QED
      BY <1>8, <2>3, <2>4, <2>6, <2>7, <3>1, <3>2
  <2>8. CASE /\ s1' = fs /\ ~(s3 = "output" /\ ~P!IsSized(fs, P!Own, "spend"))
             /\ s5' = P!Total /\ P!End(P!Load(fs, P!Own)) /\ s2' = ts
    <3>1. \A g \in P!File : P!IsSized(fs, P!Own, g)
      BY <2>6, <2>8, <2>2, SizesAre
    <3>2. s3' = "" /\ s6' \in {"loaded", "not the ceremony's"}
      BY <2>8 DEF P!End, P!Load
    <3>3. FilesWhole'
      BY <2>3, <2>4, <2>6, <2>8 DEF FilesWhole, P!WholeUnderItsName, P!IsSized
    <3>4. s5' \in 0 .. P!Total
      BY <2>8, SizesAre
    <3>5. Found(s1')
      BY <3>1, <2>8, SizesAre DEF Found
    <3> QED
      BY <2>8, <3>2, <3>3, <3>4, <3>5, <1>6
  <2>9. CASE P!End("failed") /\ s1' = s1 /\ s2' = s2 /\ s5' = s5
    <3>1. s3' = "" /\ s6' = "failed"
      BY <2>9 DEF P!End
    <3>2. FilesWhole'
      BY <2>9, <1>1 DEF FilesWhole, P!WholeUnderItsName, P!IsSized
    <3> QED
      BY <2>9, <3>1, <3>2, <1>2, <1>5
  <2> QED
    BY <2>5, <2>7, <2>8, <2>9
<1> QED
  BY <1>9, <1>10, <1>11, <1>12, <1>13, <1>14 DEF P!Next

\* What the invariant says of the parameter files.
LEMMA ParamsIs == ASSUME ParamsInv PROVE P!WholeUnderItsName /\ P!FoundWhenFetched
  BY FoundIs DEF ParamsInv, FilesWhole, CallsEnd, P!FoundWhenFetched

-----------------------------------------------------------------------------
(* The nodes *)

Node == [status : K!Status, network : {"none", "ours", "another"}, tip : Nat,
         failures : Nat, retry : Nat]

\* What is held of a node at u: its chain and a height it had, as soon as it has
\* told any; it is online only after that, and waits only when it is offline.
Known(n, u) ==
    /\ n \in Node /\ n.tip <= s5[u]
    /\ n.tip = 0 => n.network = "none"
    /\ n.tip > 0 => n.network = K!ChainOf(u)
    /\ n.status = "online" => n.tip > 0 /\ n.network = "ours"
    /\ n.retry > 0 <=> n.status = "offline"
    /\ n.status # "unidentified"

\* A list of endpoints is not empty and names no endpoint twice.
LEMMA NodeListIs ==
    ASSUME NEW b \in NodeLists
    PROVE  /\ DOMAIN b = 1 .. Len(b) /\ Len(b) \in Nat /\ Len(b) > 0 /\ 1 \in DOMAIN b
           /\ \A n \in DOMAIN b : b[n] \in [url : Urls, slash : BOOLEAN] /\ b[n].url \in Urls
           /\ \A m, n \in DOMAIN b : b[m].url = b[n].url => m = n
           /\ 0 \notin Urls
<1>1. b \in Seq([url : Urls, slash : BOOLEAN]) /\ Len(b) > 0 /\ 0 \notin Urls
      /\ \A m, n \in DOMAIN b : b[m].url = b[n].url => m = n
  BY WalletAssumption DEF K!NodesAssumption
<1>2. DOMAIN b = 1 .. Len(b) /\ Len(b) \in Nat /\ 1 \in 1 .. Len(b)
  BY <1>1
<1>3. \A n \in DOMAIN b : b[n] \in [url : Urls, slash : BOOLEAN] /\ b[n].url \in Urls
  <2> DEFINE entry == [url : Urls, slash : BOOLEAN]
  <2>3. b \in Seq(entry)
    BY <1>1
  <2> HIDE DEF entry
  <2>4. \A n \in DOMAIN b : b[n] \in entry
    BY <2>3
  <2>1. \A n \in DOMAIN b : b[n] \in [url : Urls, slash : BOOLEAN]
    BY <2>4 DEF entry
  <2>2. \A x \in [url : Urls, slash : BOOLEAN] : x.url \in Urls
    OBVIOUS
  <2> QED
    BY <2>1, <2>2, Zenon
<1> QED
  BY <1>1, <1>2, <1>3

\* Seven failures wait as long as any more do.
LEMMA BackoffIs == ASSUME NEW n \in Nat PROVE K!Backoff(n) \in Nat /\ K!Backoff(n) > 0
<1>0. \A x \in K!BASE_MS .. K!CAP_MS : x \in Nat /\ x > 0
  <2>1. K!BASE_MS \in Nat /\ K!BASE_MS > 0 /\ K!CAP_MS \in Nat
    BY DEF K!BASE_MS, K!CAP_MS
  <2> QED
    BY <2>1, SMT
<1>1. \A m \in 0 .. 40 : K!Backoff(m) \in K!BASE_MS .. K!CAP_MS
  <2>1. K!BackoffGrows
    BY WalletAssumption
  <2> QED
    BY <2>1, Zenon DEF K!BackoffGrows
<1>2. CASE n <= 40
  <2>1. n \in 0 .. 40
    BY <1>2
  <2>2. K!Backoff(n) \in K!BASE_MS .. K!CAP_MS
    BY <1>1, <2>1, Zenon
  <2> QED
    BY <1>0, <2>2, Zenon
<1>3. CASE n > 40
  <2>1. K!Shift(n) = 6 /\ K!Shift(7) = 6 /\ n # 0 /\ 7 # 0 /\ 7 \in 0 .. 40
    BY <1>3 DEF K!Shift
  <2>2. K!Backoff(n) = K!Backoff(7)
    BY <2>1, Zenon DEF K!Backoff
  <2>3. K!Backoff(n) \in K!BASE_MS .. K!CAP_MS
    BY <1>1, <2>1, <2>2, Zenon
  <2> QED
    BY <1>0, <2>3, Zenon
<1> QED
  BY <1>2, <1>3

\* What an answer that is one can say.
LEMMA ReplyIs ==
    ASSUME NEW u \in Urls, NEW since \in Nat, NEW r \in K!Replies(u, since), s5 \in [Urls -> Nat]
    PROVE  /\ r.kind \in {"error", "unavailable", "info"}
           /\ r.kind = "info" => /\ r.name = K!ChainOf(u) /\ r.tip \in since .. s5[u]
                                 /\ r.matches
<1>1. CASE r \in K!Reports(u, since)
  <2>1. r.kind = "info" /\ r.name = K!ChainOf(u) /\ r.tip \in since .. s5[u]
    BY <1>1 DEF K!Reports
  <2>2. r.matches \in {TRUE, ~FALSE}
    BY <1>1 DEF K!Reports
  <2>3. r.matches
    BY <2>2, Zenon
  <2> QED
    BY <2>1, <2>3
<1>2. CASE r = [kind |-> "error"] \/ r = [kind |-> "unavailable"]
  BY <1>2
<1> QED
  BY <1>1, <1>2 DEF K!Replies

\* An answer leaves what is known of a node true of it.
LEMMA AfterIs ==
    ASSUME NEW u \in Urls, NEW since \in Nat, since > 0, s5 \in [Urls -> Nat],
           NEW n, Known(n, u), NEW r \in K!Replies(u, since)
    PROVE  /\ Known(K!After(n, r), u)
           /\ r.kind # "info" => /\ K!After(n, r).tip = n.tip /\ K!After(n, r).network = n.network
                                 /\ K!After(n, r).status # "online"
<1>0. n \in Node /\ n.failures \in Nat /\ n.tip \in Nat /\ n.network \in {"none", "ours", "another"}
  BY DEF Known, Node
<1>1. CASE r.kind = "info"
  <2>1. r.name = K!ChainOf(u) /\ r.tip \in since .. s5[u] /\ r.matches
    BY <1>1, ReplyIs
  <2>2. K!After(n, r) = K!AfterSuccess(r)
    BY <1>1 DEF K!After
  <2>3. PICK st \in {"syncing", "wrong_network", "online"} :
           /\ K!AfterSuccess(r) = [status |-> st, network |-> K!ChainOf(u), tip |-> r.tip,
                                   failures |-> 0, retry |-> 0]
           /\ st = "online" => K!ChainOf(u) = "ours"
    BY <2>1 DEF K!AfterSuccess
  <2>4. K!ChainOf(u) \in {"none", "ours", "another"} /\ st \in K!Status /\ r.tip \in Nat /\ r.tip > 0
        /\ r.tip <= s5[u] /\ st # "offline"
    BY <2>1 DEF K!ChainOf, K!Status
  <2> HIDE DEF K!ChainOf
  <2> DEFINE x == K!After(n, r)
  <2>5. x = [status |-> st, network |-> K!ChainOf(u), tip |-> r.tip, failures |-> 0, retry |-> 0]
    BY <2>2, <2>3
  <2> HIDE DEF x
  <2>6. x \in Node /\ x.status = st /\ x.network = K!ChainOf(u) /\ x.tip = r.tip /\ x.retry = 0
    BY <2>4, <2>5 DEF Node
  <2>7. Known(x, u)
    BY <2>3, <2>4, <2>6 DEF Known
  <2> QED
    BY <1>1, <2>7 DEF x
<1>2. CASE r.kind = "unavailable"
  <2> DEFINE x == [n EXCEPT !.status = "method_refused", !.retry = 0]
  <2>1. K!After(n, r) = x
    BY <1>2 DEF K!After, K!AfterFailure
  <2>2. x \in Node /\ x.status = "method_refused" /\ x.network = n.network /\ x.tip = n.tip
        /\ x.retry = 0
    BY <1>0 DEF Node, K!Status
  <2> HIDE DEF x
  <2> QED
    BY <2>1, <2>2, <1>2 DEF Known
<1>3. CASE r.kind \notin {"info", "unavailable"}
  <2> DEFINE f == IF n.failures < FailuresBeforeFailover THEN n.failures + 1 ELSE n.failures
             t == K!Backoff(n.failures + 1)
             x == [n EXCEPT !.failures = f, !.status = "offline", !.retry = t]
  <2>1. K!After(n, r) = x
    BY <1>3 DEF K!After, K!AfterFailure
  <2>2. f \in Nat /\ t \in Nat /\ t > 0
    BY <1>0, BackoffIs
  <2> HIDE DEF f, t
  <2>3. x \in Node /\ x.status = "offline" /\ x.network = n.network /\ x.tip = n.tip /\ x.retry = t
    BY <1>0, <2>2 DEF Node, K!Status
  <2> HIDE DEF x
  <2> QED
    BY <2>1, <2>2, <2>3, <1>3 DEF Known
<1> QED
  BY <1>1, <1>2, <1>3

NodesTyped ==
    /\ s1 \in NodeLists /\ s2 \in [DOMAIN s1 -> Node] /\ s3 \in DOMAIN s1
    /\ s5 \in [Urls -> Nat] /\ \A u \in Urls : s5[u] > 0
    /\ \A n \in DOMAIN s1 : Known(s2[n], s1[n].url)
    /\ \A p \in s6 : p.node \in DOMAIN s1 /\ p.since \in Nat /\ p.since > 0
    /\ s7 \in BOOLEAN /\ s8 \in BOOLEAN

\* What was chosen last is what is remembered.
ChosenIs == s4.url = s11 /\ K!ActiveIsChosen

\* Of the node in use, at its height or later: what is being read, and, when nothing
\* is, what is shown, if there was anything to read and the node is not refused.
ReadOf(rd) == rd.url = s1[s3].url /\ rd.at >= s2[s3].tip
Fresh ==
    /\ s9 # K!NoReading => ReadOf(s9)
    /\ s9 = K!NoReading /\ s8 /\ ~K!Refused(s2[s3]) /\ s2[s3].tip > 0 => ReadOf(s10)

\* At the start no node has told anything.
LEMMA NodesInit == ASSUME K!Init PROVE NodesTyped /\ ChosenIs /\ Fresh
<1>1. s1 \in NodeLists /\ s3 = 1 /\ s4 = K!Nowhere /\ s5 = [u \in Urls |-> 1] /\ s6 = {}
      /\ s2 = [n \in DOMAIN s1 |-> K!Builtin] /\ s7 = FALSE /\ s8 = FALSE
      /\ s9 = K!NoReading /\ s11 = 0
  BY DEF K!Init
<1>2. K!Builtin \in Node /\ K!Builtin.tip = 0 /\ K!Builtin.network = "none"
      /\ K!Builtin.status = "unknown" /\ K!Builtin.retry = 0
  BY DEF K!Builtin, Node, K!Status
<1>3. s5 \in [Urls -> Nat] /\ \A u \in Urls : s5[u] > 0
  BY <1>1
<1>4. \A n \in DOMAIN s1 : s2[n] = K!Builtin /\ s1[n].url \in Urls
  BY <1>1, NodeListIs
<1>5. \A n \in DOMAIN s1 : Known(s2[n], s1[n].url)
  <2>1. \A u \in Urls : Known(K!Builtin, u)
    BY <1>2, <1>3 DEF Known
  <2> QED
    BY <2>1, <1>4
<1>6. s2 \in [DOMAIN s1 -> Node] /\ s3 \in DOMAIN s1
  BY <1>1, <1>2, NodeListIs
<1>7. NodesTyped
  BY <1>1, <1>3, <1>5, <1>6 DEF NodesTyped
<1>8. ChosenIs
  <2>1. s4.url = 0
    BY <1>1 DEF K!Nowhere
  <2>2. \A n \in DOMAIN s1 : s1[n].url # s11
    BY <1>1, <1>4, NodeListIs
  <2> QED
    BY <1>1, <2>1, <2>2 DEF ChosenIs, K!ActiveIsChosen
<1>9. Fresh
  BY <1>1 DEF Fresh
<1> QED
  BY <1>7, <1>8, <1>9

\* A reading begins unless one is under way, the wallet is locked or the node refused.
LEMMA RefreshIs ==
    ASSUME NodesTyped, NEW ns, NEW a \in DOMAIN s1, NEW open \in BOOLEAN, K!Refresh(ns, a, open)
    PROVE  \/ s9' = s9 /\ (s9 # K!NoReading \/ ~open \/ K!Refused(ns[a]))
           \/ s9' # K!NoReading /\ s9'.url = s1[a].url /\ s9'.at = s5[s1[a].url]
<1>1. s1[a].url \in Urls /\ 0 \notin Urls
  BY NodeListIs DEF NodesTyped
<1>2. CASE s9 # K!NoReading \/ ~open \/ K!Refused(ns[a])
  BY <1>2 DEF K!Refresh
<1>3. CASE ~(s9 # K!NoReading \/ ~open \/ K!Refused(ns[a]))
  <2>1. s9' = [url |-> s1[a].url, at |-> s5[s1[a].url]]
    BY <1>3 DEF K!Refresh
  <2>2. s9'.url = s1[a].url /\ s9'.at = s5[s1[a].url]
    BY <2>1
  <2>3. K!NoReading.url = 0
    BY DEF K!NoReading
  <2> QED
    BY <1>1, <2>2, <2>3
<1> QED
  BY <1>2, <1>3

\* Whatever the list has become and whichever node is in use now: a step that ends in
\* that leaves what is fresh.
LEMMA FreshAfter ==
    ASSUME NodesTyped, s9 = K!NoReading, NEW ns, NEW a \in DOMAIN s1,
           ns \in [DOMAIN s1 -> Node], Known(ns[a], s1[a].url), K!Refresh(ns, a, s8),
           s1' = s1, s2' = ns, s3' = a, s8' = s8
    PROVE  Fresh'
<1>1. s1[a].url \in Urls
  BY NodeListIs DEF NodesTyped
<1>2. ns[a].tip <= s5[s1[a].url] /\ ns[a].tip \in Nat /\ s5[s1[a].url] \in Nat
  BY <1>1 DEF Known, NodesTyped, Node
<1>3. \/ s9' = K!NoReading /\ (~s8 \/ K!Refused(ns[a]))
      \/ s9' # K!NoReading /\ s9'.url = s1[a].url /\ s9'.at = s5[s1[a].url]
  BY RefreshIs DEF NodesTyped
<1>4. K!Refused(s2[s3])' <=> K!Refused(ns[a])
  BY DEF K!Refused
<1> QED
  BY <1>2, <1>3, <1>4 DEF Fresh, ReadOf

\* A failover goes to one of the candidates.
LEMMA TargetIs ==
    ASSUME NEW ns, NEW a, NEW len \in Nat, DOMAIN ns = 1 .. len, K!Candidates(ns, a) # {}
    PROVE  K!Target(ns, a) \in K!Candidates(ns, a)
<1>1. K!Candidates(ns, a) \in SUBSET Nat
  BY DEF K!Candidates
<1>2. \E m \in K!Candidates(ns, a) : \A k \in K!Candidates(ns, a) : m <= k
  BY <1>1, LeastOf
<1> QED
  BY <1>2 DEF K!Target

\* A list of nodes that is held of the endpoints, after a step that leaves their heights.
LEMMA ListedIs ==
    ASSUME NodesTyped, NEW ns, ns \in [DOMAIN s1 -> Node],
           \A n \in DOMAIN s1 : Known(ns[n], s1[n].url),
           s1' = s1, s2' = ns, s3' \in DOMAIN s1, s5' = s5, s6' \subseteq s6,
           s7' \in BOOLEAN, s8' \in BOOLEAN
    PROVE  NodesTyped'
<1>1. \A n \in DOMAIN s1 : Known(ns[n], s1[n].url)'
  BY DEF Known
<1>2. \A n \in DOMAIN s1' : Known(s2[n], s1[n].url)'
  BY <1>1 DEF Known
<1> QED
  BY <1>2 DEF NodesTyped

\* Every step keeps the types, the choice, and that what is read is of the node in use.
LEMMA NodesStep ==
    ASSUME NodesTyped, ChosenIs, Fresh, [K!Next]_(K!vars)
    PROVE  NodesTyped' /\ ChosenIs' /\ Fresh' /\ K!FailoverStaysOnChain
<1> DEFINE Goal == NodesTyped' /\ ChosenIs' /\ Fresh' /\ K!FailoverStaysOnChain
<1>1. /\ s1 \in NodeLists /\ s2 \in [DOMAIN s1 -> Node] /\ s3 \in DOMAIN s1
      /\ s5 \in [Urls -> Nat] /\ \A u \in Urls : s5[u] > 0
      /\ \A n \in DOMAIN s1 : Known(s2[n], s1[n].url)
      /\ \A p \in s6 : p.node \in DOMAIN s1 /\ p.since \in Nat /\ p.since > 0
      /\ s7 \in BOOLEAN /\ s8 \in BOOLEAN
  BY DEF NodesTyped
<1>2. /\ \A n \in DOMAIN s1 : s1[n].url \in Urls
      /\ \A m, n \in DOMAIN s1 : s1[m].url = s1[n].url => m = n
      /\ DOMAIN s1 = 1 .. Len(s1) /\ Len(s1) \in Nat /\ DOMAIN s2 = DOMAIN s1
  BY <1>1, NodeListIs
<1> HIDE DEF Goal
\* A step that neither reads nor chooses.
<1>3. ASSUME s1' = s1, s2' = s2, s3' = s3, s4' = s4, s9' = s9, s10' = s10, s11' = s11,
             s7' \in BOOLEAN, s8' \in BOOLEAN, s8' => s8, s5' \in [Urls -> Nat],
             \A u \in Urls : s5'[u] >= s5[u],
             \A p \in s6' : p.node \in DOMAIN s1 /\ p.since \in Nat /\ p.since > 0
      PROVE  Goal
  <2>1. \A u \in Urls : s5'[u] > 0
    BY <1>1, <1>3
  <2>2. \A n \in DOMAIN s1 : Known(s2[n], s1[n].url)'
    <3>1. ASSUME NEW n \in DOMAIN s1 PROVE s2[n].tip <= s5'[s1[n].url]
      <4>1. s2[n].tip <= s5[s1[n].url] /\ s2[n].tip \in Nat /\ s1[n].url \in Urls
        BY <1>1, <1>2 DEF Known, Node
      <4>2. s5'[s1[n].url] >= s5[s1[n].url] /\ s5[s1[n].url] \in Nat /\ s5'[s1[n].url] \in Nat
        BY <1>1, <1>3, <4>1
      <4> QED
        BY <4>1, <4>2
    <3> QED
      BY <1>1, <1>3, <3>1 DEF Known
  <2>3. NodesTyped'
    BY <1>1, <1>3, <2>1, <2>2 DEF NodesTyped
  <2>4. ChosenIs'
    BY <1>3 DEF ChosenIs, K!ActiveIsChosen
  <2>5. K!Refused(s2[s3])' <=> K!Refused(s2[s3])
    BY <1>3 DEF K!Refused
  <2>6. Fresh'
    BY <1>3, <2>5 DEF Fresh, ReadOf
  <2>7. K!FailoverStaysOnChain
    BY <1>3 DEF K!FailoverStaysOnChain
  <2> QED
    BY <2>3, <2>4, <2>6, <2>7 DEF Goal
<1>0. ASSUME s1' = s1, s2' = s2, s3' = s3, s4' = s4, s5' = s5, s9' = s9, s10' = s10, s11' = s11,
             s7' \in {s7, TRUE}, s8' \in {s8, FALSE},
             \A p \in s6' : p.node \in DOMAIN s1 /\ p.since \in Nat /\ p.since > 0
      PROVE  Goal
  <2>1. s5' \in [Urls -> Nat]
    BY <1>0, <1>1
  <2>2. \A u \in Urls : s5'[u] >= s5[u]
    BY <1>0, <1>1
  <2>3. s7' \in BOOLEAN /\ s8' \in BOOLEAN
    <3>1. TRUE \in BOOLEAN /\ FALSE \in BOOLEAN
      OBVIOUS
    <3> QED
      BY <1>0, <1>1, <3>1, Zenon
  <2>4. s8' => s8
    BY <1>0, Zenon
  <2> QED
    BY <1>0, <1>3, <2>1, <2>2, <2>3, <2>4, Zenon
<1>4. CASE UNCHANGED K!vars
  <2>1. /\ s1' = s1 /\ s2' = s2 /\ s3' = s3 /\ s4' = s4 /\ s5' = s5 /\ s6' = s6 /\ s7' = s7
        /\ s8' = s8 /\ s9' = s9 /\ s10' = s10 /\ s11' = s11
    BY <1>4 DEF K!vars
  <2>2. \A p \in s6' : p.node \in DOMAIN s1 /\ p.since \in Nat /\ p.since > 0
    BY <1>1, <2>1
  <2>3. s7' \in {s7, TRUE} /\ s8' \in {s8, FALSE}
    BY <2>1, Zenon
  <2>4. Goal
    BY <1>0, <2>1, <2>2, <2>3, Zenon
  <2> QED
    BY <2>4 DEF Goal
<1>5. ASSUME NEW n \in DOMAIN s2, K!SelectNode(n) PROVE Goal
  <2>1. /\ s9 = K!NoReading /\ s3' = n /\ s4' = s1[n] /\ s11' = s1[n].url
        /\ K!Refresh(s2, n, s8) /\ s1' = s1 /\ s2' = s2 /\ s5' = s5 /\ s6' = s6 /\ s7' = s7
        /\ s8' = s8
    BY <1>5 DEF K!SelectNode, K!Idle
  <2>2. n \in DOMAIN s1 /\ Known(s2[n], s1[n].url)
    BY <1>1, <1>2
  <2>3. NodesTyped'
    BY <1>1, <2>1, <2>2, ListedIs
  <2>4. ChosenIs'
    BY <1>2, <2>1, <2>2 DEF ChosenIs, K!ActiveIsChosen
  <2>5. Fresh'
    BY <1>1, <2>1, <2>2, FreshAfter
  <2>6. K!FailoverStaysOnChain
    BY <2>1 DEF K!FailoverStaysOnChain
  <2> QED
    BY <2>3, <2>4, <2>5, <2>6 DEF Goal
<1>6. ASSUME NEW b \in NodeLists, K!Restart(b) PROVE Goal
  <2> DEFINE Same == {n \in DOMAIN b : K!SameEndpoint(b[n], s4)}
  <2>1. /\ s1' = b /\ s2' = [n \in DOMAIN b |-> K!Builtin] /\ s6' = {} /\ s7' = FALSE
        /\ s8' = FALSE /\ s9' = K!NoReading /\ s4' = s4 /\ s5' = s5 /\ s11' = s11
    BY <1>6 DEF K!Restart
  <2>2. s3' = IF \E n \in DOMAIN b : K!SameEndpoint(b[n], s4)
              THEN CHOOSE n \in DOMAIN b : K!SameEndpoint(b[n], s4) ELSE 1
    BY <1>6 DEF K!Restart
  <2>3. /\ K!Builtin \in Node /\ K!Builtin.tip = 0 /\ K!Builtin.network = "none"
        /\ K!Builtin.status = "unknown" /\ K!Builtin.retry = 0
    BY DEF K!Builtin, Node, K!Status
  <2>4. 1 \in DOMAIN b /\ \A n \in DOMAIN b : b[n].url \in Urls
    BY NodeListIs
  <2>5. s3' \in DOMAIN b /\ \A n \in DOMAIN b : b[n].url = s4.url => s3' = n
    <3>1. CASE \E n \in DOMAIN b : K!SameEndpoint(b[n], s4)
      <4>1. s3' \in DOMAIN b /\ K!SameEndpoint(b[s3'], s4)
        BY <3>1, <2>2
      <4> QED
        BY <4>1, NodeListIs DEF K!SameEndpoint
    <3>2. CASE ~\E n \in DOMAIN b : K!SameEndpoint(b[n], s4)
      <4>1. s3' = 1
        BY <3>2, <2>2
      <4> QED
        BY <3>2, <4>1, <2>4 DEF K!SameEndpoint
    <3> QED
      BY <3>1, <3>2
  <2>6. \A n \in DOMAIN b : Known(s2[n], s1[n].url)'
    <3>1. \A u \in Urls : Known(K!Builtin, u)'
      BY <2>1, <2>3, <1>1 DEF Known
    <3> QED
      BY <2>1, <2>4, <3>1 DEF Known
  <2>7. s2' \in [DOMAIN b -> Node]
    BY <2>1, <2>3
  <2>8. NodesTyped'
    BY <1>1, <2>1, <2>5, <2>6, <2>7 DEF NodesTyped
  <2>9. ChosenIs'
    BY <2>1, <2>5 DEF ChosenIs, K!ActiveIsChosen
  <2>10. Fresh'
    BY <2>1 DEF Fresh
  <2>11. K!FailoverStaysOnChain
    BY <2>1 DEF K!FailoverStaysOnChain
  <2> QED
    BY <2>8, <2>9, <2>10, <2>11 DEF Goal
<1>7. ASSUME K!Unlock PROVE Goal
  <2>1. /\ ~s8 /\ s8' = TRUE /\ K!Refresh(s2, s3, TRUE)
        /\ s1' = s1 /\ s2' = s2 /\ s3' = s3 /\ s4' = s4 /\ s5' = s5 /\ s6' = s6 /\ s7' = s7
        /\ s10' = s10 /\ s11' = s11
    BY <1>7 DEF K!Unlock
  <2>2. NodesTyped'
    BY <1>1, <2>1, ListedIs
  <2>3. ChosenIs'
    BY <2>1 DEF ChosenIs, K!ActiveIsChosen
  <2>4. \/ s9' = s9 /\ (s9 # K!NoReading \/ K!Refused(s2[s3]))
        \/ s9' # K!NoReading /\ s9'.url = s1[s3].url /\ s9'.at = s5[s1[s3].url]
    <3>1. TRUE \in BOOLEAN
      OBVIOUS
    <3> QED
      BY <1>1, <2>1, <3>1, RefreshIs, Zenon
  <2>5. s2[s3].tip <= s5[s1[s3].url] /\ s2[s3].tip \in Nat /\ s5[s1[s3].url] \in Nat
    BY <1>1, <1>2 DEF Known, Node
  <2>6. K!Refused(s2[s3])' <=> K!Refused(s2[s3])
    BY <2>1 DEF K!Refused
  <2>7. Fresh'
    BY <2>1, <2>4, <2>5, <2>6 DEF Fresh, ReadOf
  <2>8. K!FailoverStaysOnChain
    BY <2>1 DEF K!FailoverStaysOnChain
  <2> QED
    BY <2>2, <2>3, <2>7, <2>8 DEF Goal
<1>8. ASSUME K!Lock PROVE Goal
  <2>1. /\ s8' = FALSE
        /\ s1' = s1 /\ s2' = s2 /\ s3' = s3 /\ s4' = s4 /\ s5' = s5 /\ s6' = s6 /\ s7' = s7
        /\ s9' = s9 /\ s10' = s10 /\ s11' = s11
    BY <1>8 DEF K!Lock
  <2>2. \A p \in s6' : p.node \in DOMAIN s1 /\ p.since \in Nat /\ p.since > 0
    BY <1>1, <2>1
  <2>3. s7' \in {s7, TRUE} /\ s8' \in {s8, FALSE}
    BY <2>1, Zenon
  <2> QED
    BY <1>0, <2>1, <2>2, <2>3, Zenon
<1>9. ASSUME K!PollTip PROVE Goal
  <2>1. /\ s1' = s1 /\ s2' = s2 /\ s3' = s3 /\ s4' = s4 /\ s5' = s5 /\ s7' = TRUE
        /\ s8' = s8 /\ s9' = s9 /\ s10' = s10 /\ s11' = s11
        /\ s6' = s6 \cup {K!Asked(s3, TRUE)}
    BY <1>9 DEF K!PollTip
  <2>2. K!Asked(s3, TRUE).node = s3 /\ K!Asked(s3, TRUE).since = s5[s1[s3].url]
    BY DEF K!Asked
  <2>3. \A p \in s6' : p.node \in DOMAIN s1 /\ p.since \in Nat /\ p.since > 0
    BY <1>1, <1>2, <2>1, <2>2
  <2>4. s7' \in {s7, TRUE} /\ s8' \in {s8, FALSE}
    BY <2>1, Zenon
  <2> QED
    BY <1>0, <2>1, <2>3, <2>4, Zenon
<1>10. ASSUME K!ProbeInactive PROVE Goal
  <2>1. /\ s1' = s1 /\ s2' = s2 /\ s3' = s3 /\ s4' = s4 /\ s5' = s5 /\ s7' = s7
        /\ s8' = s8 /\ s9' = s9 /\ s10' = s10 /\ s11' = s11
        /\ s6' = s6 \cup {K!Asked(n, FALSE) : n \in K!Others}
    BY <1>10 DEF K!ProbeInactive
  <2>2. \A n \in K!Others : n \in DOMAIN s1 /\ K!Asked(n, FALSE).node = n
                             /\ K!Asked(n, FALSE).since = s5[s1[n].url]
    BY <1>2 DEF K!Asked, K!Others
  <2>3. ASSUME NEW p \in s6' PROVE p.node \in DOMAIN s1 /\ p.since \in Nat /\ p.since > 0
    <3>1. CASE p \in s6
      BY <1>1, <3>1
    <3>2. CASE p \notin s6
      <4>1. PICK n \in K!Others : p = K!Asked(n, FALSE)
        BY <2>1, <2>3, <3>2, Zenon
      <4>2. n \in DOMAIN s1 /\ p.node = n /\ p.since = s5[s1[n].url]
        BY <2>2, <4>1
      <4> QED
        BY <1>1, <1>2, <4>2
    <3> QED
      BY <3>1, <3>2
  <2>4. s7' \in {s7, TRUE} /\ s8' \in {s8, FALSE}
    BY <2>1, Zenon
  <2> QED
    BY <1>0, <2>1, <2>3, <2>4, Zenon
<1>11. ASSUME K!FinishRefresh PROVE Goal
  <2>1. /\ s9 # K!NoReading /\ s9' = K!NoReading /\ s10' = s9
        /\ s1' = s1 /\ s2' = s2 /\ s3' = s3 /\ s4' = s4 /\ s5' = s5 /\ s6' = s6 /\ s7' = s7
        /\ s8' = s8 /\ s11' = s11
    BY <1>11 DEF K!FinishRefresh
  <2>2. NodesTyped'
    BY <1>1, <2>1, ListedIs
  <2>3. ChosenIs'
    BY <2>1 DEF ChosenIs, K!ActiveIsChosen
  <2>4. Fresh'
    BY <2>1 DEF Fresh, ReadOf
  <2>5. K!FailoverStaysOnChain
    BY <2>1 DEF K!FailoverStaysOnChain
  <2> QED
    BY <2>2, <2>3, <2>4, <2>5 DEF Goal
<1>12. ASSUME NEW f \in K!AllNow, K!ProbeAll(f) PROVE Goal
  <2> DEFINE ns == [n \in DOMAIN s2 |-> K!After(s2[n], f[n])]
  <2>1. /\ s9 = K!NoReading /\ s2' = ns /\ K!Refresh(ns, s3, s8)
        /\ s1' = s1 /\ s3' = s3 /\ s4' = s4 /\ s5' = s5 /\ s6' = s6 /\ s7' = s7
        /\ s8' = s8 /\ s10' = s10 /\ s11' = s11
    BY <1>12 DEF K!ProbeAll, K!Idle
  <2>2. \A n \in DOMAIN s1 : Known(ns[n], s1[n].url)
    <3>1. ASSUME NEW n \in DOMAIN s1 PROVE Known(K!After(s2[n], f[n]), s1[n].url)
      <4>1. f[n] \in K!Replies(s1[n].url, s5[s1[n].url])
        BY <1>2, <1>12 DEF K!AllNow, K!Now
      <4>2. s5[s1[n].url] \in Nat /\ s5[s1[n].url] > 0
        BY <1>1, <1>2
      <4> QED
        BY <1>1, <1>2, <4>1, <4>2, AfterIs
    <3> QED
      BY <1>2, <3>1
  <2>3. ns \in [DOMAIN s1 -> Node]
    <3>1. \A n \in DOMAIN s1 : ns[n] \in Node
      BY <2>2 DEF Known
    <3> QED
      BY <1>2, <3>1
  <2> HIDE DEF ns
  <2>4. NodesTyped'
    BY <1>1, <2>1, <2>2, <2>3, ListedIs
  <2>5. ChosenIs'
    BY <2>1 DEF ChosenIs, K!ActiveIsChosen
  <2>6. Fresh'
    BY <1>1, <2>1, <2>2, <2>3, FreshAfter
  <2>7. K!FailoverStaysOnChain
    BY <2>1 DEF K!FailoverStaysOnChain
  <2> QED
    BY <2>4, <2>5, <2>6, <2>7 DEF Goal
<1>13. ASSUME NEW p \in s6, NEW held \in BOOLEAN, NEW r \in K!Replies(s1[p.node].url, p.since),
              K!FinishTip(p, r, held)
       PROVE  Goal
  <2> DEFINE n == p.node
             x == K!After(s2[n], r)
             ns == [s2 EXCEPT ![n] = x]
  <2>1. n \in DOMAIN s1 /\ p.since \in Nat /\ p.since > 0 /\ s1[n].url \in Urls
    BY <1>1, <1>2
  <2>2. /\ Known(x, s1[n].url)
        /\ r.kind # "info" => /\ x.tip = s2[n].tip /\ x.network = s2[n].network
                              /\ x.status # "online"
    BY <1>1, <2>1, AfterIs
  <2>3. /\ s9 = K!NoReading /\ s2' = ns /\ s6' = s6 \ {p}
        /\ s1' = s1 /\ s5' = s5 /\ s8' = s8 /\ s10' = s10
        /\ s7' = (s7 /\ ~p.poller)
    BY <1>13 DEF K!FinishTip, K!Idle
  <2>4. \/ /\ K!FailsOver(ns) /\ s3' = K!Target(ns, s3) /\ s4' = s1[s3'] /\ s11' = s1[s3'].url
           /\ K!Refresh(ns, s3', s8)
        \/ /\ s3' = s3 /\ s4' = s4 /\ s11' = s11
           /\ IF r.kind = "info" /\ n = s3 /\ ns[n].tip # s2[n].tip
              THEN K!Refresh(ns, s3, s8) ELSE s9' = s9
    BY <1>13 DEF K!FinishTip
  <2> HIDE DEF x
  <2>5. ns[n] = x /\ \A m \in DOMAIN s1 \ {n} : ns[m] = s2[m]
    BY <1>2, <2>1
  <2>6. ns \in [DOMAIN s1 -> Node] /\ \A m \in DOMAIN s1 : Known(ns[m], s1[m].url)
    <3>1. \A m \in DOMAIN s1 : Known(ns[m], s1[m].url)
      BY <1>1, <2>2, <2>5
    <3>2. x \in Node
      BY <2>2 DEF Known
    <3> QED
      BY <1>1, <3>1, <3>2
  <2>7. s7' \in BOOLEAN
    BY <2>3, Zenon
  <2> HIDE DEF ns, n
  <2>8. CASE /\ K!FailsOver(ns) /\ s3' = K!Target(ns, s3) /\ s4' = s1[s3'] /\ s11' = s1[s3'].url
             /\ K!Refresh(ns, s3', s8)
    <3>1. s3' \in K!Candidates(ns, s3)
      BY <1>2, <2>6, <2>8, TargetIs DEF K!FailsOver
    <3>2. s3' \in DOMAIN s1 /\ ns[s3'].status = "online"
      BY <2>6, <3>1 DEF K!Candidates
    <3>3. s1[s3'].url \in OurUrls
      <4>1. Known(ns[s3'], s1[s3'].url)
        BY <2>6, <3>2
      <4> QED
        BY <3>2, <4>1 DEF Known, K!ChainOf
    <3>4. NodesTyped'
      BY <1>1, <2>3, <2>6, <2>7, <3>2, ListedIs
    <3>5. ChosenIs'
      BY <1>2, <2>3, <2>8, <3>2 DEF ChosenIs, K!ActiveIsChosen
    <3>6. Fresh'
      <4>1. PICK a \in DOMAIN s1 : a = s3'
        BY <3>2
      <4>2. K!Refresh(ns, a, s8) /\ Known(ns[a], s1[a].url)
        BY <2>6, <2>8, <4>1
      <4> QED
        BY <2>3, <2>6, <4>1, <4>2, FreshAfter
    <3>7. K!FailoverStaysOnChain
      BY <2>3, <3>3 DEF K!FailoverStaysOnChain
    <3> QED
      BY <3>4, <3>5, <3>6, <3>7 DEF Goal
  <2>9. CASE /\ s3' = s3 /\ s4' = s4 /\ s11' = s11
             /\ IF r.kind = "info" /\ n = s3 /\ ns[n].tip # s2[n].tip
                THEN K!Refresh(ns, s3, s8) ELSE s9' = s9
    <3>1. NodesTyped'
      BY <1>1, <2>3, <2>6, <2>7, <2>9, ListedIs
    <3>2. ChosenIs'
      BY <2>3, <2>9 DEF ChosenIs, K!ActiveIsChosen
    <3>3. K!FailoverStaysOnChain
      BY <2>9 DEF K!FailoverStaysOnChain
    <3>4. CASE r.kind = "info" /\ n = s3 /\ ns[n].tip # s2[n].tip
      <4>1. K!Refresh(ns, s3, s8)
        BY <2>9, <3>4
      <4>2. Fresh'
        BY <1>1, <2>3, <2>6, <2>9, <4>1, FreshAfter
      <4> QED
        BY <3>1, <3>2, <3>3, <4>2 DEF Goal
    <3>5. CASE ~(r.kind = "info" /\ n = s3 /\ ns[n].tip # s2[n].tip)
      <4>1. s9' = K!NoReading
        BY <2>3, <2>9, <3>5
      <4>2. ns[s3].tip = s2[s3].tip
        BY <1>1, <2>1, <2>2, <2>5, <3>5 DEF n
      <4>3. s2[s3].tip > 0 => ns[s3].network = s2[s3].network
        <5>1. s2[s3].tip > 0 => s2[s3].network = K!ChainOf(s1[s3].url)
          BY <1>1 DEF Known
        <5>2. ns[s3].tip > 0 => ns[s3].network = K!ChainOf(s1[s3].url)
          BY <1>1, <2>6 DEF Known
        <5> QED
          BY <4>2, <5>1, <5>2
      <4>4. s2[s3].status # "unidentified" /\ ns[s3].status # "unidentified"
        BY <1>1, <2>6 DEF Known
      <4>5. s2[s3].tip > 0 => (K!Refused(s2[s3])' <=> K!Refused(s2[s3]))
        BY <2>3, <2>9, <4>3, <4>4 DEF K!Refused
      <4>6. Fresh'
        BY <2>3, <2>9, <4>1, <4>2, <4>5 DEF Fresh, ReadOf
      <4> QED
        BY <3>1, <3>2, <3>3, <4>6 DEF Goal
    <3> QED
      BY <3>4, <3>5
  <2> QED
    BY <2>4, <2>8, <2>9
<1>14. ASSUME NEW u \in OurUrls, K!Grow(u) PROVE Goal
  <2>1. /\ s1' = s1 /\ s2' = s2 /\ s3' = s3 /\ s4' = s4 /\ s6' = s6 /\ s7' = s7
        /\ s8' = s8 /\ s9' = s9 /\ s10' = s10 /\ s11' = s11
        /\ s5' = [s5 EXCEPT ![u] = @ + 1]
    BY <1>14 DEF K!Grow
  <2>2. u \in Urls
    BY WalletAssumption DEF K!NodesAssumption
  <2>3. s5' \in [Urls -> Nat] /\ \A v \in Urls : s5'[v] >= s5[v]
    BY <1>1, <2>1, <2>2
  <2> QED
    BY <1>1, <1>3, <2>1, <2>3
<1>15. ASSUME K!Next PROVE Goal
  BY <1>5, <1>6, <1>7, <1>8, <1>9, <1>10, <1>11, <1>12, <1>13, <1>14, <1>15 DEF K!Next
<1> QED
  BY <1>4, <1>15 DEF Goal

\* What the invariants say of the node in use.
LEMMA NodesAre == ASSUME NodesTyped, ChosenIs, Fresh PROVE K!ActiveIsChosen /\ K!TipIsRead
<1>1. Known(s2[s3], s1[s3].url)
  BY DEF NodesTyped
<1>2. s2[s3].status = "online" => s2[s3].tip > 0 /\ ~K!Refused(s2[s3])
  BY <1>1 DEF Known, K!Refused
<1> QED
  BY <1>2 DEF ChosenIs, Fresh, ReadOf, K!TipIsRead

-----------------------------------------------------------------------------
(* The birthdays *)

Unset == B!Unset

\* Twice the height with what the chain may still bring, less the time: no step but
\* those of a chain that takes blocks back makes it grow.
Lead == 2 * s3 + s4 - s1

\* How far the chain can have come, and what the settings and the scans lie between.
BirthdayTyped ==
    /\ s1 \in Nat /\ s2 = s1 /\ s1 <= MaxTime
    /\ s3 \in Nat /\ s3 >= Started /\ s4 \in 0 .. 2 * Burst
    /\ Lead <= 2 * Burst + 2 * Started
    /\ s5 = B!NoTip \/ s5 \in Started .. s3
    /\ s6 \in [Names -> Accounts \cup {NoKey}]
    /\ s7 \in Names \cup {NoLabel} /\ (s7 # NoLabel => s6[s7] # NoKey)
    /\ s8 \in [Names -> Int] /\ s9 \in [Names -> Int]
    /\ \A l \in Names : s8[l] = Unset \/ s8[l] \in 2 .. s3
    /\ \A l \in Names : s9[l] = Unset \/ s9[l] \in 0 .. s1
    /\ \A l \in Names : s8[l] = Unset \/ s9[l] = Unset
    /\ s10 \in [Accounts -> Int] /\ s11 \in [Accounts -> Int]
    /\ \A k \in Accounts : s10[k] = Unset \/ s10[k] \in 2 .. s3
    /\ \A k \in Accounts : s11[k] = Unset \/ s11[k] \in 2 .. s3
    /\ s12 \subseteq Names
    /\ \A l \in Names \ s12 : s6[l] = NoKey /\ s8[l] = Unset /\ s9[l] = Unset

\* A birthday lies below the first payment to the key of that name; and while one is
\* pending, the chain came no further since then than it can have.
BelowPaid(l, k) ==
    /\ s8[l] # Unset => s8[l] <= s10[k]
    /\ s9[l] # Unset => Lead + s9[l] + 2 <= 2 * Burst + 2 * s10[k]
Skips ==
    /\ \A l \in Names : s6[l] # NoKey /\ s10[s6[l]] # Unset => BelowPaid(l, s6[l])
    /\ B!SkipsNothing

\* As long as no name was changed, a key made here has a birthday, or one to come.
Reaches(h) == h >= Started - B!AtLeast(Margin, s1)
Rests ==
    B!NeverRenamed =>
        /\ \A l \in Names : s6[l] # NoKey /\ s6[l] \notin Brought =>
               s9[l] # Unset \/ (s8[l] # Unset /\ Reaches(s8[l]))
        /\ \A k \in Accounts \ Brought : s11[k] # Unset => Reaches(s11[k])

\* What the values of the constants make true of the birthdays.
LEMMA BirthdayConstants ==
    /\ NoKey \notin Accounts /\ NoLabel \notin Names /\ Brought \subseteq Accounts
    /\ Margin \in Nat /\ Burst \in Nat /\ MaxTime \in Nat /\ Started \in Nat /\ Started >= 2
    /\ 2 * Burst <= Margin + 2
    /\ Unset \in Int /\ Unset < 0 /\ B!NoTip = 0
<1>1. B!BirthdayAssumption
  BY WalletAssumption
<1>2. Started \in Nat \ {0, 1}
  BY <1>1 DEF B!BirthdayAssumption
<1>3. Unset \in Int /\ Unset < 0 /\ B!NoTip = 0
  BY DEF Unset, B!Unset, B!NoTip
<1>4. Started \in Nat /\ Started >= 2
  BY <1>2
<1> QED
  BY <1>1, <1>3, <1>4 DEF B!BirthdayAssumption

\* The larger of two numbers.
LEMMA AtLeastIs ==
    ASSUME NEW a \in Int, NEW b \in Int
    PROVE  /\ B!AtLeast(a, b) \in {a, b} /\ B!AtLeast(a, b) \in Int
           /\ B!AtLeast(a, b) >= a /\ B!AtLeast(a, b) >= b
  BY DEF B!AtLeast

\* At the start no key was made here, and no scan was begun.
LEMMA BirthdayInit == ASSUME B!Init PROVE BirthdayTyped /\ Skips /\ Rests
<1>1. /\ s1 = 0 /\ s2 = 0 /\ s3 = Started /\ s4 = 2 * Burst /\ s5 = B!NoTip
      /\ s6 = [l \in Names |-> NoKey] /\ s7 = NoLabel
      /\ s8 = [l \in Names |-> Unset] /\ s9 = [l \in Names |-> Unset]
      /\ s11 = [k \in Accounts |-> Unset] /\ s12 = {}
  BY DEF B!Init, Unset
<1>2. PICK h \in 2 .. Started : s10 = [k \in Accounts |-> IF k \in Brought THEN h ELSE Unset]
  BY DEF B!Init, Unset
<1>3. s10 \in [Accounts -> Int] /\ \A k \in Accounts : s10[k] = Unset \/ s10[k] \in 2 .. s3
  BY <1>1, <1>2, BirthdayConstants
<1>4. s8 \in [Names -> Int] /\ s9 \in [Names -> Int] /\ s11 \in [Accounts -> Int]
  BY <1>1, BirthdayConstants
<1>5. \A l \in Names : s6[l] = NoKey /\ s8[l] = Unset /\ s9[l] = Unset
  BY <1>1
<1>6. \A k \in Accounts : s11[k] = Unset
  BY <1>1
<1>7. s6 \in [Names -> Accounts \cup {NoKey}]
  BY <1>1
<1>8. BirthdayTyped
  <2>1. s1 \in Nat /\ s1 <= MaxTime /\ s3 \in Nat /\ s3 >= Started /\ s4 \in 0 .. 2 * Burst
        /\ Lead <= 2 * Burst + 2 * Started
    BY <1>1, BirthdayConstants DEF Lead
  <2> QED
    BY <1>1, <1>3, <1>4, <1>5, <1>6, <1>7, <2>1 DEF BirthdayTyped
<1>9. Skips
  BY <1>5, <1>6 DEF Skips, B!SkipsNothing, Unset
<1>10. Rests
  BY <1>5, <1>6 DEF Rests
<1> QED
  BY <1>8, <1>9, <1>10

\* A step of the clock, the chain or the node, which may pay a key at the next height.
Grows ==
    /\ s6' = s6 /\ s7' = s7 /\ s8' = s8 /\ s9' = s9 /\ s11' = s11 /\ s12' = s12
    /\ s1' \in Nat /\ s2' = s1' /\ s1' >= s1 /\ s1' <= MaxTime /\ s3' \in Nat /\ s3' >= s3
    /\ s4' \in 0 .. 2 * Burst /\ Lead' <= Lead
    /\ s5' = B!NoTip \/ s5' \in Started .. s3'
    /\ s10' \in [Accounts -> Int]
    /\ \A k \in Accounts : \/ s10'[k] = s10[k]
                           \/ s10[k] = Unset /\ s10'[k] = s3 + 1 /\ s3' = s3 + 1 /\ s4' = s4 - 2

\* Such a step keeps all that is said of birthdays and scans.
LEMMA ChainStep == ASSUME BirthdayTyped, Skips, Rests, Grows PROVE BirthdayTyped' /\ Skips' /\ Rests'
<1>0. /\ s6' = s6 /\ s7' = s7 /\ s8' = s8 /\ s9' = s9 /\ s11' = s11 /\ s12' = s12
      /\ s1' \in Nat /\ s2' = s1' /\ s1' >= s1 /\ s1' <= MaxTime /\ s3' \in Nat /\ s3' >= s3
      /\ s4' \in 0 .. 2 * Burst /\ Lead' <= Lead
  BY DEF Grows
<1>1. /\ s1 \in Nat /\ s3 \in Nat /\ s3 >= Started /\ s4 \in 0 .. 2 * Burst
      /\ Lead <= 2 * Burst + 2 * Started
      /\ Started \in Nat /\ Started >= 2 /\ Burst \in Nat /\ Margin \in Nat
      /\ Unset \in Int /\ Unset < 0
  BY BirthdayConstants DEF BirthdayTyped
<1>9. Lead \in Int /\ Lead' \in Int
  BY <1>0, <1>1 DEF Lead
<1>2. /\ s6 \in [Names -> Accounts \cup {NoKey}] /\ s8 \in [Names -> Int] /\ s9 \in [Names -> Int]
      /\ s10 \in [Accounts -> Int] /\ s11 \in [Accounts -> Int]
      /\ \A l \in Names : s8[l] = Unset \/ s8[l] \in 2 .. s3
      /\ \A l \in Names : s9[l] = Unset \/ s9[l] \in 0 .. s1
      /\ \A k \in Accounts : s10[k] = Unset \/ s10[k] \in 2 .. s3
      /\ \A k \in Accounts : s11[k] = Unset \/ s11[k] \in 2 .. s3
      /\ \A l \in Names : s8[l] = Unset \/ s9[l] = Unset
  BY DEF BirthdayTyped
<1>3. BirthdayTyped'
  <2>1. Lead' <= 2 * Burst + 2 * Started /\ s3' >= Started
    BY <1>0, <1>1, <1>9
  <2>2. \A l \in Names : s8[l] = Unset \/ s8[l] \in 2 .. s3'
    BY <1>0, <1>1, <1>2
  <2>3. \A l \in Names : s9[l] = Unset \/ s9[l] \in 0 .. s1'
    BY <1>0, <1>1, <1>2
  <2>4. \A k \in Accounts : s10'[k] = Unset \/ s10'[k] \in 2 .. s3'
    BY <1>0, <1>1, <1>2 DEF Grows
  <2>5. \A k \in Accounts : s11[k] = Unset \/ s11[k] \in 2 .. s3'
    BY <1>0, <1>1, <1>2
  <2> QED
    BY <2>1, <2>2, <2>3, <2>4, <2>5, <1>0, <1>2 DEF BirthdayTyped, Grows
<1>4. ASSUME NEW l \in Names, s6[l] # NoKey, s10'[s6[l]] # Unset
      PROVE  BelowPaid(l, s6[l])'
  <2> DEFINE k == s6[l]
  <2>1. k \in Accounts
    BY <1>2, <1>4
  <2>2. s8[l] \in Int /\ s9[l] \in Int /\ s10[k] \in Int /\ s10'[k] \in Int
    BY <1>2, <2>1 DEF Grows
  <2>3. (s8[l] = Unset \/ s8[l] <= s3) /\ (s9[l] = Unset \/ s9[l] <= s1)
    BY <1>1, <1>2
  <2>4. CASE s10'[k] = s10[k]
    <3>1. BelowPaid(l, k)
      BY <1>4, <2>4 DEF Skips
    <3>2. s8[l] # Unset => s8[l] <= s10'[k]
      BY <2>4, <3>1 DEF BelowPaid
    <3>3. s9[l] # Unset => Lead' + s9[l] + 2 <= 2 * Burst + 2 * s10'[k]
      <4>1. s9[l] # Unset => Lead + s9[l] + 2 <= 2 * Burst + 2 * s10[k]
        BY <3>1 DEF BelowPaid
      <4> HIDE DEF k
      <4> QED
        BY <1>0, <1>1, <1>9, <2>2, <2>4, <4>1
    <3> QED
      BY <1>0, <3>2, <3>3 DEF BelowPaid
  <2>5. CASE s10'[k] # s10[k]
    <3>1. s10'[k] = s3 + 1 /\ s3' = s3 + 1 /\ s4' = s4 - 2
      BY <2>1, <2>5 DEF Grows
    <3> HIDE DEF k
    <3>2. s8[l] # Unset => s8[l] <= s10'[k]
      BY <1>0, <1>1, <2>2, <2>3, <3>1
    <3>3. s9[l] # Unset => Lead' + s9[l] + 2 <= 2 * Burst + 2 * s10'[k]
      BY <1>0, <1>1, <2>2, <2>3, <3>1 DEF Lead
    <3> QED
      BY <1>0, <3>2, <3>3 DEF BelowPaid, k
  <2> QED
    BY <2>4, <2>5
<1>5. ASSUME NEW k \in Accounts, s11[k] # Unset, s10'[k] # Unset PROVE s11[k] <= s10'[k]
  <2>1. s11[k] \in Int /\ s11[k] <= s3
    BY <1>1, <1>2, <1>5
  <2>2. CASE s10'[k] = s10[k]
    BY <1>0, <1>5, <2>2 DEF Skips, B!SkipsNothing, Unset
  <2>3. CASE s10'[k] = s3 + 1
    BY <1>0, <1>1, <2>1, <2>3
  <2> QED
    BY <2>2, <2>3 DEF Grows
<1>6. Skips'
  <2>1. \A l \in Names : (s6[l] # NoKey /\ s10[s6[l]] # Unset => BelowPaid(l, s6[l]))'
    BY <1>0, <1>4
  <2>2. B!SkipsNothing'
    BY <1>0, <1>5 DEF B!SkipsNothing, Unset
  <2> QED
    BY <2>1, <2>2 DEF Skips, Unset
<1>7. Rests'
  <2>1. ASSUME NEW h \in Int, Reaches(h) PROVE Reaches(h)'
    <3>1. B!AtLeast(Margin, s1') >= B!AtLeast(Margin, s1)
          /\ B!AtLeast(Margin, s1') \in Int /\ B!AtLeast(Margin, s1) \in Int
      BY <1>0, <1>1, AtLeastIs DEF B!AtLeast
    <3>2. h >= Started - B!AtLeast(Margin, s1)
      BY <2>1 DEF Reaches
    <3>3. h >= Started - B!AtLeast(Margin, s1')
      BY <1>0, <1>1, <3>1, <3>2
    <3> QED
      BY <3>3 DEF Reaches, B!AtLeast
  <2> SUFFICES ASSUME B!NeverRenamed'
               PROVE  /\ \A l \in Names : (s6[l] # NoKey /\ s6[l] \notin Brought =>
                            s9[l] # Unset \/ (s8[l] # Unset /\ Reaches(s8[l])))'
                      /\ \A k \in Accounts \ Brought : (s11[k] # Unset => Reaches(s11[k]))'
    BY DEF Rests, Unset
  <2>2. B!NeverRenamed
    BY <1>0 DEF B!NeverRenamed
  <2>3. \A l \in Names : s8[l] \in Int
    BY <1>2
  <2>4. \A k \in Accounts : s11[k] \in Int
    BY <1>2
  <2> HIDE DEF Reaches
  <2> QED
    BY <1>0, <2>1, <2>2, <2>3, <2>4 DEF Rests, Reaches
<1> QED
  BY <1>3, <1>6, <1>7

\* Time, a block and a tip that is read are such steps, and so is no step at all.
LEMMA GrowsIs ==
    ASSUME BirthdayTyped,
           \/ B!Pass \/ (\E k \in Accounts \cup {NoKey} : B!Mine(k))
           \/ (\E t \in B!Height : B!Report(t)) \/ UNCHANGED slots
    PROVE  Grows
<1>1. /\ s1 \in Nat /\ s2 = s1 /\ s1 <= MaxTime /\ s3 \in Nat /\ s3 >= Started /\ s4 \in 0 .. 2 * Burst
      /\ s5 = B!NoTip \/ s5 \in Started .. s3
      /\ s10 \in [Accounts -> Int]
      /\ Started \in Nat /\ Burst \in Nat /\ MaxTime \in Nat /\ Unset \in Int
      /\ NoKey \notin Accounts
  BY BirthdayConstants DEF BirthdayTyped
<1>2. CASE B!Pass
  <2>1. /\ s6' = s6 /\ s7' = s7 /\ s8' = s8 /\ s9' = s9 /\ s11' = s11 /\ s12' = s12
        /\ s3' = s3 /\ s5' = s5 /\ s10' = s10
    BY <1>2 DEF B!Pass, B!UnchangedWallet
  <2>2. s1 < MaxTime /\ s1' = s1 + 1 /\ s2' = s2 + 1
        /\ s4' = IF s4 < 2 * Burst THEN s4 + 1 ELSE s4
    BY <1>2 DEF B!Pass
  <2>3. s1' \in Nat /\ s2' = s1' /\ s1' >= s1 /\ s1' <= MaxTime /\ s4' \in 0 .. 2 * Burst
        /\ s4' <= s4 + 1
    BY <1>1, <2>2
  <2>4. Lead' <= Lead
    BY <1>1, <2>1, <2>2, <2>3 DEF Lead
  <2> QED
    BY <1>1, <2>1, <2>3, <2>4 DEF Grows
<1>3. ASSUME NEW k \in Accounts \cup {NoKey}, B!Mine(k) PROVE Grows
  <2>1. /\ s6' = s6 /\ s7' = s7 /\ s8' = s8 /\ s9' = s9 /\ s11' = s11 /\ s12' = s12
        /\ s1' = s1 /\ s2' = s2 /\ s5' = s5
    BY <1>3 DEF B!Mine, B!UnchangedWallet
  <2>2. s4 >= 2 /\ s4' = s4 - 2 /\ s3' = s3 + 1
        /\ s10' = IF k # NoKey /\ s10[k] = Unset THEN [s10 EXCEPT ![k] = s3 + 1] ELSE s10
    BY <1>3 DEF B!Mine, Unset
  <2>3. Lead' <= Lead
    BY <1>1, <2>1, <2>2 DEF Lead
  <2>4. s10' \in [Accounts -> Int]
        /\ \A a \in Accounts : s10'[a] = s10[a] \/ (s10[a] = Unset /\ s10'[a] = s3 + 1)
    BY <1>1, <2>2
  <2>5. s5' = B!NoTip \/ s5' \in Started .. s3'
    BY <1>1, <2>1, <2>2
  <2>6. /\ s1' \in Nat /\ s2' = s1' /\ s1' >= s1 /\ s1' <= MaxTime /\ s3' \in Nat /\ s3' >= s3
        /\ s4' \in 0 .. 2 * Burst
    BY <1>1, <2>1, <2>2
  <2> QED
    BY <2>1, <2>2, <2>3, <2>4, <2>5, <2>6 DEF Grows
<1>4. ASSUME NEW t \in B!Height, B!Report(t) PROVE Grows
  <2>1. /\ s6' = s6 /\ s7' = s7 /\ s8' = s8 /\ s9' = s9 /\ s11' = s11 /\ s12' = s12
        /\ s1' = s1 /\ s2' = s2 /\ s3' = s3 /\ s4' = s4 /\ s10' = s10
        /\ s5' = t /\ t \in {B!NoTip} \cup (Started..s3)
    BY <1>4 DEF B!Report, B!UnchangedWallet
  <2>2. Lead' <= Lead
    BY <1>1, <2>1 DEF Lead
  <2> QED
    BY <1>1, <2>1, <2>2 DEF Grows
<1>5. CASE UNCHANGED slots
  <2>1. /\ s1' = s1 /\ s2' = s2 /\ s3' = s3 /\ s4' = s4 /\ s5' = s5 /\ s6' = s6 /\ s7' = s7
        /\ s8' = s8 /\ s9' = s9 /\ s10' = s10 /\ s11' = s11 /\ s12' = s12
    BY <1>5 DEF slots
  <2>2. Lead' <= Lead
    BY <1>1, <2>1 DEF Lead
  <2> QED
    BY <1>1, <2>1, <2>2 DEF Grows
<1> QED
  BY <1>2, <1>3, <1>4, <1>5

\* What a step of the wallet leaves as it is.
Stands == s1' = s1 /\ s2' = s2 /\ s3' = s3 /\ s4' = s4 /\ s5' = s5 /\ s10' = s10

\* A key comes to be, made here or brought in, under a name that was never given.
LEMMA NameStep ==
    ASSUME BirthdayTyped, Skips, Rests, NEW l \in Names, NEW k \in Accounts,
           B!Generate(l, k) \/ B!ImportKey(l, k)
    PROVE  BirthdayTyped' /\ Skips' /\ Rests'
<1>1. /\ s6[l] = NoKey /\ l \notin s12 /\ s8[l] = Unset /\ s9[l] = Unset
      /\ s6' = [s6 EXCEPT ![l] = k] /\ s12' = s12 \cup {l} /\ s11' = s11
      /\ s7' \in {s7, l} /\ (s7 = NoLabel => s7' = l)
  BY DEF B!Generate, B!ImportKey, B!MayName, B!Named, BirthdayTyped
<1>2. Stands
  BY DEF B!Generate, B!ImportKey, Stands
<1>3. /\ s1 \in Nat /\ s2 = s1 /\ s3 \in Nat /\ s3 >= Started
      /\ s5 = B!NoTip \/ s5 \in Started .. s3
      /\ s6 \in [Names -> Accounts \cup {NoKey}] /\ s8 \in [Names -> Int] /\ s9 \in [Names -> Int]
      /\ Started \in Nat /\ Started >= 2 /\ Margin \in Nat
      /\ NoKey \notin Accounts /\ NoLabel \notin Names /\ Unset \in Int /\ Unset < 0
  BY BirthdayConstants DEF BirthdayTyped
<1>4. \/ s5 \in Started .. s3 /\ s8' = [s8 EXCEPT ![l] = s5] /\ s9' = s9 /\ k \notin Brought
      \/ s9' = [s9 EXCEPT ![l] = s1] /\ s8' = s8 /\ k \notin Brought
      \/ s8' = s8 /\ s9' = s9 /\ k \in Brought
  BY <1>3 DEF B!Generate, B!ImportKey, B!RememberBirthday
<1>5. k \notin Brought => s10[k] = Unset
  BY DEF B!Generate, B!ImportKey, Unset
<1>6. /\ s8' \in [Names -> Int] /\ s9' \in [Names -> Int]
      /\ \A n \in Names \ {l} : s8'[n] = s8[n] /\ s9'[n] = s9[n] /\ s6'[n] = s6[n]
      /\ s6'[l] = k
  BY <1>1, <1>3, <1>4
<1>7. \/ s8'[l] = Unset /\ s9'[l] = Unset /\ k \in Brought
      \/ s8'[l] = Unset /\ s9'[l] = s1 /\ k \notin Brought
      \/ s8'[l] = s5 /\ s5 \in Started .. s3 /\ s9'[l] = Unset /\ k \notin Brought
  BY <1>1, <1>3, <1>4
<1>8. BirthdayTyped'
  <2>1. s8'[l] = Unset \/ s8'[l] \in 2 .. s3
    BY <1>3, <1>7
  <2>2. s9'[l] = Unset \/ s9'[l] \in 0 .. s1
    BY <1>3, <1>7
  <2>3. s8'[l] = Unset \/ s9'[l] = Unset
    BY <1>7
  <2>4. s6' \in [Names -> Accounts \cup {NoKey}]
    BY <1>1, <1>3
  <2>5. s7' \in Names \cup {NoLabel} /\ (s7' # NoLabel => s6'[s7'] # NoKey)
    BY <1>1, <1>3, <1>6 DEF BirthdayTyped
  <2>6. \A n \in Names \ s12' : s6'[n] = NoKey /\ s8'[n] = Unset /\ s9'[n] = Unset
    BY <1>1, <1>6 DEF BirthdayTyped
  <2>7. \A n \in Names : s8'[n] = Unset \/ s8'[n] \in 2 .. s3
    BY <1>6, <2>1 DEF BirthdayTyped
  <2>8. \A n \in Names : s9'[n] = Unset \/ s9'[n] \in 0 .. s1
    BY <1>6, <2>2 DEF BirthdayTyped
  <2>9. \A n \in Names : s8'[n] = Unset \/ s9'[n] = Unset
    BY <1>6, <2>3 DEF BirthdayTyped
  <2>10. s12' \subseteq Names /\ Lead' = Lead
    BY <1>1, <1>2 DEF BirthdayTyped, Lead, Stands
  <2> QED
    BY <1>1, <1>2, <1>6, <2>4, <2>5, <2>6, <2>7, <2>8, <2>9, <2>10 DEF BirthdayTyped, Stands, Unset
<1>9. Skips'
  <2>1. Lead' = Lead
    BY <1>2 DEF Lead, Stands
  <2>2. ASSUME NEW n \in Names, s6'[n] # NoKey, s10'[s6'[n]] # Unset PROVE BelowPaid(n, s6[n])'
    <3>1. CASE n = l
      <4>1. s8'[n] = Unset /\ s9'[n] = Unset
        BY <1>2, <1>5, <1>6, <1>7, <2>2, <3>1 DEF Stands
      <4> QED
        BY <4>1 DEF BelowPaid, Unset
    <3>2. CASE n # l
      <4>1. BelowPaid(n, s6[n])
        BY <1>2, <1>6, <2>2, <3>2 DEF Skips, Stands
      <4> QED
        BY <1>2, <1>6, <2>1, <3>2, <4>1 DEF BelowPaid, Stands, Unset
    <3> QED
      BY <3>1, <3>2
  <2>3. B!SkipsNothing'
    BY <1>1, <1>2 DEF Skips, B!SkipsNothing, Stands
  <2> QED
    BY <2>2, <2>3 DEF Skips, Unset
<1>10. Rests'
  <2> SUFFICES ASSUME B!NeverRenamed'
               PROVE  /\ \A n \in Names : (s6[n] # NoKey /\ s6[n] \notin Brought =>
                            s9[n] # Unset \/ (s8[n] # Unset /\ Reaches(s8[n])))'
                      /\ \A a \in Accounts \ Brought : (s11[a] # Unset => Reaches(s11[a]))'
    BY DEF Rests, Unset
  <2>1. B!NeverRenamed
    <3>1. s12 \cup {l} = {n \in Names : s6'[n] # NoKey}
      <4>1. s12' = {n \in Names : s6'[n] # NoKey}
        BY DEF B!NeverRenamed
      <4> QED
        BY <1>1, <4>1
    <3>2. \A n \in Names : n \in s12 <=> s6[n] # NoKey
      BY <1>1, <1>3, <1>6, <3>1
    <3>3. s12 \subseteq Names
      BY DEF BirthdayTyped
    <3> QED
      BY <3>2, <3>3 DEF B!NeverRenamed
  <2>3. k \notin Brought => s9'[l] # Unset \/ (s8'[l] # Unset /\ s8'[l] >= Started - B!AtLeast(Margin, s1))
    <3>1. B!AtLeast(Margin, s1) \in Int /\ B!AtLeast(Margin, s1) >= Margin
      BY <1>3 DEF B!AtLeast
    <3> QED
      BY <1>3, <1>7, <3>1
  <2>4. \A n \in Names \ {l} : (s6'[n] # NoKey /\ s6'[n] \notin Brought =>
                                s9'[n] # Unset \/ (s8'[n] # Unset /\ s8'[n] >= Started - B!AtLeast(Margin, s1)))
    BY <1>6, <2>1 DEF Rests, Reaches
  <2>5. \A a \in Accounts \ Brought : s11'[a] # Unset => s11'[a] >= Started - B!AtLeast(Margin, s1)
    BY <1>1, <2>1 DEF Rests, Reaches
  <2>6. s1' = s1
    BY <1>2 DEF Stands
  <2> QED
    BY <1>6, <2>3, <2>4, <2>5, <2>6 DEF Reaches, Unset, B!AtLeast
<1> QED
  BY <1>8, <1>9, <1>10

\* A key gets another name, and leaves its birthday behind.
LEMMA RenameStep ==
    ASSUME BirthdayTyped, Skips, Rests, NEW l \in Names, NEW to \in Names, B!RenameKey(l, to)
    PROVE  BirthdayTyped' /\ Skips' /\ Rests'
<1>1. /\ s6[l] # NoKey /\ s6[to] = NoKey /\ to \notin s12 /\ s8[to] = Unset /\ s9[to] = Unset
      /\ s6' = [s6 EXCEPT ![to] = s6[l], ![l] = NoKey] /\ s12' = s12 \cup {to}
      /\ s7' = IF s7 = l THEN to ELSE s7
      /\ s8' = s8 /\ s9' = s9 /\ s11' = s11
  BY DEF B!RenameKey, B!MayName, BirthdayTyped
<1>2. Stands
  BY DEF B!RenameKey, Stands
<1>3. Lead' = Lead
  BY <1>2 DEF Lead, Stands
<1>4. s6 \in [Names -> Accounts \cup {NoKey}] /\ NoLabel \notin Names /\ l \in s12 /\ l # to
  BY <1>1, BirthdayConstants DEF BirthdayTyped
<1>5. /\ s6' \in [Names -> Accounts \cup {NoKey}] /\ s6'[l] = NoKey /\ s6'[to] = s6[l]
      /\ \A n \in Names \ {l, to} : s6'[n] = s6[n]
  BY <1>1, <1>4
<1>6. BirthdayTyped'
  <2>1. s7' \in Names \cup {NoLabel} /\ (s7' # NoLabel => s6'[s7'] # NoKey)
    BY <1>1, <1>4, <1>5 DEF BirthdayTyped
  <2>2. \A n \in Names \ s12' : s6'[n] = NoKey /\ s8'[n] = Unset /\ s9'[n] = Unset
    BY <1>1, <1>5 DEF BirthdayTyped
  <2>3. s12' \subseteq Names
    BY <1>1 DEF BirthdayTyped
  <2> QED
    BY <1>1, <1>2, <1>3, <1>5, <2>1, <2>2, <2>3 DEF BirthdayTyped, Stands, Unset
<1>7. Skips'
  <2>1. ASSUME NEW n \in Names, s6'[n] # NoKey, s10'[s6'[n]] # Unset PROVE BelowPaid(n, s6[n])'
    <3>1. CASE n = to
      BY <1>1, <3>1 DEF BelowPaid, Unset
    <3>2. CASE n # to
      <4>1. n # l /\ BelowPaid(n, s6[n])
        BY <1>2, <1>5, <2>1, <3>2 DEF Skips, Stands
      <4> QED
        BY <1>1, <1>2, <1>3, <1>5, <3>2, <4>1 DEF BelowPaid, Stands, Unset
    <3> QED
      BY <3>1, <3>2
  <2>2. B!SkipsNothing'
    BY <1>1, <1>2 DEF Skips, B!SkipsNothing, Stands
  <2> QED
    BY <2>1, <2>2 DEF Skips, Unset
<1>8. ~B!NeverRenamed'
  <2>1. s12' # {n \in Names : s6'[n] # NoKey}
    BY <1>1, <1>4, <1>5
  <2> QED
    BY <2>1 DEF B!NeverRenamed
<1> QED
  BY <1>6, <1>7, <1>8 DEF Rests

\* Another key becomes the active one.
LEMMA ActiveStep ==
    ASSUME BirthdayTyped, Skips, Rests, NEW l \in Names, B!SetActiveKey(l)
    PROVE  BirthdayTyped' /\ Skips' /\ Rests'
<1>1. /\ s6[l] # NoKey /\ s7' = l /\ s6' = s6 /\ s8' = s8 /\ s9' = s9 /\ s11' = s11 /\ s12' = s12
  BY DEF B!SetActiveKey
<1>2. Stands
  BY DEF B!SetActiveKey, Stands
<1>3. BirthdayTyped'
  BY <1>1, <1>2 DEF BirthdayTyped, Stands, Lead, Unset
<1>4. Skips'
  BY <1>1, <1>2 DEF Skips, B!SkipsNothing, BelowPaid, Stands, Lead, Unset
<1>5. Rests'
  BY <1>1, <1>2 DEF Rests, B!NeverRenamed, Reaches, Stands, Unset, B!AtLeast
<1> QED
  BY <1>3, <1>4, <1>5

\* A held scan is taken away.
LEMMA ForgetStep ==
    ASSUME BirthdayTyped, Skips, Rests, NEW k \in Accounts, B!Forget(k)
    PROVE  BirthdayTyped' /\ Skips' /\ Rests'
<1>1. /\ s11' = [s11 EXCEPT ![k] = Unset]
      /\ s6' = s6 /\ s7' = s7 /\ s8' = s8 /\ s9' = s9 /\ s12' = s12
  BY DEF B!Forget, Unset
<1>2. Stands
  BY DEF B!Forget, Stands
<1>3. s11' \in [Accounts -> Int] /\ \A a \in Accounts : s11'[a] = Unset \/ s11'[a] = s11[a]
  BY <1>1, BirthdayConstants DEF BirthdayTyped
<1>4. BirthdayTyped'
  <2>1. \A a \in Accounts : s11'[a] = Unset \/ s11'[a] \in 2 .. s3
    BY <1>3 DEF BirthdayTyped
  <2> QED
    BY <1>1, <1>2, <1>3, <2>1 DEF BirthdayTyped, Stands, Lead, Unset
<1>5. Skips'
  BY <1>1, <1>2, <1>3 DEF Skips, B!SkipsNothing, BelowPaid, Stands, Lead, Unset
<1>6. Rests'
  BY <1>1, <1>2, <1>3 DEF Rests, B!NeverRenamed, Reaches, Stands, Unset, B!AtLeast
<1> QED
  BY <1>4, <1>5, <1>6

\* A birthday that is settled: from a tip that was reported, back by the margin or the
\* fastest growth since, is not above the first payment, and not further below.
LEMMA BackIs ==
    ASSUME BirthdayTyped, NEW t \in Started .. s3, NEW c \in 0 .. s1
    PROVE  /\ B!Back(t, c) \in 2 .. s3
           /\ Reaches(B!Back(t, c))
           /\ \A p \in Int : p >= 2 /\ Lead + c + 2 <= 2 * Burst + 2 * p => B!Back(t, c) <= p
<1>1. /\ s1 \in Nat /\ s2 = s1 /\ s3 \in Nat /\ s3 >= Started /\ s4 \in Nat
      /\ Started \in Nat /\ Started >= 2 /\ Margin \in Nat /\ Burst \in Nat /\ 2 * Burst <= Margin + 2
  BY BirthdayConstants DEF BirthdayTyped
<1> DEFINE e == B!AtLeast(B!Elapsed(c), Margin)
<1>2. c \in Int /\ c <= s1 /\ c >= 0 /\ t \in Int /\ t <= s3 /\ t >= Started
  BY <1>1
<1>3. e \in Int /\ e >= s1 - c /\ e >= Margin /\ (e = Margin \/ e = s1 - c)
  <2>1. B!Elapsed(c) = s1 - c
    BY <1>1, <1>2 DEF B!Elapsed
  <2> QED
    BY <1>1, <1>2, <2>1 DEF B!AtLeast
<1> HIDE DEF e
<1>4. PICK b \in Int : b = B!Back(t, c)
  <2>1. B!AtLeast(t - e, 2) \in Int
    BY <1>2, <1>3 DEF B!AtLeast
  <2> QED
    BY <2>1 DEF B!Back, e
<1>5. b >= t - e /\ b >= 2 /\ (b = 2 \/ b = t - e)
  <2>1. b = B!AtLeast(t - e, 2)
    BY <1>4 DEF B!Back, e
  <2> QED
    BY <1>2, <1>3, <2>1 DEF B!AtLeast
<1>6. b \in 2 .. s3
  BY <1>1, <1>2, <1>3, <1>4, <1>5
<1>7. PICK m \in Int : m = B!AtLeast(Margin, s1) /\ m >= Margin /\ m >= s1
  BY <1>1 DEF B!AtLeast
<1>8. b >= Started - m
  BY <1>1, <1>2, <1>3, <1>4, <1>5, <1>7
<1>9. \A p \in Int : p >= 2 /\ Lead + c + 2 <= 2 * Burst + 2 * p => b <= p
  <2> SUFFICES ASSUME NEW p \in Int, p >= 2, Lead + c + 2 <= 2 * Burst + 2 * p PROVE b <= p
    OBVIOUS
  <2>1. 2 * s3 + s4 - s1 + c + 2 <= 2 * Burst + 2 * p
    BY DEF Lead
  <2>2. 2 * s3 <= 2 * p + (s1 - c) + Margin
    BY <1>1, <1>2, <2>1
  <2>3. s3 <= p + e
    BY <1>1, <1>2, <1>3, <2>2
  <2> QED
    BY <1>1, <1>2, <1>3, <1>4, <1>5, <2>3
<1> QED
  BY <1>4, <1>6, <1>7, <1>8, <1>9 DEF Reaches

\* What settling leaves the active key lies below what it was paid, and is not too low.
LEMMA SettledIs ==
    ASSUME BirthdayTyped, Skips, Rests, s7 # NoLabel
    PROVE  LET b == B!Settled.known[s7]
               p == B!Settled.pending[s7]
               k == s6[s7]
           IN /\ B!Settled.known \in [Names -> Int] /\ B!Settled.pending \in [Names -> Int]
              /\ \A n \in Names \ {s7} : B!Settled.known[n] = s8[n] /\ B!Settled.pending[n] = s9[n]
              /\ b = Unset \/ b \in 2 .. s3
              /\ p = Unset \/ (p = s9[s7] /\ p \in 0 .. s1 /\ b = s8[s7])
              /\ b = Unset \/ p = Unset
              /\ s10[k] # Unset /\ b # Unset => b <= s10[k]
              /\ B!NeverRenamed /\ k \notin Brought => p # Unset \/ (b # Unset /\ Reaches(b))
<1> DEFINE b == B!Settled.known[s7]
           p == B!Settled.pending[s7]
           k == s6[s7]
<1>1. /\ s7 \in Names /\ k \in Accounts /\ k # NoKey
      /\ s8 \in [Names -> Int] /\ s9 \in [Names -> Int]
      /\ s8[s7] = Unset \/ s8[s7] \in 2 .. s3
      /\ s9[s7] = Unset \/ s9[s7] \in 0 .. s1
      /\ s8[s7] = Unset \/ s9[s7] = Unset
      /\ s5 = B!NoTip \/ s5 \in Started .. s3
      /\ s10[k] = Unset \/ s10[k] \in 2 .. s3
      /\ Unset \in Int /\ B!NoTip = 0
  BY BirthdayConstants DEF BirthdayTyped
<1>2. s10[k] # Unset => BelowPaid(s7, k)
  BY <1>1 DEF Skips
<1>3. B!NeverRenamed /\ k \notin Brought => s9[s7] # Unset \/ (s8[s7] # Unset /\ Reaches(s8[s7]))
  BY <1>1 DEF Rests
<1>4. CASE ~(s9[s7] # Unset /\ s5 # B!NoTip)
  <2>1. B!Settled = [known |-> s8, pending |-> s9]
    BY <1>4 DEF B!Settled, Unset
  <2>2. b = s8[s7] /\ p = s9[s7] /\ B!Settled.known = s8 /\ B!Settled.pending = s9
    BY <2>1
  <2>3. s10[k] # Unset /\ b # Unset => b <= s10[k]
    BY <1>2, <2>2 DEF BelowPaid
  <2> QED
    BY <1>1, <1>3, <2>2, <2>3
<1>5. CASE s9[s7] # Unset /\ s5 # B!NoTip
  <2> DEFINE h == B!Back(s5, s9[s7])
  <2>1. s5 \in Started .. s3 /\ s9[s7] \in 0 .. s1
    BY <1>1, <1>5
  <2>2. /\ h \in 2 .. s3 /\ Reaches(h)
        /\ \A q \in Int : q >= 2 /\ Lead + s9[s7] + 2 <= 2 * Burst + 2 * q => h <= q
    BY <2>1, BackIs
  <2>3. B!Settled = [known |-> [s8 EXCEPT ![s7] = h], pending |-> [s9 EXCEPT ![s7] = Unset]]
    BY <1>5 DEF B!Settled, Unset
  <2> HIDE DEF h
  <2>4. B!Settled.known = [s8 EXCEPT ![s7] = h] /\ B!Settled.pending = [s9 EXCEPT ![s7] = Unset]
    BY <2>3
  <2>5. h \in Int /\ h # Unset /\ h \in 2 .. s3
    BY <2>2, BirthdayConstants
  <2>6. b = h /\ p = Unset
    BY <1>1, <2>4
  <2>7. B!Settled.known \in [Names -> Int] /\ B!Settled.pending \in [Names -> Int]
        /\ \A n \in Names \ {s7} : B!Settled.known[n] = s8[n] /\ B!Settled.pending[n] = s9[n]
    BY <1>1, <2>4, <2>5
  <2>8. s10[k] # Unset => h <= s10[k]
    <3> HIDE DEF k
    <3>1. s10[k] # Unset => s10[k] \in Int /\ s10[k] >= 2
      BY <1>1
    <3>2. s10[k] # Unset => Lead + s9[s7] + 2 <= 2 * Burst + 2 * s10[k]
      BY <1>2, <1>5 DEF BelowPaid
    <3> QED
      BY <2>2, <3>1, <3>2
  <2> QED
    BY <2>2, <2>5, <2>6, <2>7, <2>8
<1> QED
  BY <1>4, <1>5

\* A scan settles the birthday of the active key, and may start.
LEMMA ScanStep ==
    ASSUME BirthdayTyped, Skips, Rests, B!ScanShielded PROVE BirthdayTyped' /\ Skips' /\ Rests'
<1> DEFINE b == B!Settled.known[s7]
           p == B!Settled.pending[s7]
           k == s6[s7]
<1>1. /\ s7 # NoLabel /\ s6' = s6 /\ s7' = s7 /\ s12' = s12
      /\ s8' = B!Settled.known /\ s9' = B!Settled.pending
      /\ IF s11[k] = Unset /\ (b # Unset \/ p = Unset)
         THEN s11' = [s11 EXCEPT ![k] = B!Start(b)] ELSE s11' = s11
  BY DEF B!ScanShielded, Unset
<1>2. Stands
  BY DEF B!ScanShielded, Stands
<1>3. /\ B!Settled.known \in [Names -> Int] /\ B!Settled.pending \in [Names -> Int]
      /\ \A n \in Names \ {s7} : B!Settled.known[n] = s8[n] /\ B!Settled.pending[n] = s9[n]
      /\ b = Unset \/ b \in 2 .. s3
      /\ p = Unset \/ (p = s9[s7] /\ p \in 0 .. s1 /\ b = s8[s7])
      /\ b = Unset \/ p = Unset
      /\ s10[k] # Unset /\ b # Unset => b <= s10[k]
      /\ B!NeverRenamed /\ k \notin Brought => p # Unset \/ (b # Unset /\ Reaches(b))
  BY <1>1, SettledIs
<1>4. s8'[s7] = b /\ s9'[s7] = p
      /\ \A n \in Names \ {s7} : s8'[n] = s8[n] /\ s9'[n] = s9[n]
  BY <1>1, <1>3
<1> HIDE DEF b, p
<1>5. /\ s7 \in Names /\ k \in Accounts /\ k # NoKey /\ s11 \in [Accounts -> Int]
      /\ s10[k] = Unset \/ s10[k] \in 2 .. s3
      /\ s3 \in Nat /\ s3 >= Started /\ Started \in Nat /\ Started >= 2 /\ Unset \in Int /\ Unset < 0
  BY <1>1, BirthdayConstants DEF BirthdayTyped
\* Where a first scan starts.
<1>6. /\ B!Start(b) \in 2 .. s3 /\ (b # Unset => B!Start(b) = b)
      /\ s10[k] # Unset => B!Start(b) <= s10[k]
  <2>1. CASE b = Unset
    <3>1. B!Start(b) = 2
      BY <2>1 DEF B!Start, Unset, B!AtLeast, B!Activation
    <3> QED
      BY <1>5, <2>1, <3>1
  <2>2. CASE b # Unset
    <3>1. b \in 2 .. s3
      BY <1>3, <2>2
    <3>2. B!Start(b) = B!AtLeast(b, 2)
      BY <2>2 DEF B!Start, Unset
    <3>3. B!Start(b) = b
      BY <1>5, <3>1, <3>2 DEF B!AtLeast
    <3> QED
      BY <1>3, <2>2, <3>1, <3>3
  <2> QED
    BY <2>1, <2>2
<1>7. /\ s11' \in [Accounts -> Int]
      /\ \A a \in Accounts \ {k} : s11'[a] = s11[a]
      /\ \/ s11'[k] = s11[k]
         \/ s11'[k] = B!Start(b) /\ (b # Unset \/ p = Unset)
  BY <1>1, <1>5, <1>6
<1>8. BirthdayTyped'
  <2>1. \A n \in Names : s8'[n] = Unset \/ s8'[n] \in 2 .. s3
    BY <1>3, <1>4 DEF BirthdayTyped
  <2>2. \A n \in Names : s9'[n] = Unset \/ s9'[n] \in 0 .. s1
    BY <1>3, <1>4 DEF BirthdayTyped
  <2>3. \A n \in Names : s8'[n] = Unset \/ s9'[n] = Unset
    BY <1>3, <1>4 DEF BirthdayTyped
  <2>4. \A a \in Accounts : s11'[a] = Unset \/ s11'[a] \in 2 .. s3
    BY <1>6, <1>7 DEF BirthdayTyped
  <2>5. s7 \in s12
    BY <1>5 DEF BirthdayTyped
  <2>6. \A n \in Names \ s12 : s8'[n] = Unset /\ s9'[n] = Unset
    BY <1>4, <2>5 DEF BirthdayTyped
  <2> QED
    BY <1>1, <1>2, <1>3, <1>7, <2>1, <2>2, <2>3, <2>4, <2>6 DEF BirthdayTyped, Stands, Lead, Unset
<1>9. Skips'
  <2>1. Lead' = Lead
    BY <1>2 DEF Lead, Stands
  <2>2. ASSUME NEW n \in Names, s6[n] # NoKey, s10[s6[n]] # Unset PROVE BelowPaid(n, s6[n])'
    <3>1. BelowPaid(n, s6[n])
      BY <2>2 DEF Skips
    <3>2. CASE n = s7
      <4>1. s8'[n] # Unset => s8'[n] <= s10[s6[n]]
        BY <1>3, <1>4, <2>2, <3>2
      <4>2. s9'[n] # Unset => s9'[n] = s9[n]
        BY <1>3, <1>4, <3>2
      <4> QED
        BY <1>1, <1>2, <2>1, <3>1, <4>1, <4>2 DEF BelowPaid, Stands, Unset
    <3>3. CASE n # s7
      <4>1. s8'[n] = s8[n] /\ s9'[n] = s9[n]
        BY <1>4, <3>3
      <4> QED
        BY <1>1, <1>2, <2>1, <3>1, <4>1 DEF BelowPaid, Stands, Unset
    <3> QED
      BY <3>2, <3>3
  <2>3. B!SkipsNothing'
    <3>1. \A a \in Accounts : s11'[a] # Unset /\ s10[a] # Unset => s11'[a] <= s10[a]
      BY <1>6, <1>7 DEF Skips, B!SkipsNothing, Unset
    <3> QED
      BY <1>2, <3>1 DEF B!SkipsNothing, Stands, Unset
  <2> QED
    BY <1>1, <1>2, <2>2, <2>3 DEF Skips, Stands, Unset
<1>10. Rests'
  <2>1. CASE B!NeverRenamed
    <3>1. \A n \in Names : s6[n] # NoKey /\ s6[n] \notin Brought =>
              s9'[n] # Unset \/ (s8'[n] # Unset /\ Reaches(s8'[n]))
      BY <1>3, <1>4, <2>1 DEF Rests, Reaches
    <3>2. k \notin Brought /\ s11'[k] # Unset => Reaches(s11'[k])
      <4>1. CASE s11'[k] = s11[k]
        BY <1>5, <2>1, <4>1 DEF Rests, Reaches
      <4>2. CASE s11'[k] = B!Start(b) /\ (b # Unset \/ p = Unset)
        BY <1>3, <1>6, <2>1, <4>2 DEF Reaches
      <4> QED
        BY <1>7, <4>1, <4>2
    <3>3. \A a \in Accounts \ Brought : s11'[a] # Unset => Reaches(s11'[a])
      BY <1>7, <2>1, <3>2 DEF Rests, Reaches
    <3> QED
      BY <1>1, <1>2, <3>1, <3>3 DEF Rests, Reaches, Stands, Unset, B!AtLeast
  <2>2. CASE ~B!NeverRenamed
    BY <1>1, <2>2 DEF Rests, B!NeverRenamed
  <2> QED
    BY <2>1, <2>2
<1> QED
  BY <1>8, <1>9, <1>10

\* Every step keeps what is said of birthdays and scans.
LEMMA BirthdayStep ==
    ASSUME BirthdayTyped, Skips, Rests, B!Next \/ UNCHANGED slots
    PROVE  BirthdayTyped' /\ Skips' /\ Rests'
<1>1. ~B!SetBack /\ ~B!Reorganise
  BY DEF B!SetBack, B!Reorganise
<1>2. \/ B!Pass \/ (\E k \in Accounts \cup {NoKey} : B!Mine(k))
      \/ (\E t \in B!Height : B!Report(t)) \/ UNCHANGED slots
      \/ B!ScanShielded
      \/ (\E l \in Names, k \in Accounts : B!Generate(l, k) \/ B!ImportKey(l, k))
      \/ (\E l, to \in Names : B!RenameKey(l, to))
      \/ (\E l \in Names : B!SetActiveKey(l))
      \/ (\E k \in Accounts : B!Forget(k))
  BY <1>1 DEF B!Next
<1> QED
  BY <1>2, GrowsIs, ChainStep, ScanStep, NameStep, RenameStep, ActiveStep, ForgetStep

\* What the invariants say of the first scans.
LEMMA BirthdaysAre ==
    ASSUME BirthdayTyped, Skips, Rests PROVE B!SkipsNothing /\ B!SkipsTheRest
  BY DEF Skips, Rests, Reaches, B!SkipsTheRest, B!SkipsNothing, Unset

-----------------------------------------------------------------------------
(* The run's properties *)

LocksInv == part = "locks" => LocksTyped /\ Holding

\* At the start.
LEMMA LocksInvInit == Init => LocksInv
  BY PartInit, LocksInit DEF LocksInv

\* And by every step.
LEMMA LocksInvStep == LocksInv /\ [Next]_vars => LocksInv'
<1> SUFFICES ASSUME LocksInv, [Next]_vars, part' = "locks" PROVE (LocksTyped /\ Holding)'
  BY DEF LocksInv
<1>1. LocksTyped /\ Holding /\ [L!Next]_(L!vars)
  BY PartStep DEF LocksInv
<1> QED
  BY <1>1, LocksStep

\* "The window in which a signing key exists is one operation" (Vault): whatever the
\* core and any number of workers are in the middle of, a key is in use only while
\* the wallet is unlocked; and every name the wallet has for a key still names it,
\* only words that were typed back count as backed up, and the shielded account is
\* the active key's, and gone with the data key.
THEOREM SecretsStayGuarded == Spec => []SecretsAreGuarded
<1>1. Init => VaultInv /\ LocksInv
  BY VaultInvInit, LocksInvInit
<1>2. VaultInv /\ LocksInv /\ [Next]_vars => VaultInv' /\ LocksInv'
  BY VaultInvStep, LocksInvStep
<1>3. VaultInv /\ LocksInv => SecretsAreGuarded
  <2>1. VaultInv /\ part = "vault" => V!ReferencesLive /\ V!BackedUpWasSeen /\ V!ShieldedIsActives
    BY VaultIsThat DEF VaultInv, PV!Refs
  <2>2. VaultInv /\ part = "created" =>
          N!ReferencesLive /\ N!BackedUpWasSeen /\ N!ShieldedFollowsActive
    BY CreatedIsThat DEF VaultInv, PN!Refs
  <2>3. LocksInv /\ part = "locks" => L!KeyOnlyWhileUnlocked
    BY HoldingIs DEF LocksInv
  <2> QED
    BY <2>1, <2>2, <2>3 DEF SecretsAreGuarded
<1> QED
  BY <1>1, <1>2, <1>3, PTL DEF Spec

PartsInv ==
    /\ part = "store" => StoreInv
    /\ part = "params" => ParamsInv
MarkedInv == part = "store" => RowsMarked

\* At the start.
LEMMA PartsInvInit == Init => PartsInv /\ MarkedInv
  BY PartInit, StoreInit, ParamsInit DEF PartsInv, MarkedInv

\* Every step keeps the databases and the parameter files in order.
LEMMA PartsInvStep ==
    ASSUME PartsInv, [Next]_vars
    PROVE  /\ PartsInv'
           /\ part = "store" => S!RowsStay /\ S!FutureIsUntouched
           /\ part = "params" => P!ProgressGrows
<1>1. part' = part
  BY PartStep
<1>2. ASSUME part = "store" PROVE StoreInv' /\ S!RowsStay /\ S!FutureIsUntouched
  <2>1. StoreInv /\ [S!Next]_(S!vars)
    BY <1>2, PartStep DEF PartsInv
  <2> QED
    BY <2>1, StoreStep
<1>3. ASSUME part = "params" PROVE ParamsInv' /\ P!ProgressGrows
  <2>1. ParamsInv /\ [P!Next]_(P!vars)
    BY <1>3, PartStep DEF PartsInv
  <2> QED
    BY <2>1, ParamsStep
<1> QED
  BY <1>1, <1>2, <1>3 DEF PartsInv

\* And the version of the cache telling of its rows.
LEMMA MarkedInvStep ==
    ASSUME S!NoTableBetween, PartsInv, MarkedInv, [Next]_vars
    PROVE  MarkedInv'
<1> SUFFICES ASSUME part' = "store" PROVE RowsMarked'
  BY DEF MarkedInv
<1>1. StoreInv /\ RowsMarked /\ [S!Next]_(S!vars)
  BY PartStep DEF PartsInv, MarkedInv
<1> QED
  BY <1>1, RowsMarkedStep

\* Whatever builds ran before, in any order, and wherever their starts ended: a build
\* that runs has the schema it was written for, and reads from the cache only what
\* it understands; a parameter file under its name is whole wherever a download
\* ended, and what was fetched is found (migrate.rs, params::fetch).
THEOREM SchemaStaysThere == Spec => []SchemaIsThere
<1>1. Init => PartsInv /\ MarkedInv
  BY PartsInvInit
<1>2. PartsInv /\ MarkedInv /\ [Next]_vars => PartsInv' /\ MarkedInv'
  BY PartsInvStep, MarkedInvStep, WalletAssumption
<1>3. PartsInv /\ MarkedInv => SchemaIsThere
  BY StoreIs, ParamsIs DEF PartsInv, MarkedInv, SchemaIsThere
<1> QED
  BY <1>1, <1>2, <1>3, PTL DEF Spec

ScansInv ==
    /\ part = "birthday" => BirthdayTyped /\ Skips /\ Rests
    /\ part = "nodes" => NodesTyped /\ ChosenIs /\ Fresh

\* At the start.
LEMMA ScansInvInit == Init => ScansInv
  BY PartInit, BirthdayInit, NodesInit DEF ScansInv

\* Every step keeps what is said of the birthdays and of the nodes.
LEMMA ScansInvStep ==
    ASSUME ScansInv, [Next]_vars
    PROVE  ScansInv' /\ (part = "nodes" => K!FailoverStaysOnChain)
<1>1. part' = part
  BY PartStep
<1>2. ASSUME part = "birthday" PROVE (BirthdayTyped /\ Skips /\ Rests)'
  <2>1. BirthdayTyped /\ Skips /\ Rests /\ [B!Next]_(B!vars)
    BY <1>2, PartStep DEF ScansInv
  <2>2. B!Next \/ UNCHANGED slots
    BY <2>1 DEF B!vars, slots
  <2> QED
    BY <2>1, <2>2, BirthdayStep
<1>3. ASSUME part = "nodes" PROVE (NodesTyped /\ ChosenIs /\ Fresh)' /\ K!FailoverStaysOnChain
  <2>1. NodesTyped /\ ChosenIs /\ Fresh /\ [K!Next]_(K!vars)
    BY <1>3, PartStep DEF ScansInv
  <2> QED
    BY <2>1, NodesStep
<1> QED
  BY <1>1, <1>2, <1>3 DEF ScansInv

\* "Scanning less costs somebody their money, quietly" (light_birthday): for as long
\* as the chain runs no further ahead of its target than the margin allows, no first
\* scan starts above the first payment to its key, and none of a key made here
\* further below than the chain can have grown; and when nothing is being read, the
\* figures are of the node that was chosen and of the height it is said to have.
THEOREM NothingIsSkipped == Spec => []SkipsNothing
<1>1. ScansInv => SkipsNothing
  BY BirthdaysAre, NodesAre DEF ScansInv, SkipsNothing
<1> QED
  BY <1>1, ScansInvInit, ScansInvStep, PTL DEF Spec

\* A step of this run, as long as the wallet file can be read, takes no row of the
\* user's, leaves an older build's hands off the settings of a newer one, unsays no
\* backup, leaves the requested chain by no failover, and takes no progress back.
THEOREM WhatIsWrittenIsNotUnsaid == ASSUME ~ReadsFail PROVE Spec => WhatIsWrittenStays
<1> DEFINE Inv == VaultInv /\ FileInv /\ PartsInv /\ ScansInv
           Kept == /\ part = "store" => S!RowsStay /\ S!FutureIsUntouched
                   /\ part = "vault" => V!FlagStays
                   /\ part = "nodes" => K!FailoverStaysOnChain
                   /\ part = "params" => P!ProgressGrows
<1>1. Init => Inv
  BY VaultInvInit, PartsInvInit, ScansInvInit
<1>2. ASSUME Inv, [Next]_vars PROVE Inv' /\ Kept
  BY <1>2, VaultInvStep, FileInvStep, PartsInvStep, ScansInvStep
<1>3. Inv /\ [Next]_vars => Inv' /\ [Kept]_vars
  BY <1>2
<1>4. WhatIsWrittenStays <=> [][Kept]_vars
  BY DEF WhatIsWrittenStays
<1> HIDE DEF Kept, Inv
<1> QED
  BY <1>1, <1>3, <1>4, PTL DEF Spec

-----------------------------------------------------------------------------
(* The types *)

\* The chain comes no further than the bound on its height.
LEMMA BirthdayTypes == ASSUME BirthdayTyped PROVE B!TypeOK
<1>1. /\ s1 \in Nat /\ s2 = s1 /\ s1 <= MaxTime /\ s3 \in Nat /\ s3 >= Started /\ s4 \in 0 .. 2 * Burst
      /\ Started \in Nat /\ Started >= 2 /\ Burst \in Nat /\ MaxTime \in Nat
      /\ s5 = 0 \/ s5 \in Started .. s3
  BY BirthdayConstants DEF BirthdayTyped
<1>2. s3 <= B!Highest /\ B!Highest \in Nat
  <2>1. 2 * s3 + s4 - s1 <= 2 * Burst + 2 * Started
    BY DEF BirthdayTyped, Lead
  <2> DEFINE half == MaxTime \div 2
  <2>2. half \in Nat /\ MaxTime <= 2 * half + 1
    BY <1>1
  <2> HIDE DEF half
  <2>3. s3 <= Started + half + Burst
    BY <1>1, <2>1, <2>2
  <2> QED
    BY <1>1, <2>2, <2>3 DEF B!Highest, half
<1>3. s3 \in B!Height /\ s5 \in B!Height /\ 2 .. s3 \subseteq 2 .. B!Highest /\ 2 .. s3 \subseteq B!Height
      /\ 0 .. s1 \subseteq 0 .. MaxTime /\ s1 \in 0 .. MaxTime
  BY <1>1, <1>2 DEF B!Height
<1>4. /\ s6 \in [Names -> Accounts \cup {NoKey}] /\ s7 \in Names \cup {NoLabel} /\ s12 \subseteq Names
      /\ s8 \in [Names -> (2 .. s3) \cup {Unset}] /\ s9 \in [Names -> (0 .. s1) \cup {Unset}]
      /\ s10 \in [Accounts -> (2 .. s3) \cup {Unset}] /\ s11 \in [Accounts -> (2 .. s3) \cup {Unset}]
  BY DEF BirthdayTyped
<1>5. /\ s8 \in [Names -> (2 .. B!Highest) \cup {Unset}] /\ s9 \in [Names -> (0 .. MaxTime) \cup {Unset}]
      /\ s10 \in [Accounts -> B!Height \cup {Unset}] /\ s11 \in [Accounts -> (2 .. B!Highest) \cup {Unset}]
  BY <1>3, <1>4
<1> QED
  BY <1>1, <1>3, <1>4, <1>5 DEF B!TypeOK, Unset

\* No more probes are under way than there may be.
ProbeBound == IsFiniteSet(s6) /\ Cardinality(s6) <= MaxProbes

\* Nodes counts as this module does.
LEMMA SameCardinality == \A set : K!Cardinality(set) = Cardinality(set)
  BY DEF K!Cardinality, Cardinality

\* At the start there are none.
LEMMA ProbeBoundInit == ASSUME K!Init PROVE ProbeBound
<1>1. s6 = {} /\ MaxProbes \in Nat
  BY WalletAssumption DEF K!Init, K!NodesAssumption
<1> QED
  BY <1>1, FS_EmptySet DEF ProbeBound

\* No step asks more nodes than may be asked at once.
LEMMA ProbeBoundStep ==
    ASSUME NodesTyped, ProbeBound, [K!Next]_(K!vars)
    PROVE  ProbeBound'
<1>1. IsFiniteSet(s6) /\ Cardinality(s6) \in Nat /\ Cardinality(s6) <= MaxProbes /\ MaxProbes \in Nat
  BY WalletAssumption, FS_CardinalityType DEF ProbeBound, K!NodesAssumption
<1>2. CASE s6' = s6
  BY <1>2 DEF ProbeBound
<1>3. CASE s6' = {}
  BY <1>1, <1>3, FS_EmptySet DEF ProbeBound
<1>4. ASSUME NEW p \in s6, s6' = s6 \ {p} PROVE ProbeBound'
  <2>1. IsFiniteSet(s6') /\ Cardinality(s6') = Cardinality(s6) - 1
    BY <1>1, <1>4, FS_RemoveElement
  <2> QED
    BY <1>1, <2>1 DEF ProbeBound
<1>5. CASE K!PollTip
  <2> DEFINE a == K!Asked(s3, TRUE)
  <2>1. Cardinality(s6) < MaxProbes /\ s6' = s6 \cup {a}
    BY <1>5, SameCardinality DEF K!PollTip
  <2> HIDE DEF a
  <2>2. /\ IsFiniteSet(s6 \cup {a})
        /\ Cardinality(s6 \cup {a}) = IF a \in s6 THEN Cardinality(s6) ELSE Cardinality(s6) + 1
    BY <1>1, FS_AddElement
  <2> QED
    BY <1>1, <2>1, <2>2 DEF ProbeBound
<1>6. CASE K!ProbeInactive
  <2> DEFINE new == {K!Asked(n, FALSE) : n \in K!Others}
  <2>1. Cardinality(s6) + Cardinality(K!Others) <= MaxProbes /\ s6' = s6 \cup new
    BY <1>6, SameCardinality DEF K!ProbeInactive
  <2>2. IsFiniteSet(K!Others)
    <3>1. DOMAIN s1 = 1 .. Len(s1) /\ Len(s1) \in Nat /\ DOMAIN s2 = DOMAIN s1
      BY NodeListIs DEF NodesTyped
    <3>2. IsFiniteSet(1 .. Len(s1)) /\ K!Others \subseteq 1 .. Len(s1)
      BY <3>1, FS_Interval DEF K!Others
    <3> QED
      BY <3>2, FS_Subset
  <2>3. IsFiniteSet(new) /\ Cardinality(new) <= Cardinality(K!Others)
    <3> DEFINE f == [n \in K!Others |-> K!Asked(n, FALSE)]
    <3>1. f \in Surjection(K!Others, new)
      BY DEF Surjection
    <3> HIDE DEF f, new
    <3> QED
      BY <2>2, <3>1, FS_Surjection
  <2> HIDE DEF new
  <2>4. /\ IsFiniteSet(s6 \cup new) /\ IsFiniteSet(s6 \cap new)
        /\ Cardinality(s6 \cup new) = Cardinality(s6) + Cardinality(new) - Cardinality(s6 \cap new)
    BY <1>1, <2>3, FS_Union, FS_Intersection
  <2>5. Cardinality(new) \in Nat /\ Cardinality(s6 \cap new) \in Nat /\ Cardinality(K!Others) \in Nat
    BY <2>2, <2>3, <2>4, FS_CardinalityType
  <2> QED
    BY <1>1, <2>1, <2>3, <2>4, <2>5 DEF ProbeBound
<1>7. CASE UNCHANGED K!vars
  BY <1>2, <1>7 DEF K!vars
<1>8. CASE K!Next
  <2>1. \/ s6' = s6 \/ s6' = {} \/ K!PollTip \/ K!ProbeInactive
        \/ (\E p \in s6 : s6' = s6 \ {p})
    BY <1>8 DEF K!Next, K!SelectNode, K!Restart, K!Unlock, K!Lock, K!FinishRefresh, K!ProbeAll,
                K!FinishTip, K!Grow
  <2> QED
    BY <1>2, <1>3, <1>4, <1>5, <1>6, <2>1
<1> QED
  BY <1>7, <1>8

\* With that bound, the types.
LEMMA NodesTypes == ASSUME NodesTyped, ProbeBound PROVE K!TypeOK
<1>1. \A n \in DOMAIN s2 : /\ s2[n].status \in K!Status
                           /\ s2[n].status = "online" => s2[n].network = "ours"
                           /\ s2[n].retry > 0 <=> s2[n].status = "offline"
  BY DEF NodesTyped, Known, Node
<1>2. K!NetworkVm.syncing => K!NetworkVm.nodes[s3].status = "degraded"
  <2>1. K!NetworkVm.syncing = (s2[s3].status = "syncing")
    BY DEF K!NetworkVm
  <2>2. s3 \in DOMAIN s2
    BY DEF NodesTyped
  <2>3. K!NetworkVm.nodes[s3].status = K!Label(s2[s3].status)
    BY <2>2 DEF K!NetworkVm, K!NodeVm
  <2>4. s2[s3].status = "syncing" => K!Label(s2[s3].status) = "degraded"
    BY DEF K!Label
  <2> QED
    BY <2>1, <2>3, <2>4
<1> QED
  BY <1>1, <1>2, SameCardinality DEF NodesTyped, ProbeBound, K!TypeOK

\* The types of the locks.
LEMMA LocksTypes == ASSUME LocksTyped PROVE L!TypeOK
<1>1. DOMAIN L!CoreOps = Ops
  BY DEF L!CoreOps, Ops
<1> QED
  BY <1>1 DEF LocksTyped, L!TypeOK, L!Idle

\* The types of the files and of a call.
LEMMA ParamsTypes == ASSUME ParamsInv PROVE P!TypeOK
<1>1. \A d \in 1 .. Places, f \in P!File : s1[d][f].len \in 0 .. Size[f]
  <2>1. \A d \in 1 .. Places, f \in P!File : s1[d][f] \in File /\ s1[d][f].len <= Size[f] /\ Size[f] \in Nat
    BY SizesAre DEF ParamsInv, FilesWhole
  <2> QED
    BY <2>1 DEF File
<1>2. \A f \in P!File : s2[f].len \in 0 .. Size[f]
  <2>1. \A f \in P!File : s2[f] \in File /\ s2[f].len <= Size[f] /\ Size[f] \in Nat
    BY SizesAre DEF ParamsInv, FilesWhole
  <2> QED
    BY <2>1 DEF File
<1>3. /\ s3 # "" => s3 \in P!File /\ s2[s3].len = s4
      /\ s5 \in 0 .. P!Total
      /\ s6 \in {"", "loaded", "not the ceremony's", "missing", "failed"}
  BY DEF ParamsInv, CallsEnd, AsFar
<1> QED
  BY <1>1, <1>2, <1>3, Zenon DEF P!TypeOK

TypesInv ==
    /\ VaultInv /\ LocksInv /\ PartsInv /\ ScansInv
    /\ part = "store" => StoreBounds
    /\ part = "nodes" => ProbeBound

\* The bounds hold at the start.
LEMMA StoreBoundsInit == ASSUME S!Init PROVE StoreBounds
<1>1. s3 = 0 /\ s4.version = 0 /\ s6 \in 0 .. MaxStarts
  BY WalletAssumption DEF S!Init, S!StoreOpenAssumption
<1>2. S!Newest \in Nat
  BY NewestIs
<1> QED
  BY <1>1, <1>2 DEF StoreBounds

\* Whatever part it is, and whatever values the constants have, every state of a
\* behaviour has its types.
THEOREM PartsTyped == Spec => []TypeOK
<1>1. Init => TypesInv
  BY PartInit, VaultInvInit, LocksInvInit, PartsInvInit, ScansInvInit, StoreBoundsInit, ProbeBoundInit
     DEF TypesInv
<1>2. TypesInv /\ [Next]_vars => TypesInv'
  <2> SUFFICES ASSUME TypesInv, [Next]_vars PROVE TypesInv'
    OBVIOUS
  <2>1. VaultInv' /\ LocksInv' /\ PartsInv' /\ ScansInv' /\ part' = part
    BY VaultInvStep, LocksInvStep, PartsInvStep, ScansInvStep, PartStep DEF TypesInv
  <2>2. part = "store" => StoreBounds'
    BY PartStep, StoreBoundsStep DEF TypesInv, PartsInv
  <2>3. part = "nodes" => ProbeBound'
    BY PartStep, ProbeBoundStep DEF TypesInv, ScansInv
  <2> QED
    BY <2>1, <2>2, <2>3 DEF TypesInv
<1>3. TypesInv => TypeOK
  <2>1. VaultInv => (part = "vault" => V!TypeOK) /\ (part = "created" => N!TypeOK)
    BY VaultIsThat, CreatedIsThat DEF VaultInv, PV!Core, PN!Core
  <2>2. TypesInv => /\ part = "locks" => L!TypeOK
                    /\ part = "birthday" => B!TypeOK
                    /\ part = "store" => S!TypeOK
                    /\ part = "nodes" => K!TypeOK
                    /\ part = "params" => P!TypeOK
    BY LocksTypes, BirthdayTypes, StoreTypes, NodesTypes, ParamsTypes
       DEF TypesInv, LocksInv, ScansInv, PartsInv
  <2> QED
    BY <2>1, <2>2 DEF TypesInv, TypeOK
<1> QED
  BY <1>1, <1>2, <1>3, PTL DEF Spec
=============================================================================
