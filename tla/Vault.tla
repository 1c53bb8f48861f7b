-------------------------------- MODULE Vault --------------------------------
(* The wallet file and what the core knows of it: crates/pecu-keystore/src/   *)
(* vault.rs (the document, persist and its .bak), crates/pecu-core/src/       *)
(* wallet.rs (active key, backup in progress, shielded account) and the       *)
(* commands of lib.rs that call them. Ciphers, entropy and the words of a     *)
(* phrase are abstract: a key is a value, a passphrase is a value.            *)
(*                                                                            *)
(* Every command is one step of the core, but its writes are not: a write may *)
(* fail (FailsIn) and the process may end between the two writes of a new     *)
(* wallet (MayCrash).                                                         *)
EXTENDS Naturals, Sequences, FiniteSets

CONSTANTS
    Key, NoKey,       \* keys that are generated or brought in
    Label, NoLabel,   \* the names a key may have
    Main,             \* the label create_wallet and the app's import use
    Pass,             \* passphrases check_chosen lets through
    Write,            \* the operations that persist: "new", "add", "rename", "pass", "flag"
    FailsIn,          \* those among them whose write may fail
    Imports,          \* is ImportKey pressed?
    ReadsFail,        \* may reading the file fail when the program starts?
    MayCrash          \* may the process end between two writes?

VaultAssumption ==
    /\ NoKey \notin Key /\ NoLabel \notin Label /\ Main \in Label /\ "none" \notin Pass
    /\ FailsIn \subseteq Write /\ {Imports, ReadsFail, MayCrash} \subseteq BOOLEAN

VARIABLES
    up,        \* is the program running?
    file, bak, \* vault.json and vault.json.bak: a document, or none
    vault,     \* the document in memory (Wallet::vault), or none
    dek,       \* is the data key in memory, that is, is the wallet unlocked?
    active,    \* Wallet::active_key
    backup,    \* the phrase being shown and the label it is recorded under
    shielded,  \* whose shielded account is derived
    used,      \* keys that exist (in a wallet, or once in one)
    stored,    \* keys whose document was written
    proven     \* keys whose words were typed back

vars == <<up, file, bak, vault, dek, active, backup, shielded, used, stored, proven>>

Origin == {"generated", "phrase", "wif"}
Entry == [label : Label, key : Key, origin : Origin, backedUp : BOOLEAN]
NoDoc == [pass |-> "none", keys |-> <<>>]
NoBackup == [label |-> NoLabel, key |-> NoKey]

KeysIn(doc) == {doc.keys[i].key : i \in DOMAIN doc.keys}
LabelsIn(doc) == {doc.keys[i].label : i \in DOMAIN doc.keys}
At(doc, l) == CHOOSE i \in DOMAIN doc.keys : doc.keys[i].label = l
Exists(doc) == doc # NoDoc

\* persist: the file is copied to .bak, then replaced by a rename. A write that
\* fails leaves the file, and perhaps a fresh copy of it.
Copied(f, b) == IF Exists(f) THEN f ELSE b
Persisted(w, doc, f, b) ==
    {[file |-> doc, bak |-> Copied(f, b), ok |-> TRUE]}
        \cup {[file |-> f, bak |-> c, ok |-> FALSE] :
                 c \in IF w \in FailsIn THEN {b, Copied(f, b)} ELSE {}}

\* The files become what this write left.
Disk(r) == file' = r.file /\ bak' = r.bak /\ stored' = stored \cup KeysIn(r.file)

EmptyDoc(p) == [pass |-> p, keys |-> <<>>]
\* KeyEntry: only a key generated here has words nobody has seen.
EntryOf(l, k, o) == [label |-> l, key |-> k, origin |-> o, backedUp |-> o # "generated"]
WithKey(doc, l, k, o) == [doc EXCEPT !.keys = Append(@, EntryOf(l, k, o))]
Renamed(doc, from, to) == [doc EXCEPT !.keys[At(doc, from)].label = to]
Flagged(doc, l) == [doc EXCEPT !.keys[At(doc, l)].backedUp = TRUE]
WithPass(doc, p) == [doc EXCEPT !.pass = p]

\* refresh_shielded: derived from the active key's phrase; a WIF has none, and a
\* locked vault gives none.
AccountOf(doc, l) ==
    LET of == {i \in DOMAIN doc.keys : doc.keys[i].label = l /\ doc.keys[i].origin # "wif"}
    IN IF of = {} THEN NoKey ELSE doc.keys[CHOOSE i \in of : TRUE].key
FirstLabel(doc) == IF doc.keys = <<>> THEN NoLabel ELSE doc.keys[1].label
-----------------------------------------------------------------------------
Init ==
    /\ up = FALSE /\ file = NoDoc /\ bak = NoDoc /\ vault = NoDoc /\ dek = FALSE
    /\ active = NoLabel /\ backup = NoBackup /\ shielded = NoKey
    /\ used = {} /\ stored = {} /\ proven = {}

\* Wallet::open_or_absent: a file that cannot be read leaves the wallet absent.
Open(read) ==
    /\ ~up /\ (read \/ ReadsFail)
    /\ up' = TRUE /\ vault' = IF read THEN file ELSE NoDoc
    /\ active' = FirstLabel(vault')
    /\ UNCHANGED <<file, bak, dek, backup, shielded, used, stored, proven>>

\* The process ends, whenever it likes: what was in memory is gone.
Gone ==
    /\ up' = FALSE /\ vault' = NoDoc /\ dek' = FALSE /\ active' = NoLabel
    /\ backup' = NoBackup /\ shielded' = NoKey
Stop == up /\ Gone /\ UNCHANGED <<file, bak, used, stored, proven>>

\* It ends between the write of an empty vault and the write of its first key.
CrashHalfway(p) ==
    /\ up /\ MayCrash /\ ~Exists(vault) /\ Gone
    /\ Disk([file |-> EmptyDoc(p), bak |-> Copied(file, bak)]) /\ UNCHANGED <<used, proven>>
-----------------------------------------------------------------------------
\* The interface offers a new wallet only while the core says there is none.
MayCreate == ~Exists(vault)

\* Wallet::create: an empty vault is written, then its first key. If the second
\* write fails the vault is dropped, and the file stays.
Create(p, k) ==
    /\ up /\ MayCreate /\ k \notin used
    /\ \E new \in Persisted("new", EmptyDoc(p), file, bak) :
          IF ~new.ok
          THEN Disk(new) /\ UNCHANGED <<vault, dek, active, backup, shielded, used>>
          ELSE \E add \in Persisted("add", WithKey(EmptyDoc(p), Main, k, "generated"),
                                    new.file, new.bak) :
                  /\ Disk(add) /\ used' = used \cup {k}
                  /\ IF add.ok
                     THEN /\ vault' = add.file /\ dek' = TRUE /\ active' = Main
                          /\ backup' = [label |-> Main, key |-> k]
                          /\ shielded' = AccountOf(vault', active')
                     ELSE UNCHANGED <<vault, dek, active, backup, shielded>>
    /\ UNCHANGED <<up, proven>>

\* Vault::add_key: the entry is in the document before it is written, and stays
\* there when the write fails.
Added(doc, l, k, o, f, b) ==
    /\ vault' = WithKey(doc, l, k, o) /\ used' = used \cup {k}
    /\ \E add \in Persisted("add", vault', f, b) :
          /\ Disk(add)
          /\ active' = IF add.ok /\ active = NoLabel /\ o # "generated" THEN l ELSE active
          /\ backup' = IF add.ok /\ o = "generated" THEN [label |-> l, key |-> k] ELSE backup

\* Wallet::import: a vault of its own if there is none yet, and only for a key
\* prepare took. A key that was lost may be brought in again.
Import(p, k, o) ==
    /\ up /\ Imports /\ o # "generated" /\ k \notin KeysIn(vault)
    /\ IF Exists(vault)
       THEN /\ dek /\ Main \notin LabelsIn(vault)
            /\ Added(vault, Main, k, o, file, bak) /\ UNCHANGED dek
       ELSE \E new \in Persisted("new", EmptyDoc(p), file, bak) :
               IF new.ok
               THEN Added(EmptyDoc(p), Main, k, o, new.file, new.bak) /\ dek' = TRUE
               ELSE Disk(new) /\ UNCHANGED <<vault, dek, active, backup, used>>
    /\ UNCHANGED <<up, shielded, proven>>

\* add_key: one backup at a time.
AddKey(l, k) ==
    /\ up /\ Exists(vault) /\ dek /\ backup = NoBackup
    /\ k \notin used /\ l \notin LabelsIn(vault)
    /\ Added(vault, l, k, "generated", file, bak)
    /\ UNCHANGED <<up, dek, shielded, proven>>

\* Mutant: what pointed at the old name still does.
RenameKeyAlone(from, to) ==
    /\ up /\ dek /\ from \in LabelsIn(vault) /\ to \notin LabelsIn(vault)
    /\ \E r \in Persisted("rename", Renamed(vault, from, to), file, bak) :
          Disk(r) /\ vault' = IF r.ok THEN r.file ELSE vault
    /\ UNCHANGED <<up, dek, active, backup, shielded, used, proven>>

\* Vault::rename_key and Wallet::rename_key: whatever pointed at the old name
\* points at the new one; a failed write puts the entry back.
RenameKey(from, to) ==
    /\ up /\ dek /\ from \in LabelsIn(vault) /\ to \notin LabelsIn(vault)
    /\ \E r \in Persisted("rename", Renamed(vault, from, to), file, bak) :
          /\ Disk(r)
          /\ IF r.ok
             THEN /\ vault' = r.file
                  /\ active' = IF active = from THEN to ELSE active
                  /\ backup' = IF backup.label = from THEN [backup EXCEPT !.label = to]
                               ELSE backup
             ELSE UNCHANGED <<vault, active, backup>>
    /\ UNCHANGED <<up, dek, shielded, used, proven>>

SetActiveKey(l) ==
    /\ up /\ l \in LabelsIn(vault) /\ active' = l
    /\ shielded' = IF dek THEN AccountOf(vault, l) ELSE NoKey
    /\ UNCHANGED <<up, file, bak, vault, dek, backup, used, stored, proven>>

\* Mutant: a failed write leaves the new wrapper in memory.
ChangePassphraseKept(old, new) ==
    /\ up /\ Exists(vault) /\ old = vault.pass /\ new # old /\ vault' = WithPass(vault, new)
    /\ \E r \in Persisted("pass", vault', file, bak) : Disk(r)
    /\ UNCHANGED <<up, dek, active, backup, shielded, used, proven>>

\* Vault::change_passphrase: needs the old one, not the data key; a failed write
\* puts the wrapper back.
ChangePassphrase(old, new) ==
    /\ up /\ Exists(vault) /\ old = vault.pass /\ new # old
    /\ \E r \in Persisted("pass", WithPass(vault, new), file, bak) :
          Disk(r) /\ vault' = IF r.ok THEN r.file ELSE vault
    /\ UNCHANGED <<up, dek, active, backup, shielded, used, proven>>
-----------------------------------------------------------------------------
\* begin_reveal: the passphrase itself is asked for; a WIF has no words.
RevealBackup(l, p) ==
    /\ up /\ l \in LabelsIn(vault) /\ p = vault.pass /\ AccountOf(vault, l) # NoKey
    /\ backup' = [label |-> l, key |-> AccountOf(vault, l)]
    /\ UNCHANGED <<up, file, bak, vault, dek, active, shielded, used, stored, proven>>

CancelBackup ==
    /\ up /\ backup # NoBackup /\ backup' = NoBackup
    /\ UNCHANGED <<up, file, bak, vault, dek, active, shielded, used, stored, proven>>

\* confirm_phrase: the words of k are typed. finish_backup flags the label's
\* entry and writes it, once; a failed write leaves the flag in memory.
ConfirmPhrase(k) ==
    /\ up /\ backup # NoBackup /\ k = backup.key
    /\ backup' = NoBackup /\ proven' = proven \cup {k}
    /\ IF \E i \in DOMAIN vault.keys : vault.keys[i].label = backup.label /\ ~vault.keys[i].backedUp
       THEN /\ vault' = Flagged(vault, backup.label)
            /\ \E r \in Persisted("flag", vault', file, bak) : Disk(r)
       ELSE UNCHANGED <<vault, file, bak, stored>>
    /\ UNCHANGED <<up, dek, active, shielded, used>>

Unlock(p) ==
    /\ up /\ Exists(vault) /\ p = vault.pass /\ ~dek
    /\ dek' = TRUE /\ shielded' = AccountOf(vault, active)
    /\ UNCHANGED <<up, file, bak, vault, active, backup, used, stored, proven>>

\* Lock and check_auto_lock: the phrase on screen goes with the data key.
Lock ==
    /\ up /\ (dek \/ backup # NoBackup)
    /\ dek' = FALSE /\ backup' = NoBackup /\ shielded' = NoKey
    /\ UNCHANGED <<up, file, bak, vault, active, used, stored, proven>>

Next ==
    \/ \E read \in BOOLEAN : Open(read)
    \/ Stop
    \/ \E p \in Pass : CrashHalfway(p)
    \/ \E p \in Pass, k \in Key : Create(p, k)
    \/ \E p \in Pass, k \in Key, o \in Origin : Import(p, k, o)
    \/ \E l \in Label, k \in Key : AddKey(l, k)
    \/ \E from, to \in Label : RenameKey(from, to)
    \/ \E l \in Label : SetActiveKey(l)
    \/ \E old, new \in Pass : ChangePassphrase(old, new)
    \/ \E l \in Label, p \in Pass : RevealBackup(l, p)
    \/ CancelBackup
    \/ \E k \in Key : ConfirmPhrase(k)
    \/ \E p \in Pass : Unlock(p)
    \/ Lock

Spec == Init /\ [][Next]_vars
-----------------------------------------------------------------------------
IsDoc(doc) ==
    \/ doc = NoDoc
    \/ /\ doc \in [pass : Pass, keys : Seq(Entry)]
       /\ \A i, j \in DOMAIN doc.keys :
             i # j => doc.keys[i].label # doc.keys[j].label /\ doc.keys[i].key # doc.keys[j].key

TypeOK ==
    /\ {up, dek} \subseteq BOOLEAN /\ IsDoc(file) /\ IsDoc(bak) /\ IsDoc(vault)
    /\ active \in Label \cup {NoLabel} /\ shielded \in Key \cup {NoKey}
    /\ backup \in [label : Label \cup {NoLabel}, key : Key \cup {NoKey}]
    /\ used \subseteq Key /\ stored \subseteq Key /\ proven \subseteq Key

\* What the file opens as: its passphrase and its keys under their names.
Opens(doc) == <<doc.pass, [i \in DOMAIN doc.keys |-> <<doc.keys[i].label, doc.keys[i].key>>]>>

\* "A vault whose memory says one passphrase and whose file says another is a
\* vault that stops opening after the next restart" (change_passphrase), and
\* "Nothing is half-renamed" (rename_key): whatever write fails, the wallet in
\* memory is the one a restart would open.
OpensAfterRestart == Exists(vault) => Opens(vault) = Opens(file)

\* "Could not change that key", "Could not import that key" (note.slint): a key
\* the wallet lists, and takes payments to, is in the file.
\* Does not hold if "add" is in FailsIn: add_key takes nothing back.
ListedIsWritten == KeysIn(vault) \subseteq KeysIn(file)

\* "keeping the previous good copy as .bak. A half-written vault is unrecoverable
\* and would destroy funds" (persist): a key that was written is in one of the two.
\* Does not hold if ReadsFail: a file that cannot be read is taken for none,
\* and create writes twice.
NoKeyLost == stored \subseteq KeysIn(file) \cup KeysIn(bak)

\* "Get that order wrong and a rejected phrase leaves an empty wallet file on
\* disk" (Wallet::import): a wallet file has a key in it.
\* Does not hold if MayCrash, or if FailsIn has the key's write: a vault is
\* created in two writes.
NoEmptyWallet == Exists(file) => file.keys # <<>>

\* active_key and the backup on screen are labels, and labels are renamed: each
\* still names the key it was set for.
ReferencesLive ==
    /\ active # NoLabel => active \in LabelsIn(vault)
    /\ backup # NoBackup =>
          \E i \in DOMAIN vault.keys : vault.keys[i].label = backup.label /\ vault.keys[i].key = backup.key

\* "Whether the phrase has been shown and confirmed written down" (KeyEntry): the
\* words of a key generated here were typed back before anything calls it backed up.
BackedUpWasSeen ==
    \A doc \in {vault, file, bak} : \A i \in DOMAIN doc.keys :
        doc.keys[i].backedUp /\ doc.keys[i].origin = "generated" => doc.keys[i].key \in proven

\* The shielded account shown and scanned for is the active key's, and none while
\* the wallet is locked ("dropped at the one where it must", Wallet::shielded).
ShieldedIsActives == shielded # NoKey => dek /\ shielded = AccountOf(vault, active)

\* "derived at the four moments it can change" (Wallet::shielded): an open wallet
\* with an active key has that key's account.
\* Does not hold if Imports: import does not derive it.
ShieldedFollowsActive == dek /\ active # NoLabel => shielded = AccountOf(vault, active)

\* "there is no mark_not_backed_up" (mark_backed_up): the file never unsays that a
\* key was backed up.
FlagStays ==
    \A i \in DOMAIN file.keys, j \in DOMAIN file'.keys :
        file.keys[i].key = file'.keys[j].key /\ file.keys[i].backedUp => file'.keys[j].backedUp
=============================================================================
