----------------------------- MODULE VaultProofs -----------------------------
(* Proofs about the wallet file (Vault.tla), for any keys, names and           *)
(* passphrases, and for any writes that fail: what is written stays, a        *)
(* restart opens what memory has, and every name still names its key.         *)
(*                                                                            *)
(* The invariant has parts, each with a step of its own: Core (types, and     *)
(* nothing in memory without a document), Kept and FlagsKept (memory has all  *)
(* the file has, which is why a write from memory loses nothing), Refs and    *)
(* the shielded account. What a write leaves is said once, by DiskIs, and     *)
(* what an operation leaves of the documents by a lemma of its name.          *)
EXTENDS Vault, TLAPS

Doc == [pass : Pass, keys : Seq(Entry)]

\* No label and no key twice.
Distinct(doc) ==
    \A i, j \in DOMAIN doc.keys :
        i # j => doc.keys[i].label # doc.keys[j].label /\ doc.keys[i].key # doc.keys[j].key

LEMMA DocIs == ASSUME NEW doc PROVE IsDoc(doc) <=> doc = NoDoc \/ (doc \in Doc /\ Distinct(doc))
  BY DEF IsDoc, Doc, Distinct

LEMMA NoDocIs == NoDoc.keys = <<>> /\ NoDoc.pass = "none" /\ KeysIn(NoDoc) = {} /\ LabelsIn(NoDoc) = {}
  BY DEF NoDoc, KeysIn, LabelsIn

LEMMA DocExists == ASSUME VaultAssumption, NEW doc \in Doc PROVE Exists(doc)
  BY DEF Doc, VaultAssumption, Exists, NoDoc

LEMMA EmptyDocIs ==
    ASSUME NEW p \in Pass
    PROVE  /\ EmptyDoc(p) \in Doc /\ Distinct(EmptyDoc(p))
           /\ KeysIn(EmptyDoc(p)) = {} /\ LabelsIn(EmptyDoc(p)) = {}
  BY DEF EmptyDoc, Doc, Distinct, KeysIn, LabelsIn

LEMMA DocDomain ==
    ASSUME NEW doc \in Doc
    PROVE  /\ DOMAIN doc.keys = 1 .. Len(doc.keys) /\ Len(doc.keys) \in Nat
           /\ \A i \in DOMAIN doc.keys : doc.keys[i] \in Entry
  BY DEF Doc

LEMMA AtFinds ==
    ASSUME NEW doc, NEW l \in LabelsIn(doc)
    PROVE  At(doc, l) \in DOMAIN doc.keys /\ doc.keys[At(doc, l)].label = l
  BY DEF At, LabelsIn

LEMMA WithKeyIs ==
    ASSUME NEW doc \in Doc, NEW l \in Label, NEW k \in Key, NEW o \in Origin
    PROVE  LET d == WithKey(doc, l, k, o) IN
           /\ d \in Doc /\ d.pass = doc.pass /\ Len(d.keys) = Len(doc.keys) + 1
           /\ \A i \in DOMAIN doc.keys : d.keys[i] = doc.keys[i]
           /\ d.keys[Len(doc.keys) + 1] = EntryOf(l, k, o)
           /\ DOMAIN d.keys = 1 .. Len(doc.keys) + 1
           /\ KeysIn(d) = KeysIn(doc) \cup {k} /\ LabelsIn(d) = LabelsIn(doc) \cup {l}
           /\ Distinct(doc) /\ k \notin KeysIn(doc) /\ l \notin LabelsIn(doc) => Distinct(d)
<1> DEFINE d == WithKey(doc, l, k, o)
<1>1. EntryOf(l, k, o) \in Entry
  BY DEF EntryOf, Entry
<1>2. d = [pass |-> doc.pass, keys |-> Append(doc.keys, EntryOf(l, k, o))]
  BY SMTT(20) DEF WithKey, Doc
<1>3. d \in Doc /\ d.pass = doc.pass /\ Len(d.keys) = Len(doc.keys) + 1
  BY <1>1, <1>2 DEF Doc
<1>4. /\ \A i \in DOMAIN doc.keys : d.keys[i] = doc.keys[i]
      /\ d.keys[Len(doc.keys) + 1] = EntryOf(l, k, o)
      /\ DOMAIN d.keys = 1 .. Len(doc.keys) + 1 /\ DOMAIN doc.keys = 1 .. Len(doc.keys)
  BY <1>1, <1>2 DEF Doc
<1>5. EntryOf(l, k, o).key = k /\ EntryOf(l, k, o).label = l
  BY DEF EntryOf
<1>6. KeysIn(d) = KeysIn(doc) \cup {k} /\ LabelsIn(d) = LabelsIn(doc) \cup {l}
  BY SMTT(20), <1>4, <1>5, DocDomain DEF KeysIn, LabelsIn
<1>7. Distinct(doc) /\ k \notin KeysIn(doc) /\ l \notin LabelsIn(doc) => Distinct(d)
  BY <1>4, <1>5, DocDomain DEF KeysIn, LabelsIn, Distinct
<1> QED
  BY <1>3, <1>4, <1>6, <1>7

LEMMA RenamedIs ==
    ASSUME NEW doc \in Doc, NEW from \in LabelsIn(doc), NEW to \in Label
    PROVE  LET d == Renamed(doc, from, to) IN
           /\ d \in Doc /\ d.pass = doc.pass /\ DOMAIN d.keys = DOMAIN doc.keys
           /\ \A i \in DOMAIN doc.keys :
                 d.keys[i] = IF i = At(doc, from) THEN [doc.keys[i] EXCEPT !.label = to]
                             ELSE doc.keys[i]
           /\ KeysIn(d) = KeysIn(doc)
           /\ Distinct(doc) /\ to \notin LabelsIn(doc) => Distinct(d)
<1> DEFINE d == Renamed(doc, from, to)  n == At(doc, from)
<1>1. n \in DOMAIN doc.keys /\ doc.keys[n].label = from
  BY AtFinds
<1>2. d = [pass |-> doc.pass, keys |-> [doc.keys EXCEPT ![n] = [doc.keys[n] EXCEPT !.label = to]]]
  BY DEF Renamed, Doc
<1>3. [doc.keys[n] EXCEPT !.label = to] \in Entry
  BY <1>1, DocDomain DEF Entry
<1>4. d \in Doc /\ d.pass = doc.pass
  BY <1>1, <1>2, <1>3 DEF Doc
<1>5. /\ DOMAIN d.keys = DOMAIN doc.keys
      /\ \A i \in DOMAIN doc.keys :
            d.keys[i] = IF i = n THEN [doc.keys[i] EXCEPT !.label = to] ELSE doc.keys[i]
  BY <1>1, <1>2, DocDomain DEF Doc
<1>6. \A i \in DOMAIN doc.keys :
        /\ d.keys[i].key = doc.keys[i].key
        /\ d.keys[i].label = IF i = n THEN to ELSE doc.keys[i].label
  BY <1>5, DocDomain DEF Entry
<1>7. KeysIn(d) = KeysIn(doc)
  BY <1>5, <1>6 DEF KeysIn
<1>8. Distinct(doc) /\ to \notin LabelsIn(doc) => Distinct(d)
  BY <1>5, <1>6 DEF Distinct, LabelsIn
<1> QED
  BY <1>4, <1>5, <1>7, <1>8

LEMMA FlagIs ==
    ASSUME NEW doc \in Doc, NEW n \in DOMAIN doc.keys, NEW v \in BOOLEAN,
           NEW d, d = [doc EXCEPT !.keys[n].backedUp = v]
    PROVE  /\ d \in Doc /\ d.pass = doc.pass /\ DOMAIN d.keys = DOMAIN doc.keys
           /\ \A i \in DOMAIN doc.keys :
                 /\ d.keys[i].label = doc.keys[i].label
                 /\ d.keys[i].key = doc.keys[i].key
                 /\ d.keys[i].origin = doc.keys[i].origin
                 /\ d.keys[i].backedUp = IF i = n THEN v ELSE doc.keys[i].backedUp
<1>2. d = [pass |-> doc.pass, keys |-> [doc.keys EXCEPT ![n] = [doc.keys[n] EXCEPT !.backedUp = v]]]
  BY ZenonT(40) DEF Doc
<1>3. [doc.keys[n] EXCEPT !.backedUp = v] \in Entry
  BY SMTT(20), DocDomain DEF Entry
<1>4. d \in Doc /\ d.pass = doc.pass
  BY SMTT(20), <1>2, <1>3 DEF Doc
<1>5. /\ DOMAIN d.keys = DOMAIN doc.keys
      /\ \A i \in DOMAIN doc.keys :
            d.keys[i] = IF i = n THEN [doc.keys[i] EXCEPT !.backedUp = v] ELSE doc.keys[i]
  BY <1>2, DocDomain DEF Doc
<1> QED
  BY <1>4, <1>5, DocDomain DEF Entry

LEMMA FlaggedIs ==
    ASSUME NEW doc \in Doc, NEW l \in LabelsIn(doc)
    PROVE  LET d == Flagged(doc, l) IN
           /\ d \in Doc /\ d.pass = doc.pass /\ DOMAIN d.keys = DOMAIN doc.keys
           /\ \A i \in DOMAIN doc.keys :
                 /\ d.keys[i].label = doc.keys[i].label
                 /\ d.keys[i].key = doc.keys[i].key
                 /\ d.keys[i].origin = doc.keys[i].origin
                 /\ doc.keys[i].backedUp => d.keys[i].backedUp
                 /\ d.keys[i].backedUp => i = At(doc, l) \/ doc.keys[i].backedUp
           /\ KeysIn(d) = KeysIn(doc) /\ LabelsIn(d) = LabelsIn(doc)
           /\ Distinct(doc) => Distinct(d)
<1> DEFINE d == Flagged(doc, l)  n == At(doc, l)
<1>1. n \in DOMAIN doc.keys
  BY AtFinds
<1>0. PICK v \in BOOLEAN : v = TRUE
  OBVIOUS
<1>2. d = [doc EXCEPT !.keys[n].backedUp = v]
  BY <1>0 DEF Flagged
<1> HIDE DEF d, n
<1>3. /\ d \in Doc /\ d.pass = doc.pass /\ DOMAIN d.keys = DOMAIN doc.keys
      /\ \A i \in DOMAIN doc.keys :
                 /\ d.keys[i].label = doc.keys[i].label
                 /\ d.keys[i].key = doc.keys[i].key
                 /\ d.keys[i].origin = doc.keys[i].origin
                 /\ d.keys[i].backedUp = IF i = n THEN v ELSE doc.keys[i].backedUp
  BY <1>1, <1>2, FlagIs
<1>4. KeysIn(d) = KeysIn(doc) /\ LabelsIn(d) = LabelsIn(doc) /\ (Distinct(doc) => Distinct(d))
  BY <1>3 DEF KeysIn, LabelsIn, Distinct
<1> QED
  BY <1>0, <1>3, <1>4 DEF d, n

LEMMA WithPassIs ==
    ASSUME NEW doc \in Doc, NEW p \in Pass
    PROVE  LET d == WithPass(doc, p) IN
           /\ d \in Doc /\ d.pass = p /\ d.keys = doc.keys
           /\ KeysIn(d) = KeysIn(doc) /\ LabelsIn(d) = LabelsIn(doc)
           /\ Distinct(doc) => Distinct(d)
  BY DEF WithPass, Doc, KeysIn, LabelsIn, Distinct

\* What a write leaves, whether it went through or not.
LEMMA PersistedIs ==
    ASSUME NEW w, NEW doc, NEW f, NEW b, NEW r \in Persisted(w, doc, f, b)
    PROVE  /\ r.ok \in BOOLEAN
           /\ r.ok => r.file = doc
           /\ ~r.ok => r.file = f /\ w \in FailsIn
           /\ r.file \in {doc, f} /\ r.bak \in {f, b}
<1>1. CASE r = [file |-> doc, bak |-> Copied(f, b), ok |-> TRUE]
  <2>1. r.file = doc /\ r.bak = Copied(f, b) /\ r.ok = TRUE
    BY <1>1, Zenon
  <2> QED
    BY <2>1 DEF Copied
<1>2. CASE \E c \in IF w \in FailsIn THEN {b, Copied(f, b)} ELSE {} :
              r = [file |-> f, bak |-> c, ok |-> FALSE]
  <2>1. PICK c \in IF w \in FailsIn THEN {b, Copied(f, b)} ELSE {} :
              r = [file |-> f, bak |-> c, ok |-> FALSE]
    BY <1>2
  <2>2. r.file = f /\ r.bak = c /\ r.ok = FALSE
    BY <2>1, Zenon
  <2>3. w \in FailsIn /\ c \in {f, b}
    BY <2>1 DEF Copied
  <2> QED
    BY <2>2, <2>3
<1> QED
  BY <1>1, <1>2, Zenon DEF Persisted

\* The same of the files themselves.
LEMMA DiskIs ==
    ASSUME NEW w, NEW doc, NEW f, NEW b, NEW r \in Persisted(w, doc, f, b), Disk(r)
    PROVE  /\ r.ok \in BOOLEAN /\ file' = r.file /\ bak' = r.bak
           /\ r.ok => file' = doc
           /\ ~r.ok => file' = f /\ w \in FailsIn
           /\ file' \in {doc, f} /\ bak' \in {f, b} /\ stored' = stored \cup KeysIn(file')
  BY PersistedIs DEF Disk

\* A label stands for one entry: the account is that entry's, or none.
LEMMA AccountIs ==
    ASSUME NEW doc, Distinct(doc), NEW l
    PROVE  /\ \A i \in DOMAIN doc.keys :
                 doc.keys[i].label = l =>
                     AccountOf(doc, l) = IF doc.keys[i].origin # "wif" THEN doc.keys[i].key ELSE NoKey
           /\ l \notin LabelsIn(doc) => AccountOf(doc, l) = NoKey
<1> DEFINE of == {i \in DOMAIN doc.keys : doc.keys[i].label = l /\ doc.keys[i].origin # "wif"}
<1>1. AccountOf(doc, l) = IF of = {} THEN NoKey ELSE doc.keys[CHOOSE i \in of : TRUE].key
  BY DEF AccountOf
<1>2. l \notin LabelsIn(doc) => of = {}
  BY DEF LabelsIn
<1>3. ASSUME NEW i \in DOMAIN doc.keys, doc.keys[i].label = l, doc.keys[i].origin # "wif"
      PROVE  of = {i}
  BY <1>3 DEF Distinct
<1>4. ASSUME NEW i \in DOMAIN doc.keys, doc.keys[i].label = l, doc.keys[i].origin = "wif"
      PROVE  of = {}
  BY <1>4 DEF Distinct
<1>5. ASSUME NEW i, of = {i}
      PROVE  (CHOOSE j \in of : TRUE) = i
  BY <1>5
<1> HIDE DEF of
<1> QED
  BY <1>1, <1>2, <1>3, <1>4, <1>5

\* An account is that of a key, or none.
LEMMA AccountType ==
    ASSUME VaultAssumption, NEW doc, IsDoc(doc), NEW l
    PROVE  AccountOf(doc, l) \in Key \cup {NoKey}
<1>1. CASE doc = NoDoc
  BY <1>1, NoDocIs DEF AccountOf
<1>2. CASE doc \in Doc /\ Distinct(doc)
  <2>1. l \in LabelsIn(doc) => \E i \in DOMAIN doc.keys : doc.keys[i].label = l
    BY DEF LabelsIn
  <2> QED
    BY <1>2, <2>1, AccountIs, DocDomain DEF Entry
<1> QED
  BY <1>1, <1>2, DocIs

\* Vault::add_key: the document has one key more, and the file is this document
\* or what it was.
LEMMA AddedIs ==
    ASSUME VaultAssumption, NEW doc \in Doc, Distinct(doc), NEW l \in Label \ LabelsIn(doc),
           NEW k \in Key \ KeysIn(doc), NEW o \in Origin, NEW f, NEW b, Added(doc, l, k, o, f, b)
    PROVE  /\ vault' = WithKey(doc, l, k, o) /\ vault' \in Doc /\ Distinct(vault') /\ Exists(vault')
           /\ KeysIn(vault') = KeysIn(doc) \cup {k} /\ LabelsIn(vault') = LabelsIn(doc) \cup {l}
           /\ used' = used \cup {k} /\ file' \in {vault', f} /\ bak' \in {f, b}
           /\ stored' = stored \cup KeysIn(file') /\ ("add" \notin FailsIn => file' = vault')
           /\ active' = active \/ (active = NoLabel /\ active' = l /\ o # "generated")
           /\ backup' = backup \/ (backup' = [label |-> l, key |-> k] /\ o = "generated")
<1>1. /\ vault' = WithKey(doc, l, k, o) /\ vault' \in Doc /\ Distinct(vault') /\ Exists(vault')
      /\ KeysIn(vault') = KeysIn(doc) \cup {k} /\ LabelsIn(vault') = LabelsIn(doc) \cup {l}
      /\ used' = used \cup {k}
  BY WithKeyIs, DocExists DEF Added
<1>2. PICK add \in Persisted("add", vault', f, b) :
          /\ Disk(add)
          /\ active' = IF add.ok /\ active = NoLabel /\ o # "generated" THEN l ELSE active
          /\ backup' = IF add.ok /\ o = "generated" THEN [label |-> l, key |-> k] ELSE backup
  BY DEF Added
<1>3. /\ file' \in {vault', f} /\ bak' \in {f, b} /\ stored' = stored \cup KeysIn(file')
      /\ ("add" \notin FailsIn => file' = vault')
  BY <1>2, DiskIs
<1>4. /\ active' = active \/ (active = NoLabel /\ active' = l /\ o # "generated")
      /\ backup' = backup \/ (backup' = [label |-> l, key |-> k] /\ o = "generated")
  BY <1>2
<1> QED
  BY <1>1, <1>3, <1>4
-----------------------------------------------------------------------------
\* What is in memory comes from keys that exist, and there is nothing in memory
\* beside the document if there is no document.
Known == KeysIn(vault) \cup KeysIn(file) \subseteq used
Closed ==
    /\ ~up => ~Exists(vault)
    /\ ~Exists(vault) => ~dek /\ active = NoLabel /\ backup = NoBackup /\ shielded = NoKey
Core == TypeOK /\ Known /\ Closed

\* Keys only ever come to the file: it loses none, and memory has all it has.
Kept ==
    /\ stored \subseteq KeysIn(file)
    /\ up => KeysIn(file) \subseteq KeysIn(vault)

\* Memory knows every backup the file knows.
FlagsKept ==
    \A i \in DOMAIN file.keys, j \in DOMAIN vault.keys :
        file.keys[i].key = vault.keys[j].key /\ file.keys[i].backedUp => vault.keys[j].backedUp

\* No document is without keys.
NeverEmpty == \A doc \in {file, vault} : Exists(doc) => doc.keys # <<>>
-----------------------------------------------------------------------------
LEMMA CoreInit == ASSUME VaultAssumption, Init PROVE Core
  BY NoDocIs DEF Core, Init, TypeOK, IsDoc, Known, Closed, NoBackup, Exists

\* An imported key goes into the document there is, or into a new one.
LEMMA ImportIs ==
    ASSUME VaultAssumption, Core, NEW p \in Pass, NEW k \in Key, NEW o \in Origin, Import(p, k, o)
    PROVE  \/ /\ ~Exists(vault)
              /\ vault' = vault /\ dek' = dek /\ active' = active /\ backup' = backup
              /\ used' = used /\ file' = file /\ bak' \in {file, bak}
              /\ stored' = stored \cup KeysIn(file')
           \/ \E doc \in Doc : \E f, b :
                 /\ Distinct(doc) /\ Main \notin LabelsIn(doc) /\ k \notin KeysIn(doc)
                 /\ Added(doc, Main, k, o, f, b) /\ dek' = TRUE
                 /\ \/ Exists(vault) /\ dek /\ doc = vault /\ f = file /\ b = bak
                    \/ /\ ~Exists(vault) /\ doc = EmptyDoc(p) /\ f = EmptyDoc(p)
                       /\ b \in {file, bak}
<1>1. CASE Exists(vault)
  <2>1. vault \in Doc /\ Distinct(vault) /\ Main \notin LabelsIn(vault) /\ k \notin KeysIn(vault)
    BY <1>1, DocIs DEF Core, TypeOK, Exists, Import
  <2>2. Added(vault, Main, k, o, file, bak) /\ dek' = TRUE /\ dek
    BY <1>1 DEF Import, Core, TypeOK
  <2> QED
    BY <1>1, <2>1, <2>2
<1>2. CASE ~Exists(vault)
  <2>1. PICK new \in Persisted("new", EmptyDoc(p), file, bak) :
               IF new.ok
               THEN Added(EmptyDoc(p), Main, k, o, new.file, new.bak) /\ dek' = TRUE
               ELSE Disk(new) /\ UNCHANGED <<vault, dek, active, backup, used>>
    BY <1>2 DEF Import
  <2>2. CASE new.ok
    <3>1. new.file = EmptyDoc(p) /\ new.bak \in {file, bak}
      BY <2>2, PersistedIs
    <3> QED
      BY <1>2, <2>1, <2>2, <3>1, EmptyDocIs
  <2>3. CASE ~new.ok
    <3>1. Disk(new) /\ UNCHANGED <<vault, dek, active, backup, used>>
      BY <2>1, <2>3
    <3> QED
      BY <1>2, <2>3, <3>1, DiskIs
  <2> QED
    BY <2>2, <2>3
<1> QED
  BY <1>1, <1>2

\* A new wallet: nothing happened, an empty document was left, or the wallet is
\* open with its first key.
LEMMA CreateIs ==
    ASSUME VaultAssumption, Core, NEW p \in Pass, NEW k \in Key, Create(p, k)
    PROVE  LET d == WithKey(EmptyDoc(p), Main, k, "generated") IN
           /\ ~Exists(vault) /\ k \notin used
           /\ stored' = stored \cup KeysIn(file')
           /\ \/ /\ UNCHANGED <<vault, dek, active, backup, shielded>>
                 /\ \/ used' = used /\ file' = file /\ bak' \in {file, bak}
                    \/ /\ used' = used \cup {k} /\ file' = EmptyDoc(p) /\ "add" \in FailsIn
                       /\ bak' \in {file, bak, EmptyDoc(p)}
              \/ /\ used' = used \cup {k} /\ file' = d /\ vault' = d /\ dek' = TRUE
                 /\ bak' \in {file, bak, EmptyDoc(p)} /\ active' = Main
                 /\ backup' = [label |-> Main, key |-> k] /\ shielded' = AccountOf(d, Main)
<1> DEFINE d == WithKey(EmptyDoc(p), Main, k, "generated")
<1>1. PICK new \in Persisted("new", EmptyDoc(p), file, bak) :
          IF ~new.ok
          THEN Disk(new) /\ UNCHANGED <<vault, dek, active, backup, shielded, used>>
          ELSE \E add \in Persisted("add", d, new.file, new.bak) :
                  /\ Disk(add) /\ used' = used \cup {k}
                  /\ IF add.ok
                     THEN /\ vault' = add.file /\ dek' = TRUE /\ active' = Main
                          /\ backup' = [label |-> Main, key |-> k]
                          /\ shielded' = AccountOf(vault', active')
                     ELSE UNCHANGED <<vault, dek, active, backup, shielded>>
  BY DEF Create
<1>2. ~Exists(vault) /\ k \notin used
  BY DEF Create, MayCreate
<1>3. CASE ~new.ok
  <2>1. Disk(new) /\ UNCHANGED <<vault, dek, active, backup, shielded, used>>
    BY <1>1, <1>3
  <2> HIDE DEF d
  <2> QED
    BY <1>2, <1>3, <2>1, DiskIs
<1>4. CASE new.ok
  <2>1. new.file = EmptyDoc(p) /\ new.bak \in {file, bak}
    BY <1>4, PersistedIs
  <2>2. PICK add \in Persisted("add", d, new.file, new.bak) :
                  /\ Disk(add) /\ used' = used \cup {k}
                  /\ IF add.ok
                     THEN /\ vault' = add.file /\ dek' = TRUE /\ active' = Main
                          /\ backup' = [label |-> Main, key |-> k]
                          /\ shielded' = AccountOf(vault', active')
                     ELSE UNCHANGED <<vault, dek, active, backup, shielded>>
    BY <1>1, <1>4
  <2> HIDE DEF d
  <2>3. /\ add.ok \in BOOLEAN /\ file' = add.file /\ (add.ok => file' = d)
        /\ (~add.ok => file' = EmptyDoc(p) /\ "add" \in FailsIn)
        /\ bak' \in {EmptyDoc(p), file, bak} /\ stored' = stored \cup KeysIn(file')
    BY <2>1, <2>2, DiskIs
  <2>4. CASE add.ok
    BY <1>2, <2>2, <2>3, <2>4 DEF d
  <2>5. CASE ~add.ok
    BY <1>2, <2>2, <2>3, <2>5 DEF d
  <2> QED
    BY <2>4, <2>5
<1> QED
  BY <1>3, <1>4

LEMMA HasLabel ==
    ASSUME Core, NEW l \in LabelsIn(vault)
    PROVE  vault \in Doc /\ Distinct(vault) /\ Exists(vault) /\ up = TRUE
<1>1. vault # NoDoc
  BY NoDocIs
<1> QED
  BY <1>1, DocIs DEF Core, TypeOK, Closed, Exists

\* A rename happens to memory and to the file, or to neither.
LEMMA RenameIs ==
    ASSUME Core, NEW from \in Label, NEW to \in Label, RenameKey(from, to)
    PROVE  LET d == Renamed(vault, from, to) IN
           /\ vault \in Doc /\ Distinct(vault) /\ from \in LabelsIn(vault) /\ to \notin LabelsIn(vault)
           /\ bak' \in {file, bak} /\ stored' = stored \cup KeysIn(file')
           /\ \/ vault' = vault /\ file' = file /\ active' = active /\ backup' = backup
              \/ /\ vault' = d /\ file' = d /\ active' = (IF active = from THEN to ELSE active)
                 /\ backup' = IF backup.label = from THEN [backup EXCEPT !.label = to] ELSE backup
<1> DEFINE d == Renamed(vault, from, to)
<1>1. PICK r \in Persisted("rename", d, file, bak) :
          /\ Disk(r)
          /\ IF r.ok
             THEN /\ vault' = r.file
                  /\ active' = IF active = from THEN to ELSE active
                  /\ backup' = IF backup.label = from THEN [backup EXCEPT !.label = to]
                               ELSE backup
             ELSE UNCHANGED <<vault, active, backup>>
  BY DEF RenameKey
<1>2. from \in LabelsIn(vault) /\ to \notin LabelsIn(vault) /\ vault \in Doc /\ Distinct(vault)
  BY HasLabel DEF RenameKey
<1> HIDE DEF d
<1>3. /\ r.ok \in BOOLEAN /\ file' = r.file /\ bak' \in {file, bak}
      /\ (r.ok => file' = d) /\ (~r.ok => file' = file) /\ stored' = stored \cup KeysIn(file')
  BY <1>1, DiskIs
<1>4. CASE r.ok
  BY <1>1, <1>2, <1>3, <1>4 DEF d
<1>5. CASE ~r.ok
  BY <1>1, <1>2, <1>3, <1>5 DEF d
<1> QED
  BY <1>4, <1>5

\* So does a change of passphrase.
LEMMA ChangeIs ==
    ASSUME Core, NEW old \in Pass, NEW new \in Pass, ChangePassphrase(old, new)
    PROVE  LET d == WithPass(vault, new) IN
           /\ vault \in Doc /\ Distinct(vault)
           /\ bak' \in {file, bak} /\ stored' = stored \cup KeysIn(file')
           /\ (vault' = vault /\ file' = file) \/ (vault' = d /\ file' = d)
<1> DEFINE d == WithPass(vault, new)
<1>1. PICK r \in Persisted("pass", d, file, bak) :
          Disk(r) /\ vault' = IF r.ok THEN r.file ELSE vault
  BY DEF ChangePassphrase
<1>2. vault \in Doc /\ Distinct(vault)
  BY DocIs DEF ChangePassphrase, Exists, Core, TypeOK
<1> HIDE DEF d
<1>3. /\ r.ok \in BOOLEAN /\ file' = r.file /\ bak' \in {file, bak}
      /\ (r.ok => file' = d) /\ (~r.ok => file' = file) /\ stored' = stored \cup KeysIn(file')
  BY <1>1, DiskIs
<1>4. CASE r.ok
  BY <1>1, <1>2, <1>3, <1>4 DEF d
<1>5. CASE ~r.ok
  BY <1>1, <1>2, <1>3, <1>5 DEF d
<1> QED
  BY <1>4, <1>5

\* A phrase typed back flags one entry of memory; the file follows, or stays.
LEMMA ConfirmIs ==
    ASSUME Core, NEW k \in Key, ConfirmPhrase(k)
    PROVE  /\ backup # NoBackup /\ k = backup.key /\ backup' = NoBackup
           /\ proven' = proven \cup {k} /\ UNCHANGED <<up, dek, active, shielded, used>>
           /\ \/ vault' = vault /\ file' = file /\ bak' = bak /\ stored' = stored
              \/ /\ backup.label \in LabelsIn(vault) /\ vault \in Doc /\ Distinct(vault)
                 /\ vault' = Flagged(vault, backup.label)
                 /\ file' \in {vault', file} /\ bak' \in {file, bak}
                 /\ stored' = stored \cup KeysIn(file')
<1>1. /\ backup # NoBackup /\ k = backup.key /\ backup' = NoBackup
      /\ proven' = proven \cup {k} /\ UNCHANGED <<up, dek, active, shielded, used>>
  BY DEF ConfirmPhrase
<1>2. CASE \E i \in DOMAIN vault.keys : vault.keys[i].label = backup.label /\ ~vault.keys[i].backedUp
  <2>1. backup.label \in LabelsIn(vault)
    BY <1>2 DEF LabelsIn
  <2>2. PICK r \in Persisted("flag", vault', file, bak) : Disk(r)
    BY <1>2 DEF ConfirmPhrase
  <2>3. vault' = Flagged(vault, backup.label)
    BY <1>2 DEF ConfirmPhrase
  <2>4. file' \in {vault', file} /\ bak' \in {file, bak} /\ stored' = stored \cup KeysIn(file')
    BY <2>2, DiskIs
  <2> QED
    BY <1>1, <2>1, <2>3, <2>4, HasLabel
<1>3. CASE ~\E i \in DOMAIN vault.keys : vault.keys[i].label = backup.label /\ ~vault.keys[i].backedUp
  BY <1>1, <1>3 DEF ConfirmPhrase
<1> QED
  BY <1>2, <1>3

\* Starting with the wallet that the file is, or without one.
LEMMA OpenIs ==
    ASSUME VaultAssumption, Core, NEW read \in BOOLEAN, Open(read)
    PROVE  /\ up = FALSE /\ up' = TRUE /\ UNCHANGED <<file, bak, dek, backup, shielded, used, stored, proven>>
           /\ ~dek /\ backup = NoBackup /\ shielded = NoKey
           /\ \/ vault' = file
              \/ ReadsFail /\ vault' = NoDoc
           /\ active' = NoLabel \/ active' \in LabelsIn(vault')
           /\ vault' = NoDoc => active' = NoLabel
           /\ active' \in Label \cup {NoLabel}
<1>1. /\ up = FALSE /\ up' = TRUE /\ UNCHANGED <<file, bak, dek, backup, shielded, used, stored, proven>>
      /\ ~dek /\ backup = NoBackup /\ shielded = NoKey
  BY DEF Open, Core, TypeOK, Closed
<1>2. vault' = file \/ (ReadsFail /\ vault' = NoDoc)
  BY DEF Open
<1>3. IsDoc(vault') /\ active' = FirstLabel(vault')
  BY <1>2 DEF Core, TypeOK, IsDoc, Open
<1>4. active' = NoLabel \/ (active' \in LabelsIn(vault') /\ active' \in Label /\ vault' # NoDoc)
  <2>1. CASE vault'.keys = <<>>
    BY <1>3, <2>1 DEF FirstLabel
  <2>2. CASE vault'.keys # <<>>
    <3>1. vault' \in Doc /\ vault' # NoDoc
      BY <1>3, <2>2, NoDocIs, DocIs
    <3>2. 1 \in DOMAIN vault'.keys /\ vault'.keys[1] \in Entry
      BY <2>2, <3>1 DEF Doc
    <3> QED
      BY <1>3, <2>2, <3>1, <3>2 DEF FirstLabel, LabelsIn, Entry
  <2> QED
    BY <2>1, <2>2
<1> QED
  BY <1>1, <1>2, <1>4

LEMMA DocsIs ==
    ASSUME VaultAssumption, NEW doc \in Doc, Distinct(doc)
    PROVE  IsDoc(doc) /\ Exists(doc)
  BY DocIs, DocExists

\* Every step keeps the types, and what is in memory known and closed.
LEMMA CoreStep ==
    ASSUME VaultAssumption, Core, [Next]_vars
    PROVE  Core'
<1> USE VaultAssumption
<1>0. /\ IsDoc(file) /\ IsDoc(bak) /\ IsDoc(vault) /\ up \in BOOLEAN /\ dek \in BOOLEAN
      /\ active \in Label \cup {NoLabel} /\ shielded \in Key \cup {NoKey}
      /\ backup \in [label : Label \cup {NoLabel}, key : Key \cup {NoKey}]
      /\ used \subseteq Key /\ stored \subseteq Key /\ proven \subseteq Key
      /\ KeysIn(vault) \subseteq used /\ KeysIn(file) \subseteq used
      /\ (~up => ~Exists(vault))
      /\ (~Exists(vault) => ~dek /\ active = NoLabel /\ backup = NoBackup /\ shielded = NoKey)
  BY DEF Core, TypeOK, Known, Closed
<1>d. IsDoc(NoDoc) /\ ~Exists(NoDoc) /\ KeysIn(NoDoc) = {}
      /\ NoBackup \in [label : Label \cup {NoLabel}, key : Key \cup {NoKey}]
  BY NoDocIs DEF IsDoc, Exists, NoBackup
<1>e. \A p \in Pass : IsDoc(EmptyDoc(p)) /\ Exists(EmptyDoc(p)) /\ KeysIn(EmptyDoc(p)) = {}
  BY EmptyDocIs, DocsIs
<1>a. \A l : AccountOf(vault, l) \in Key \cup {NoKey}
  BY <1>0, AccountType
<1>1. CASE UNCHANGED vars
  BY <1>1 DEF Core, TypeOK, Known, Closed, vars
<1>2. ASSUME NEW read \in BOOLEAN, Open(read) PROVE Core'
  BY <1>0, <1>d, <1>2, OpenIs DEF Core, TypeOK, Known, Closed, Exists
<1>3. CASE Stop
  BY <1>0, <1>d, <1>3 DEF Stop, Gone, Core, TypeOK, Known, Closed
<1>4. ASSUME NEW p \in Pass, CrashHalfway(p) PROVE Core'
  <2>1. file' = EmptyDoc(p) /\ bak' \in {file, bak} /\ stored' = stored \cup KeysIn(file')
    BY <1>4 DEF CrashHalfway, Disk, Copied
  <2>2. Gone /\ UNCHANGED <<used, proven>>
    BY <1>4 DEF CrashHalfway
  <2> QED
    BY <1>0, <1>d, <1>e, <2>1, <2>2 DEF Gone, Core, TypeOK, Known, Closed
<1>5. ASSUME NEW p \in Pass, NEW k \in Key, Create(p, k) PROVE Core'
  <2> DEFINE d == WithKey(EmptyDoc(p), Main, k, "generated")
  <2>1. d \in Doc /\ Distinct(d) /\ KeysIn(d) = {k} /\ Main \in Label
    BY WithKeyIs, EmptyDocIs DEF Origin, VaultAssumption
  <2>2. IsDoc(d) /\ Exists(d)
    BY <2>1, DocsIs
  <2>3. up = TRUE /\ up' = TRUE /\ proven' = proven
    BY <1>0, <1>5 DEF Create
  <2>4. AccountOf(d, Main) \in Key \cup {NoKey}
    BY <2>2, AccountType
  <2> HIDE DEF d
  <2>5. CASE UNCHANGED <<vault, dek, active, backup, shielded>>
    BY ZenonT(60), <1>0, <1>5, <1>e, <2>1, <2>2, <2>3, <2>5, CreateIs DEF Core, TypeOK, Known, Closed, d
  <2>6. CASE file' = d /\ vault' = d /\ dek' = TRUE /\ active' = Main /\ used' = used \cup {k}
             /\ bak' \in {file, bak, EmptyDoc(p)} /\ stored' = stored \cup KeysIn(file')
             /\ backup' = [label |-> Main, key |-> k] /\ shielded' = AccountOf(d, Main)
    BY <1>0, <1>e, <2>1, <2>2, <2>3, <2>4, <2>6 DEF Core, TypeOK, Known, Closed
  <2> QED
    BY <1>5, <2>5, <2>6, CreateIs DEF d
<1>6. ASSUME NEW p \in Pass, NEW k \in Key, NEW o \in Origin, Import(p, k, o) PROVE Core'
  <2>1. UNCHANGED <<up, shielded, proven>> /\ up = TRUE
    BY <1>0, <1>6 DEF Import
  <2>2. CASE /\ ~Exists(vault)
             /\ vault' = vault /\ dek' = dek /\ active' = active /\ backup' = backup
             /\ used' = used /\ file' = file /\ bak' \in {file, bak}
             /\ stored' = stored \cup KeysIn(file')
    BY <1>0, <2>1, <2>2 DEF Core, TypeOK, Known, Closed
  <2>3. ASSUME NEW doc \in Doc, NEW f, NEW b,
               Distinct(doc), Main \notin LabelsIn(doc), k \notin KeysIn(doc),
               Added(doc, Main, k, o, f, b), dek' = TRUE,
               \/ Exists(vault) /\ dek /\ doc = vault /\ f = file /\ b = bak
               \/ ~Exists(vault) /\ doc = EmptyDoc(p) /\ f = EmptyDoc(p) /\ b \in {file, bak}
        PROVE  Core'
    <3>1. Main \in Label \ LabelsIn(doc) /\ k \in Key \ KeysIn(doc)
      BY <2>3 DEF VaultAssumption
    <3>2. /\ vault' \in Doc /\ Distinct(vault') /\ Exists(vault')
           /\ KeysIn(vault') = KeysIn(doc) \cup {k}
           /\ used' = used \cup {k} /\ file' \in {vault', f} /\ bak' \in {f, b}
           /\ stored' = stored \cup KeysIn(file')
           /\ active' \in {active, Main} /\ backup' \in {backup, [label |-> Main, key |-> k]}
      BY <2>3, <3>1, AddedIs
    <3>3. /\ IsDoc(f) /\ IsDoc(b) /\ KeysIn(f) \subseteq used /\ KeysIn(doc) \subseteq used
          /\ IsDoc(vault')
      BY <1>0, <1>e, <2>3, <3>2, DocsIs
    <3>4. [label |-> Main, key |-> k] \in [label : Label \cup {NoLabel}, key : Key \cup {NoKey}]
      BY <3>1
    <3> QED
      BY <1>0, <2>1, <2>3, <3>1, <3>2, <3>3, <3>4 DEF Core, TypeOK, Known, Closed
  <2> QED
    BY <1>6, <2>2, <2>3, ImportIs
<1>7. ASSUME NEW l \in Label, NEW k \in Key, AddKey(l, k) PROVE Core'
  <2>1. /\ vault \in Doc /\ Distinct(vault) /\ l \in Label \ LabelsIn(vault) /\ dek = TRUE
        /\ k \in Key \ KeysIn(vault) /\ "generated" \in Origin /\ up = TRUE /\ Exists(vault)
    BY <1>0, <1>7, DocIs DEF AddKey, Exists, Origin
  <2>2. UNCHANGED <<up, dek, shielded, proven>> /\ Added(vault, l, k, "generated", file, bak)
    BY <1>7 DEF AddKey
  <2>3. /\ vault' \in Doc /\ Distinct(vault') /\ Exists(vault')
           /\ KeysIn(vault') = KeysIn(vault) \cup {k}
           /\ used' = used \cup {k} /\ file' \in {vault', file} /\ bak' \in {file, bak}
           /\ stored' = stored \cup KeysIn(file')
           /\ active' = active /\ backup' \in {backup, [label |-> l, key |-> k]}
    BY <2>1, <2>2, AddedIs
  <2>4. IsDoc(vault')
    BY <2>3, DocsIs
  <2>5. [label |-> l, key |-> k] \in [label : Label \cup {NoLabel}, key : Key \cup {NoKey}]
    OBVIOUS
  <2> QED
    BY <1>0, <2>1, <2>2, <2>3, <2>4, <2>5 DEF Core, TypeOK, Known, Closed
<1>8. ASSUME NEW from \in Label, NEW to \in Label, RenameKey(from, to) PROVE Core'
  <2> DEFINE d == Renamed(vault, from, to)
  <2>1. /\ vault \in Doc /\ Distinct(vault) /\ from \in LabelsIn(vault) /\ to \notin LabelsIn(vault)
        /\ bak' \in {file, bak} /\ stored' = stored \cup KeysIn(file')
        /\ \/ vault' = vault /\ file' = file /\ active' = active /\ backup' = backup
           \/ /\ vault' = d /\ file' = d /\ active' \in {active, to}
              /\ backup' \in {backup, [backup EXCEPT !.label = to]}
    BY <1>8, RenameIs
  <2>2. d \in Doc /\ KeysIn(d) = KeysIn(vault) /\ Distinct(d)
    BY <2>1, RenamedIs
  <2>3. UNCHANGED <<up, dek, shielded, used, proven>> /\ up = TRUE /\ Exists(vault)
    BY <1>0, <1>8, <2>1, HasLabel DEF RenameKey
  <2>4. IsDoc(d) /\ Exists(d)
    BY <2>2, DocsIs
  <2>5. [backup EXCEPT !.label = to] \in [label : Label \cup {NoLabel}, key : Key \cup {NoKey}]
    BY <1>0
  <2> HIDE DEF d
  <2> QED
    BY <1>0, <2>1, <2>2, <2>3, <2>4, <2>5 DEF Core, TypeOK, Known, Closed
<1>9. ASSUME NEW l \in Label, SetActiveKey(l) PROVE Core'
  <2>1. Exists(vault) /\ up = TRUE
    BY <1>9, HasLabel DEF SetActiveKey
  <2> QED
    BY <1>0, <1>9, <1>a, <2>1 DEF SetActiveKey, Core, TypeOK, Known, Closed
<1>10. ASSUME NEW old \in Pass, NEW new \in Pass, ChangePassphrase(old, new) PROVE Core'
  <2> DEFINE d == WithPass(vault, new)
  <2>1. /\ vault \in Doc /\ Distinct(vault)
        /\ bak' \in {file, bak} /\ stored' = stored \cup KeysIn(file')
        /\ (vault' = vault /\ file' = file) \/ (vault' = d /\ file' = d)
    BY <1>10, ChangeIs
  <2>2. d \in Doc /\ KeysIn(d) = KeysIn(vault) /\ Distinct(d)
    BY <2>1, WithPassIs
  <2>3. UNCHANGED <<up, dek, active, backup, shielded, used, proven>> /\ up = TRUE /\ Exists(vault)
    BY <1>0, <1>10 DEF ChangePassphrase
  <2>4. IsDoc(d) /\ Exists(d)
    BY <2>2, DocsIs
  <2> HIDE DEF d
  <2> QED
    BY <1>0, <2>1, <2>2, <2>3, <2>4 DEF Core, TypeOK, Known, Closed
<1>11. ASSUME NEW l \in Label, NEW p \in Pass, RevealBackup(l, p) PROVE Core'
  <2>1. Exists(vault) /\ up = TRUE
    BY <1>11, HasLabel DEF RevealBackup
  <2>2. backup' \in [label : Label \cup {NoLabel}, key : Key \cup {NoKey}]
    BY <1>11, <1>a DEF RevealBackup
  <2>3. UNCHANGED <<up, file, bak, vault, dek, active, shielded, used, stored, proven>>
    BY <1>11 DEF RevealBackup
  <2> QED
    BY <1>0, <2>1, <2>2, <2>3 DEF Core, TypeOK, Known, Closed
<1>12. CASE CancelBackup
  BY <1>0, <1>d, <1>12 DEF CancelBackup, Core, TypeOK, Known, Closed
<1>13. ASSUME NEW k \in Key, ConfirmPhrase(k) PROVE Core'
  <2> DEFINE d == Flagged(vault, backup.label)
  <2>1. CASE vault' = vault /\ file' = file /\ bak' = bak /\ stored' = stored
    BY <1>0, <1>d, <1>13, <2>1, ConfirmIs DEF Core, TypeOK, Known, Closed
  <2>2. CASE /\ backup.label \in LabelsIn(vault) /\ vault \in Doc /\ Distinct(vault) /\ vault' = d
             /\ file' \in {vault', file} /\ bak' \in {file, bak} /\ stored' = stored \cup KeysIn(file')
    <3>1. d \in Doc /\ KeysIn(d) = KeysIn(vault) /\ Distinct(d)
      BY <2>2, FlaggedIs
    <3>2. IsDoc(d) /\ Exists(d) /\ Exists(vault)
      BY <2>2, <3>1, DocsIs
    <3>3. backup' = NoBackup /\ proven' = proven \cup {k} /\ UNCHANGED <<up, dek, active, shielded, used>>
      BY <1>13, ConfirmIs
    <3> HIDE DEF d
    <3> QED
      BY <1>0, <1>d, <2>2, <3>1, <3>2, <3>3 DEF Core, TypeOK, Known, Closed
  <2> QED
    BY <1>13, <2>1, <2>2, ConfirmIs
<1>14. ASSUME NEW p \in Pass, Unlock(p) PROVE Core'
  BY <1>0, <1>14, <1>a DEF Unlock, Core, TypeOK, Known, Closed
<1>15. CASE Lock
  BY <1>0, <1>d, <1>15 DEF Lock, Core, TypeOK, Known, Closed
<1> QED
  BY <1>1, <1>2, <1>3, <1>4, <1>5, <1>6, <1>7, <1>8, <1>9, <1>10, <1>11, <1>12, <1>13, <1>14, <1>15
     DEF Next
-----------------------------------------------------------------------------
\* The file loses no key, and memory has every key of the file.
LEMMA KeptStep ==
    ASSUME VaultAssumption, ~ReadsFail, Core, Kept, [Next]_vars
    PROVE  Kept'
<1> USE VaultAssumption
<1>0. stored \subseteq KeysIn(file) /\ (up => KeysIn(file) \subseteq KeysIn(vault)) /\ up \in BOOLEAN
  BY DEF Kept, Core, TypeOK
<1>d. /\ KeysIn(NoDoc) = {} /\ (~Exists(vault) => KeysIn(vault) = {})
      /\ (up /\ ~Exists(vault) => KeysIn(file) = {})
  BY <1>0, NoDocIs DEF Exists
<1>e. \A p \in Pass : KeysIn(EmptyDoc(p)) = {}
  BY EmptyDocIs
<1>1. CASE UNCHANGED vars
  BY <1>1 DEF Kept, vars
<1>2. ASSUME NEW read \in BOOLEAN, Open(read) PROVE Kept'
  BY <1>0, <1>2, OpenIs DEF Kept
<1>3. CASE Stop
  BY <1>0, <1>3 DEF Stop, Gone, Kept
<1>4. ASSUME NEW p \in Pass, CrashHalfway(p) PROVE Kept'
  BY <1>0, <1>d, <1>e, <1>4 DEF CrashHalfway, Disk, Gone, Kept
<1>5. ASSUME NEW p \in Pass, NEW k \in Key, Create(p, k) PROVE Kept'
  <2> DEFINE d == WithKey(EmptyDoc(p), Main, k, "generated")
  <2>1. KeysIn(d) = {k}
    BY WithKeyIs, EmptyDocIs DEF Origin, VaultAssumption
  <2>2. up /\ ~Exists(vault) /\ KeysIn(file) = {} /\ stored = {}
    BY <1>0, <1>d, <1>5 DEF Create, MayCreate
  <2> HIDE DEF d
  <2>3. KeysIn(file') = {} \/ file' = vault'
    BY <1>5, <1>e, <2>2, CreateIs DEF d
  <2>4. stored' = stored \cup KeysIn(file')
    BY <1>5, CreateIs
  <2> QED
    BY <2>2, <2>3, <2>4 DEF Kept
<1>6. ASSUME NEW p \in Pass, NEW k \in Key, NEW o \in Origin, Import(p, k, o) PROVE Kept'
  <2>1. up
    BY <1>6 DEF Import
  <2>2. CASE vault' = vault /\ file' = file /\ stored' = stored \cup KeysIn(file')
    BY <1>0, <2>1, <2>2 DEF Kept
  <2>3. ASSUME NEW doc \in Doc, NEW f, NEW b,
               Distinct(doc), Main \notin LabelsIn(doc), k \notin KeysIn(doc),
               Added(doc, Main, k, o, f, b),
               \/ Exists(vault) /\ dek /\ doc = vault /\ f = file /\ b = bak
               \/ ~Exists(vault) /\ doc = EmptyDoc(p) /\ f = EmptyDoc(p) /\ b \in {file, bak}
        PROVE  Kept'
    <3>1. Main \in Label \ LabelsIn(doc) /\ k \in Key \ KeysIn(doc)
      BY <2>3 DEF VaultAssumption
    <3>2. /\ KeysIn(vault') = KeysIn(doc) \cup {k} /\ file' \in {vault', f}
          /\ stored' = stored \cup KeysIn(file')
      BY <2>3, <3>1, AddedIs
    <3> QED
      BY <1>0, <1>d, <1>e, <2>1, <2>3, <3>2 DEF Kept
  <2> QED
    BY <1>6, <2>2, <2>3, ImportIs
<1>7. ASSUME NEW l \in Label, NEW k \in Key, AddKey(l, k) PROVE Kept'
  <2>1. /\ vault \in Doc /\ Distinct(vault) /\ l \in Label \ LabelsIn(vault)
        /\ k \in Key \ KeysIn(vault) /\ "generated" \in Origin /\ up
    BY <1>7, DocIs DEF AddKey, Exists, Origin, Core, TypeOK, Known
  <2>2. Added(vault, l, k, "generated", file, bak)
    BY <1>7 DEF AddKey
  <2>3. /\ KeysIn(vault') = KeysIn(vault) \cup {k} /\ file' \in {vault', file}
        /\ stored' = stored \cup KeysIn(file')
    BY <2>1, <2>2, AddedIs
  <2> QED
    BY <1>0, <2>1, <2>3 DEF Kept
<1>8. ASSUME NEW from \in Label, NEW to \in Label, RenameKey(from, to) PROVE Kept'
  BY <1>0, <1>8, RenameIs, RenamedIs DEF Kept, RenameKey
<1>9. ASSUME NEW l \in Label, SetActiveKey(l) PROVE Kept'
  BY <1>0, <1>9 DEF SetActiveKey, Kept
<1>10. ASSUME NEW old \in Pass, NEW new \in Pass, ChangePassphrase(old, new) PROVE Kept'
  BY <1>0, <1>10, ChangeIs, WithPassIs DEF Kept, ChangePassphrase
<1>11. ASSUME NEW l \in Label, NEW p \in Pass, RevealBackup(l, p) PROVE Kept'
  BY <1>0, <1>11 DEF RevealBackup, Kept
<1>12. CASE CancelBackup
  BY <1>0, <1>12 DEF CancelBackup, Kept
<1>13. ASSUME NEW k \in Key, ConfirmPhrase(k) PROVE Kept'
  <2>1. CASE vault' = vault /\ file' = file /\ bak' = bak /\ stored' = stored
    BY <1>0, <1>13, <2>1, ConfirmIs DEF Kept
  <2>2. CASE /\ backup.label \in LabelsIn(vault) /\ vault \in Doc /\ vault' = Flagged(vault, backup.label)
             /\ file' \in {vault', file} /\ stored' = stored \cup KeysIn(file')
    <3>1. KeysIn(vault') = KeysIn(vault)
      BY <2>2, FlaggedIs
    <3>2. up' = up
      BY <1>13, ConfirmIs
    <3>3. up
      BY <2>2, HasLabel
    <3> QED
      BY <1>0, <2>2, <3>1, <3>2, <3>3 DEF Kept
  <2> QED
    BY <1>13, <2>1, <2>2, ConfirmIs
<1>14. ASSUME NEW p \in Pass, Unlock(p) PROVE Kept'
  BY <1>0, <1>14 DEF Unlock, Kept
<1>15. CASE Lock
  BY <1>0, <1>15 DEF Lock, Kept
<1> QED
  BY <1>1, <1>2, <1>3, <1>4, <1>5, <1>6, <1>7, <1>8, <1>9, <1>10, <1>11, <1>12, <1>13, <1>14, <1>15
     DEF Next

\* An entry under that label with that key.
Holds(doc, l, k) == \E i \in DOMAIN doc.keys : doc.keys[i].label = l /\ doc.keys[i].key = k
Seen(doc, words) ==
    \A i \in DOMAIN doc.keys :
        doc.keys[i].backedUp /\ doc.keys[i].origin = "generated" => doc.keys[i].key \in words
Refs == ReferencesLive /\ BackedUpWasSeen

LEMMA RefsIs ==
    /\ Refs <=>
          /\ active # NoLabel => active \in LabelsIn(vault)
          /\ backup # NoBackup => Holds(vault, backup.label, backup.key)
          /\ Seen(vault, proven) /\ Seen(file, proven) /\ Seen(bak, proven)
    /\ Refs' <=>
          /\ active' # NoLabel => active' \in LabelsIn(vault')
          /\ backup' # NoBackup => Holds(vault', backup'.label, backup'.key)
          /\ Seen(vault', proven') /\ Seen(file', proven') /\ Seen(bak', proven')
  BY DEF Refs, ReferencesLive, BackedUpWasSeen, Holds, Seen

LEMMA WithKeyHolds ==
    ASSUME NEW doc \in Doc, NEW l \in Label, NEW k \in Key, NEW o \in Origin, NEW words
    PROVE  LET d == WithKey(doc, l, k, o) IN
           /\ Holds(d, l, k) /\ LabelsIn(d) = LabelsIn(doc) \cup {l}
           /\ \A m, j : Holds(doc, m, j) => Holds(d, m, j)
           /\ Seen(doc, words) => Seen(d, words)
<1> DEFINE d == WithKey(doc, l, k, o)
<1>1. /\ \A i \in DOMAIN doc.keys : d.keys[i] = doc.keys[i]
      /\ d.keys[Len(doc.keys) + 1] = EntryOf(l, k, o) /\ DOMAIN d.keys = 1 .. Len(doc.keys) + 1
      /\ LabelsIn(d) = LabelsIn(doc) \cup {l}
  BY WithKeyIs
<1>2. DOMAIN doc.keys = 1 .. Len(doc.keys) /\ Len(doc.keys) \in Nat
  BY DocDomain
<1> HIDE DEF d
<1>3. EntryOf(l, k, o).label = l /\ EntryOf(l, k, o).key = k /\ EntryOf(l, k, o).origin = o
  BY DEF EntryOf
<1>4. o = "generated" => ~EntryOf(l, k, o).backedUp
  <2>1. EntryOf(l, k, o).backedUp = (o # "generated")
    BY DEF EntryOf
  <2> QED
    BY <2>1
<1>5. Holds(d, l, k) /\ \A m, j : Holds(doc, m, j) => Holds(d, m, j)
  BY <1>1, <1>2, <1>3 DEF Holds
<1>6. Seen(doc, words) => Seen(d, words)
  BY <1>1, <1>2, <1>3, <1>4 DEF Seen
<1> QED
  BY <1>1, <1>5, <1>6 DEF d

LEMMA RenamedHolds ==
    ASSUME NEW doc \in Doc, Distinct(doc), NEW from \in LabelsIn(doc), NEW to \in Label, NEW words,
           to \notin LabelsIn(doc)
    PROVE  LET d == Renamed(doc, from, to) IN
           /\ to \in LabelsIn(d) /\ \A m \in LabelsIn(doc) : m # from => m \in LabelsIn(d)
           /\ \A k : Holds(doc, from, k) => Holds(d, to, k)
           /\ \A m, k : m # from /\ Holds(doc, m, k) => Holds(d, m, k)
           /\ Seen(doc, words) => Seen(d, words)
<1> DEFINE d == Renamed(doc, from, to)  n == At(doc, from)
<1>1. n \in DOMAIN doc.keys /\ doc.keys[n].label = from
  BY AtFinds
<1>2. /\ DOMAIN d.keys = DOMAIN doc.keys
      /\ \A i \in DOMAIN doc.keys :
            d.keys[i] = IF i = n THEN [doc.keys[i] EXCEPT !.label = to] ELSE doc.keys[i]
  BY RenamedIs
<1> HIDE DEF d, n
<1>3. \A i \in DOMAIN doc.keys :
        /\ d.keys[i].label = IF i = n THEN to ELSE doc.keys[i].label
        /\ d.keys[i].key = doc.keys[i].key /\ d.keys[i].origin = doc.keys[i].origin
        /\ d.keys[i].backedUp = doc.keys[i].backedUp
  BY <1>2, DocDomain DEF Entry
<1>4. \A i \in DOMAIN doc.keys : doc.keys[i].label = from => i = n
  BY <1>1 DEF Distinct
<1>5. to \in LabelsIn(d) /\ \A m \in LabelsIn(doc) : m # from => m \in LabelsIn(d)
  BY <1>1, <1>2, <1>3 DEF LabelsIn
<1>6. /\ \A k : Holds(doc, from, k) => Holds(d, to, k)
      /\ \A m, k : m # from /\ Holds(doc, m, k) => Holds(d, m, k)
  BY <1>1, <1>2, <1>3, <1>4 DEF Holds
<1>7. Seen(doc, words) => Seen(d, words)
  BY <1>2, <1>3 DEF Seen
<1> QED
  BY <1>5, <1>6, <1>7 DEF d

LEMMA FlaggedHolds ==
    ASSUME NEW doc \in Doc, Distinct(doc), NEW l, NEW k, Holds(doc, l, k), NEW words, Seen(doc, words)
    PROVE  LET d == Flagged(doc, l) IN
           LabelsIn(d) = LabelsIn(doc) /\ Seen(d, words \cup {k})
<1> DEFINE d == Flagged(doc, l)  n == At(doc, l)
<1>0. l \in LabelsIn(doc)
  BY DEF Holds, LabelsIn
<1>1. n \in DOMAIN doc.keys /\ doc.keys[n].label = l
  BY <1>0, AtFinds
<1>2. doc.keys[n].key = k
  BY <1>1 DEF Holds, Distinct
<1>3. /\ DOMAIN d.keys = DOMAIN doc.keys /\ LabelsIn(d) = LabelsIn(doc)
      /\ \A i \in DOMAIN doc.keys :
                 /\ d.keys[i].key = doc.keys[i].key
                 /\ d.keys[i].origin = doc.keys[i].origin
                 /\ d.keys[i].backedUp => i = n \/ doc.keys[i].backedUp
  BY <1>0, FlaggedIs
<1> HIDE DEF d, n
<1>4. Seen(d, words \cup {k})
  BY <1>2, <1>3 DEF Seen
<1> QED
  BY <1>3, <1>4 DEF d

LEMMA SeenMore ==
    ASSUME NEW doc, NEW words, Seen(doc, words), NEW more, words \subseteq more PROVE Seen(doc, more)
  BY DEF Seen

LEMMA RefsStep ==
    ASSUME VaultAssumption, Core, Refs, [Next]_vars
    PROVE  Refs'
<1> USE VaultAssumption
<1>0. /\ active # NoLabel => active \in LabelsIn(vault)
      /\ backup # NoBackup => Holds(vault, backup.label, backup.key)
      /\ Seen(vault, proven) /\ Seen(file, proven) /\ Seen(bak, proven)
  BY RefsIs
<1>d. Seen(NoDoc, proven) /\ \A p \in Pass : Seen(EmptyDoc(p), proven)
  BY NoDocIs DEF Seen, EmptyDoc
<1>1. CASE UNCHANGED vars
  BY <1>0, <1>1, RefsIs DEF vars
<1>2. ASSUME NEW read \in BOOLEAN, Open(read) PROVE Refs'
  BY <1>0, <1>d, <1>2, OpenIs, RefsIs
<1>3. CASE Stop
  BY <1>0, <1>d, <1>3, RefsIs DEF Stop, Gone
<1>4. ASSUME NEW p \in Pass, CrashHalfway(p) PROVE Refs'
  BY <1>0, <1>d, <1>4, RefsIs DEF CrashHalfway, Disk, Gone, Copied
<1>5. ASSUME NEW p \in Pass, NEW k \in Key, Create(p, k) PROVE Refs'
  <2> DEFINE d == WithKey(EmptyDoc(p), Main, k, "generated")
  <2>1. Holds(d, Main, k) /\ Main \in LabelsIn(d) /\ Seen(d, proven)
    BY <1>d, WithKeyHolds, EmptyDocIs DEF Origin, VaultAssumption
  <2>2. proven' = proven
    BY <1>5 DEF Create
  <2>3. Seen(EmptyDoc(p), proven)
    BY <1>d
  <2> HIDE DEF d
  <2>4. CASE /\ UNCHANGED <<vault, active, backup>> /\ file' \in {file, EmptyDoc(p)}
             /\ bak' \in {file, bak, EmptyDoc(p)}
    BY <1>0, <2>2, <2>3, <2>4, RefsIs
  <2>5. CASE file' = d /\ vault' = d /\ active' = Main /\ backup' = [label |-> Main, key |-> k]
             /\ bak' \in {file, bak, EmptyDoc(p)}
    BY <1>0, <2>1, <2>2, <2>3, <2>5, RefsIs
  <2> QED
    BY <1>5, <2>4, <2>5, CreateIs DEF d
<1>6. ASSUME NEW p \in Pass, NEW k \in Key, NEW o \in Origin, Import(p, k, o) PROVE Refs'
  <2>1. proven' = proven
    BY <1>6 DEF Import
  <2>2. CASE vault' = vault /\ active' = active /\ backup' = backup /\ file' = file /\ bak' \in {file, bak}
    BY <1>0, <2>1, <2>2, RefsIs
  <2>3. ASSUME NEW doc \in Doc, NEW f, NEW b,
               Distinct(doc), Main \notin LabelsIn(doc), k \notin KeysIn(doc),
               Added(doc, Main, k, o, f, b),
               \/ Exists(vault) /\ dek /\ doc = vault /\ f = file /\ b = bak
               \/ ~Exists(vault) /\ doc = EmptyDoc(p) /\ f = EmptyDoc(p) /\ b \in {file, bak}
        PROVE  Refs'
    <3>1. Main \in Label \ LabelsIn(doc) /\ k \in Key \ KeysIn(doc)
      BY <2>3 DEF VaultAssumption
    <3>2. /\ vault' = WithKey(doc, Main, k, o) /\ file' \in {vault', f} /\ bak' \in {f, b}
          /\ active' \in {active, Main}
          /\ backup' \in {backup, [label |-> Main, key |-> k]}
      BY <2>3, <3>1, AddedIs
    <3>3. /\ Holds(vault', Main, k) /\ LabelsIn(vault') = LabelsIn(doc) \cup {Main}
          /\ \A m, j : Holds(doc, m, j) => Holds(vault', m, j)
          /\ Seen(doc, proven) => Seen(vault', proven)
      BY <3>1, <3>2, WithKeyHolds
    <3>4. /\ active # NoLabel => active \in LabelsIn(doc)
          /\ backup # NoBackup => Holds(doc, backup.label, backup.key)
          /\ Seen(doc, proven) /\ Seen(f, proven) /\ Seen(b, proven)
      BY <1>0, <1>d, <2>3 DEF Core, Closed
    <3>5. CASE backup' = backup
      BY <2>1, <3>2, <3>3, <3>4, <3>5, RefsIs
    <3>6. CASE backup' = [label |-> Main, key |-> k]
      BY <2>1, <3>2, <3>3, <3>4, <3>6, RefsIs
    <3> QED
      BY <3>2, <3>5, <3>6
  <2> QED
    BY <1>6, <2>2, <2>3, ImportIs
<1>7. ASSUME NEW l \in Label, NEW k \in Key, AddKey(l, k) PROVE Refs'
  <2>1. /\ vault \in Doc /\ Distinct(vault) /\ l \in Label \ LabelsIn(vault)
        /\ k \in Key \ KeysIn(vault) /\ "generated" \in Origin
    BY <1>7, DocIs DEF AddKey, Exists, Origin, Core, TypeOK, Known
  <2>2. Added(vault, l, k, "generated", file, bak) /\ proven' = proven
    BY <1>7 DEF AddKey
  <2>3. /\ vault' = WithKey(vault, l, k, "generated") /\ file' \in {vault', file} /\ bak' \in {file, bak}
        /\ active' = active /\ backup' \in {backup, [label |-> l, key |-> k]}
    BY <2>1, <2>2, AddedIs
  <2>4. /\ Holds(vault', l, k) /\ LabelsIn(vault') = LabelsIn(vault) \cup {l}
        /\ \A m, j : Holds(vault, m, j) => Holds(vault', m, j)
        /\ Seen(vault, proven) => Seen(vault', proven)
    BY <2>1, <2>3, WithKeyHolds
  <2>5. CASE backup' = backup
    BY <1>0, <2>2, <2>3, <2>4, <2>5, RefsIs
  <2>6. CASE backup' = [label |-> l, key |-> k]
    BY <1>0, <2>2, <2>3, <2>4, <2>6, RefsIs
  <2> QED
    BY <2>3, <2>5, <2>6
<1>8. ASSUME NEW from \in Label, NEW to \in Label, RenameKey(from, to) PROVE Refs'
  <2> DEFINE d == Renamed(vault, from, to)
  <2>1. /\ vault \in Doc /\ Distinct(vault) /\ from \in LabelsIn(vault) /\ to \notin LabelsIn(vault)
        /\ bak' \in {file, bak} /\ proven' = proven
    BY <1>8, RenameIs DEF RenameKey
  <2>2. /\ to \in LabelsIn(d) /\ \A m \in LabelsIn(vault) : m # from => m \in LabelsIn(d)
        /\ \A k : Holds(vault, from, k) => Holds(d, to, k)
        /\ \A m, k : m # from /\ Holds(vault, m, k) => Holds(d, m, k)
        /\ Seen(d, proven)
    BY <1>0, <2>1, RenamedHolds
  <2>3. CASE vault' = vault /\ file' = file /\ active' = active /\ backup' = backup
    BY <1>0, <2>1, <2>3, RefsIs
  <2>4. CASE /\ vault' = d /\ file' = d /\ active' = (IF active = from THEN to ELSE active)
             /\ backup' = IF backup.label = from THEN [backup EXCEPT !.label = to] ELSE backup
    <3>1. backup \in [label : Label \cup {NoLabel}, key : Key \cup {NoKey}]
      BY DEF Core, TypeOK
    <3>2. backup.label = from => backup # NoBackup
      BY DEF NoBackup, VaultAssumption
    <3>3. backup' # NoBackup => Holds(d, backup'.label, backup'.key)
      <4>1. CASE backup.label = from
        BY <1>0, <2>2, <2>4, <3>1, <3>2, <4>1
      <4>2. CASE backup.label # from
        BY <1>0, <2>2, <2>4, <4>2
      <4> QED
        BY <4>1, <4>2
    <3> HIDE DEF d
    <3> QED
      BY <1>0, <2>1, <2>2, <2>4, <3>3, RefsIs
  <2> QED
    BY <1>8, <2>3, <2>4, RenameIs
<1>9. ASSUME NEW l \in Label, SetActiveKey(l) PROVE Refs'
  BY <1>0, <1>9, RefsIs DEF SetActiveKey
<1>10. ASSUME NEW old \in Pass, NEW new \in Pass, ChangePassphrase(old, new) PROVE Refs'
  <2> DEFINE d == WithPass(vault, new)
  <2>1. /\ vault \in Doc /\ bak' \in {file, bak} /\ UNCHANGED <<active, backup, proven>>
        /\ (vault' = vault /\ file' = file) \/ (vault' = d /\ file' = d)
    BY <1>10, ChangeIs DEF ChangePassphrase
  <2>2. d.keys = vault.keys
    BY <2>1, WithPassIs
  <2>3. LabelsIn(d) = LabelsIn(vault) /\ Seen(d, proven)
        /\ \A m, k : Holds(vault, m, k) => Holds(d, m, k)
    BY <1>0, <2>2 DEF LabelsIn, Seen, Holds
  <2> HIDE DEF d
  <2> QED
    BY <1>0, <2>1, <2>3, RefsIs
<1>11. ASSUME NEW l \in Label, NEW p \in Pass, RevealBackup(l, p) PROVE Refs'
  <2>1. vault \in Doc /\ Distinct(vault) /\ l \in LabelsIn(vault) /\ AccountOf(vault, l) # NoKey
    BY <1>11, HasLabel DEF RevealBackup
  <2>2. Holds(vault, l, AccountOf(vault, l))
    BY <2>1, AccountIs DEF Holds, LabelsIn
  <2> QED
    BY <1>0, <1>11, <2>2, RefsIs DEF RevealBackup
<1>12. CASE CancelBackup
  BY <1>0, <1>12, RefsIs DEF CancelBackup
<1>13. ASSUME NEW k \in Key, ConfirmPhrase(k) PROVE Refs'
  <2>1. /\ backup # NoBackup /\ k = backup.key /\ backup' = NoBackup
        /\ proven' = proven \cup {k} /\ active' = active
    BY <1>13, ConfirmIs
  <2>2. Seen(vault, proven') /\ Seen(file, proven') /\ Seen(bak, proven')
    BY <1>0, <2>1, SeenMore
  <2>3. CASE vault' = vault /\ file' = file /\ bak' = bak
    BY <1>0, <2>1, <2>2, <2>3, RefsIs
  <2>4. CASE /\ backup.label \in LabelsIn(vault) /\ vault \in Doc /\ Distinct(vault)
             /\ vault' = Flagged(vault, backup.label)
             /\ file' \in {vault', file} /\ bak' \in {file, bak}
    <3>1. LabelsIn(vault') = LabelsIn(vault) /\ Seen(vault', proven')
      BY <1>0, <2>1, <2>4, FlaggedHolds
    <3> QED
      BY <1>0, <2>1, <2>2, <2>4, <3>1, RefsIs
  <2> QED
    BY <1>13, <2>3, <2>4, ConfirmIs
<1>14. ASSUME NEW p \in Pass, Unlock(p) PROVE Refs'
  BY <1>0, <1>14, RefsIs DEF Unlock
<1>15. CASE Lock
  BY <1>0, <1>15, RefsIs DEF Lock
<1> QED
  BY <1>1, <1>2, <1>3, <1>4, <1>5, <1>6, <1>7, <1>8, <1>9, <1>10, <1>11, <1>12, <1>13, <1>14, <1>15
     DEF Next
-----------------------------------------------------------------------------
LEMMA SameAccount ==
    ASSUME NEW doc, Distinct(doc), NEW d, Distinct(d), NEW i \in DOMAIN doc.keys, NEW j \in DOMAIN d.keys,
           d.keys[j].key = doc.keys[i].key, d.keys[j].origin = doc.keys[i].origin
    PROVE  AccountOf(d, d.keys[j].label) = AccountOf(doc, doc.keys[i].label)
  BY AccountIs

\* Whatever is done to the document, the active key keeps its account.
LEMMA AccountStays ==
    ASSUME VaultAssumption, Core, Refs, active # NoLabel,
           \/ \E p \in Pass, k \in Key, o \in Origin : Import(p, k, o)
           \/ \E l \in Label, k \in Key : AddKey(l, k)
           \/ \E from, to \in Label : RenameKey(from, to)
           \/ \E old, new \in Pass : ChangePassphrase(old, new)
           \/ \E k \in Key : ConfirmPhrase(k)
    PROVE  active' # NoLabel /\ AccountOf(vault', active') = AccountOf(vault, active)
<1> USE VaultAssumption
<1>0. /\ active \in LabelsIn(vault) /\ vault \in Doc /\ Distinct(vault) /\ Exists(vault) /\ active \in Label
  BY RefsIs, HasLabel DEF Core, TypeOK
<1>1. PICK i \in DOMAIN vault.keys : vault.keys[i].label = active
  BY <1>0 DEF LabelsIn
<1>2. ASSUME NEW l \in Label \ LabelsIn(vault), NEW k \in Key \ KeysIn(vault), NEW o \in Origin,
             vault' = WithKey(vault, l, k, o), active' = active
      PROVE  active' # NoLabel /\ AccountOf(vault', active') = AccountOf(vault, active)
  <2>1. /\ vault'.keys[i] = vault.keys[i] /\ i \in DOMAIN vault'.keys /\ Distinct(vault')
    BY <1>0, <1>1, <1>2, WithKeyIs, DocDomain
  <2>2. vault'.keys[i].label = active
    BY <1>1, <2>1
  <2>3. AccountOf(vault', vault'.keys[i].label) = AccountOf(vault, vault.keys[i].label)
    <3>1. Distinct(vault) /\ Distinct(vault') /\ i \in DOMAIN vault.keys /\ i \in DOMAIN vault'.keys
      BY <1>0, <1>1, <2>1
    <3>2. vault'.keys[i].key = vault.keys[i].key /\ vault'.keys[i].origin = vault.keys[i].origin
      BY <2>1
    <3> QED
      BY ONLY <3>1, <3>2, SameAccount
  <2> QED
    BY <1>1, <1>2, <2>2, <2>3
<1>3. ASSUME NEW p \in Pass, NEW k \in Key, NEW o \in Origin, Import(p, k, o)
      PROVE  active' # NoLabel /\ AccountOf(vault', active') = AccountOf(vault, active)
  <2>1. PICK doc \in Doc : \E f, b :
                 /\ Distinct(doc) /\ Main \notin LabelsIn(doc) /\ k \notin KeysIn(doc)
                 /\ Added(doc, Main, k, o, f, b) /\ doc = vault
    BY <1>0, <1>3, ImportIs
  <2>2. Main \in Label \ LabelsIn(vault) /\ k \in Key \ KeysIn(vault)
    BY <2>1 DEF VaultAssumption
  <2>3. vault' = WithKey(vault, Main, k, o) /\ active' = active
    BY <2>1, <2>2, AddedIs
  <2> QED
    BY <1>2, <2>2, <2>3
<1>4. ASSUME NEW l \in Label, NEW k \in Key, AddKey(l, k)
      PROVE  active' # NoLabel /\ AccountOf(vault', active') = AccountOf(vault, active)
  <2>1. l \in Label \ LabelsIn(vault) /\ k \in Key \ KeysIn(vault) /\ "generated" \in Origin
    BY <1>4 DEF AddKey, Origin, Core, Known
  <2>2. Added(vault, l, k, "generated", file, bak)
    BY <1>4 DEF AddKey
  <2>3. vault' = WithKey(vault, l, k, "generated") /\ active' = active
    BY <1>0, <2>1, <2>2, AddedIs
  <2> QED
    BY <1>2, <2>1, <2>3
<1>5. ASSUME NEW from \in Label, NEW to \in Label, RenameKey(from, to)
      PROVE  active' # NoLabel /\ AccountOf(vault', active') = AccountOf(vault, active)
  <2> DEFINE d == Renamed(vault, from, to)
  <2>1. CASE vault' = vault /\ active' = active
    BY <2>1
  <2>2. CASE vault' = d /\ active' = IF active = from THEN to ELSE active
    <3>1. from \in LabelsIn(vault) /\ to \notin LabelsIn(vault)
      BY <1>5, RenameIs
    <3>2. /\ DOMAIN d.keys = DOMAIN vault.keys /\ Distinct(d)
          /\ d.keys[i] = IF i = At(vault, from) THEN [vault.keys[i] EXCEPT !.label = to] ELSE vault.keys[i]
      BY <1>0, <1>1, <3>1, RenamedIs
    <3>3. vault.keys[i] \in Entry
      BY <1>0, <1>1, DocDomain
    <3>4. i = At(vault, from) <=> active = from
      BY <1>0, <1>1, <3>1, AtFinds DEF Distinct
    <3> HIDE DEF d
    <3>5. /\ d.keys[i].label = active' /\ d.keys[i].key = vault.keys[i].key
          /\ d.keys[i].origin = vault.keys[i].origin
      BY <1>1, <2>2, <3>2, <3>3, <3>4 DEF Entry
    <3>6. AccountOf(d, d.keys[i].label) = AccountOf(vault, vault.keys[i].label)
      <4>1. Distinct(vault) /\ Distinct(d) /\ i \in DOMAIN vault.keys /\ i \in DOMAIN d.keys
        BY <1>0, <1>1, <3>2
      <4>2. d.keys[i].key = vault.keys[i].key /\ d.keys[i].origin = vault.keys[i].origin
        BY <3>5
      <4> QED
        BY ONLY <4>1, <4>2, SameAccount
    <3>7. active' # NoLabel
      BY <2>2 DEF VaultAssumption
    <3> QED
      BY <1>1, <2>2, <3>5, <3>6, <3>7
  <2> QED
    BY <1>5, <2>1, <2>2, RenameIs
<1>6. ASSUME NEW old \in Pass, NEW new \in Pass, ChangePassphrase(old, new)
      PROVE  active' # NoLabel /\ AccountOf(vault', active') = AccountOf(vault, active)
  <2>1. vault'.keys = vault.keys /\ active' = active
    BY <1>6, ChangeIs, WithPassIs DEF ChangePassphrase
  <2> QED
    BY <2>1 DEF AccountOf
<1>7. ASSUME NEW k \in Key, ConfirmPhrase(k)
      PROVE  active' # NoLabel /\ AccountOf(vault', active') = AccountOf(vault, active)
  <2>1. active' = active
    BY <1>7, ConfirmIs
  <2>2. CASE vault' = vault
    BY <2>1, <2>2
  <2>3. CASE vault' = Flagged(vault, backup.label) /\ backup.label \in LabelsIn(vault)
    <3>1. /\ DOMAIN vault'.keys = DOMAIN vault.keys /\ Distinct(vault')
          /\ vault'.keys[i].label = vault.keys[i].label /\ vault'.keys[i].key = vault.keys[i].key
          /\ vault'.keys[i].origin = vault.keys[i].origin
      BY <1>0, <1>1, <2>3, FlaggedIs
    <3>2. AccountOf(vault', vault'.keys[i].label) = AccountOf(vault, vault.keys[i].label)
      <4>1. Distinct(vault) /\ Distinct(vault') /\ i \in DOMAIN vault.keys /\ i \in DOMAIN vault'.keys
        BY <1>0, <1>1, <3>1
      <4> QED
        BY ONLY <4>1, <3>1, SameAccount
    <3> QED
      BY <1>1, <2>1, <3>1, <3>2
  <2> QED
    BY <1>7, <2>2, <2>3, ConfirmIs
<1> QED
  BY <1>3, <1>4, <1>5, <1>6, <1>7

LEMMA NoAccount ==
    ASSUME VaultAssumption, Core PROVE AccountOf(vault, NoLabel) = NoKey
<1>1. CASE vault = NoDoc
  BY <1>1, NoDocIs DEF AccountOf
<1>2. CASE vault \in Doc /\ Distinct(vault)
  <2>1. NoLabel \notin LabelsIn(vault)
    BY <1>2, DocDomain DEF LabelsIn, Entry, VaultAssumption
  <2> QED
    BY <1>2, <2>1, AccountIs
<1> QED
  BY <1>1, <1>2, DocIs DEF Core, TypeOK

LEMMA ShieldedStep ==
    ASSUME VaultAssumption, Core, Refs, [Next]_vars
    PROVE  /\ ShieldedIsActives => ShieldedIsActives'
           /\ ~Imports /\ ShieldedFollowsActive => ShieldedFollowsActive'
<1> USE VaultAssumption
<1> DEFINE Goal == /\ ShieldedIsActives => ShieldedIsActives'
                   /\ ~Imports /\ ShieldedFollowsActive => ShieldedFollowsActive'
<1>0. AccountOf(vault, NoLabel) = NoKey
  BY NoAccount
<1>1. CASE UNCHANGED <<vault, dek, active, shielded>>
  BY <1>1 DEF ShieldedIsActives, ShieldedFollowsActive
<1>2. CASE ~dek' /\ shielded' = NoKey
  BY <1>2 DEF ShieldedIsActives, ShieldedFollowsActive
<1>3. CASE dek' = TRUE /\ shielded' = AccountOf(vault', active')
  BY <1>3 DEF ShieldedIsActives, ShieldedFollowsActive
<1>4. ASSUME UNCHANGED <<dek, shielded>>, active # NoLabel, active' # NoLabel,
             AccountOf(vault', active') = AccountOf(vault, active)
      PROVE  Goal
  BY <1>4 DEF ShieldedIsActives, ShieldedFollowsActive
<1>5. ASSUME UNCHANGED shielded, active = NoLabel, active' = NoLabel, ShieldedIsActives
      PROVE  ShieldedIsActives'
  BY <1>0, <1>5 DEF ShieldedIsActives
<1>6. ASSUME NEW read \in BOOLEAN, Open(read) PROVE Goal
  BY <1>2, <1>6, OpenIs
<1>7. CASE Stop
  BY <1>2, <1>7 DEF Stop, Gone
<1>8. ASSUME NEW p \in Pass, CrashHalfway(p) PROVE Goal
  BY <1>2, <1>8 DEF CrashHalfway, Gone
<1>9. ASSUME NEW p \in Pass, NEW k \in Key, Create(p, k) PROVE Goal
  <2> DEFINE d == WithKey(EmptyDoc(p), Main, k, "generated")
  <2>1. \/ UNCHANGED <<vault, dek, active, shielded>>
        \/ vault' = d /\ dek' = TRUE /\ active' = Main /\ shielded' = AccountOf(d, Main)
    BY <1>9, CreateIs
  <2> HIDE DEF d
  <2> QED
    BY <1>1, <1>3, <2>1
<1>10. ASSUME NEW p \in Pass, NEW k \in Key, NEW o \in Origin, Import(p, k, o) PROVE Goal
  <2>1. Imports /\ shielded' = shielded
    BY <1>10 DEF Import
  <2>2. ASSUME ShieldedIsActives PROVE ShieldedIsActives'
    <3>1. shielded # NoKey => dek /\ active # NoLabel /\ Exists(vault)
      BY <1>0, <2>2 DEF ShieldedIsActives, Core, Closed
    <3>2. Exists(vault) => dek' = TRUE
      BY <1>10, ImportIs
    <3>3. shielded # NoKey => AccountOf(vault', active') = AccountOf(vault, active)
      BY <1>10, <3>1, AccountStays
    <3> QED
      BY <2>1, <2>2, <3>1, <3>2, <3>3 DEF ShieldedIsActives
  <2> QED
    BY <2>1, <2>2
<1>11. ASSUME NEW l \in Label, NEW k \in Key, AddKey(l, k) PROVE Goal
  <2>1. UNCHANGED <<dek, shielded>>
    BY <1>11 DEF AddKey
  <2>2. CASE active # NoLabel
    BY <1>4, <1>11, <2>1, <2>2, AccountStays
  <2>3. CASE active = NoLabel
    <3>1. active' = NoLabel
      <4>1. /\ vault \in Doc /\ Distinct(vault) /\ l \in Label \ LabelsIn(vault)
            /\ k \in Key \ KeysIn(vault) /\ "generated" \in Origin
        BY <1>11, DocIs DEF AddKey, Exists, Origin, Core, TypeOK, Known
      <4>2. Added(vault, l, k, "generated", file, bak)
        BY <1>11 DEF AddKey
      <4> QED
        BY <2>3, <4>1, <4>2, AddedIs
    <3>2. ShieldedFollowsActive'
      BY <3>1 DEF ShieldedFollowsActive
    <3> QED
      BY <1>5, <2>1, <2>3, <3>1, <3>2
  <2> QED
    BY <2>2, <2>3
<1>12. ASSUME NEW from \in Label, NEW to \in Label, RenameKey(from, to) PROVE Goal
  <2>1. UNCHANGED <<dek, shielded>>
    BY <1>12 DEF RenameKey
  <2>2. CASE active # NoLabel
    BY <1>4, <1>12, <2>1, <2>2, AccountStays
  <2>3. CASE active = NoLabel
    <3>1. active' = NoLabel
      BY <1>12, <2>3, RenameIs DEF VaultAssumption
    <3>2. ShieldedFollowsActive'
      BY <3>1 DEF ShieldedFollowsActive
    <3> QED
      BY <1>5, <2>1, <2>3, <3>1, <3>2
  <2> QED
    BY <2>2, <2>3
<1>13. ASSUME NEW l \in Label, SetActiveKey(l) PROVE Goal
  <2>1. CASE dek
    BY <1>3, <1>13, <2>1 DEF SetActiveKey, Core, TypeOK
  <2>2. CASE ~dek
    BY <1>2, <1>13, <2>2 DEF SetActiveKey
  <2> QED
    BY <2>1, <2>2
<1>14. ASSUME NEW old \in Pass, NEW new \in Pass, ChangePassphrase(old, new) PROVE Goal
  <2>1. UNCHANGED <<dek, active, shielded>>
    BY <1>14 DEF ChangePassphrase
  <2>2. CASE active # NoLabel
    BY <1>4, <1>14, <2>1, <2>2, AccountStays
  <2>3. CASE active = NoLabel
    BY <1>5, <2>1, <2>3 DEF ShieldedFollowsActive
  <2> QED
    BY <2>2, <2>3
<1>15. ASSUME NEW l \in Label, NEW p \in Pass, RevealBackup(l, p) PROVE Goal
  BY <1>1, <1>15 DEF RevealBackup
<1>16. CASE CancelBackup
  BY <1>1, <1>16 DEF CancelBackup
<1>17. ASSUME NEW k \in Key, ConfirmPhrase(k) PROVE Goal
  <2>1. UNCHANGED <<dek, active, shielded>>
    BY <1>17, ConfirmIs
  <2>2. CASE active # NoLabel
    BY <1>4, <1>17, <2>1, <2>2, AccountStays
  <2>3. CASE active = NoLabel
    BY <1>5, <2>1, <2>3 DEF ShieldedFollowsActive
  <2> QED
    BY <2>2, <2>3
<1>18. ASSUME NEW p \in Pass, Unlock(p) PROVE Goal
  BY <1>3, <1>18 DEF Unlock
<1>19. CASE Lock
  BY <1>2, <1>19 DEF Lock
<1>20. CASE UNCHANGED vars
  BY <1>1, <1>20 DEF vars
<1> QED
  BY <1>6, <1>7, <1>8, <1>9, <1>10, <1>11, <1>12, <1>13, <1>14, <1>15, <1>16, <1>17, <1>18, <1>19, <1>20
     DEF Next
-----------------------------------------------------------------------------
\* Every backup one document knows, the other knows.
Knows(doc, than) ==
    \A i \in DOMAIN than.keys, j \in DOMAIN doc.keys :
        than.keys[i].key = doc.keys[j].key /\ than.keys[i].backedUp => doc.keys[j].backedUp

LEMMA KnowsItself == ASSUME NEW doc, Distinct(doc) PROVE Knows(doc, doc)
  BY DEF Knows, Distinct

\* Every step leaves a file that knows what the file knew, and a memory that knows
\* what the file knows.
LEMMA FlagsStep ==
    ASSUME VaultAssumption, ~ReadsFail, Core, Kept, FlagsKept, [Next]_vars
    PROVE  FlagsKept' /\ FlagStays
<1> USE VaultAssumption
<1> DEFINE Goal == Knows(vault', file') /\ Knows(file', file)
<1>0. /\ Knows(vault, file) /\ IsDoc(file) /\ up \in BOOLEAN
      /\ (up => KeysIn(file) \subseteq KeysIn(vault))
  BY DEF FlagsKept, Knows, Core, TypeOK, Kept
<1>d. \A doc, than : DOMAIN than.keys = {} \/ KeysIn(doc) \cap KeysIn(than) = {} => Knows(doc, than)
  BY DEF Knows, KeysIn
<1> SUFFICES Goal
  BY DEF Knows, FlagsKept, FlagStays
<1>k. Distinct(file) /\ Knows(file, file)
  BY <1>0, KnowsItself DEF IsDoc, Distinct, NoDoc
<1>1. CASE UNCHANGED <<vault, file>>
  BY <1>0, <1>1, <1>k
<1>2. CASE file' = file /\ (vault' = file \/ vault' = NoDoc)
  <2>1. Knows(NoDoc, file)
    BY <1>d, NoDocIs
  <2> QED
    BY <1>2, <1>k, <2>1
<1>3. ASSUME file' = vault', Distinct(vault'), Knows(vault', file) PROVE Goal
  BY <1>3, KnowsItself
<1>4. ASSUME file' = file, Knows(vault', file) PROVE Goal
  BY <1>4, <1>k
<1>5. ASSUME ~Exists(vault), up PROVE KeysIn(file) = {}
  BY <1>0, <1>5, NoDocIs DEF Exists
<1>6. ASSUME KeysIn(file) = {}, NEW doc PROVE Knows(doc, file)
  BY <1>6, <1>d
<1>7. ASSUME NEW p \in Pass, NEW doc PROVE Knows(doc, EmptyDoc(p))
  BY DEF Knows, EmptyDoc
<1>8. ASSUME NEW doc \in Doc, NEW l \in Label, NEW k \in Key, NEW o \in Origin, NEW than,
             Knows(doc, than), k \notin KeysIn(than), vault' = WithKey(doc, l, k, o)
      PROVE  Knows(vault', than)
  <2>1. /\ \A i \in DOMAIN doc.keys : vault'.keys[i] = doc.keys[i]
        /\ vault'.keys[Len(doc.keys) + 1] = EntryOf(l, k, o)
        /\ DOMAIN vault'.keys = 1 .. Len(doc.keys) + 1
    BY <1>8, WithKeyIs
  <2>2. EntryOf(l, k, o).key = k
    BY DEF EntryOf
  <2>3. DOMAIN doc.keys = 1 .. Len(doc.keys) /\ Len(doc.keys) \in Nat
    BY DocDomain
  <2> QED
    BY <1>8, <2>1, <2>2, <2>3 DEF Knows, KeysIn
<1>10. ASSUME NEW read \in BOOLEAN, Open(read) PROVE Goal
  BY <1>2, <1>10, OpenIs
<1>11. CASE Stop
  BY <1>2, <1>11 DEF Stop, Gone
<1>12. ASSUME NEW p \in Pass, CrashHalfway(p) PROVE Goal
  <2>1. file' = EmptyDoc(p) /\ KeysIn(file) = {}
    BY <1>5, <1>12 DEF CrashHalfway, Disk
  <2> QED
    BY <1>6, <1>7, <2>1
<1>13. ASSUME NEW p \in Pass, NEW k \in Key, Create(p, k) PROVE Goal
  <2> DEFINE d == WithKey(EmptyDoc(p), Main, k, "generated")
  <2>1. Distinct(d)
    BY WithKeyIs, EmptyDocIs DEF Origin, VaultAssumption
  <2>2. KeysIn(file) = {}
    BY <1>5, <1>13 DEF Create, MayCreate
  <2>3. \/ UNCHANGED <<vault, file>>
        \/ file' = EmptyDoc(p)
        \/ file' = d /\ vault' = d
    BY <1>13, CreateIs
  <2> HIDE DEF d
  <2> QED
    BY <1>1, <1>3, <1>6, <1>7, <2>1, <2>2, <2>3
<1>14. ASSUME NEW p \in Pass, NEW k \in Key, NEW o \in Origin, Import(p, k, o) PROVE Goal
  <2>1. CASE vault' = vault /\ file' = file
    BY <1>1, <2>1
  <2>2. ASSUME NEW doc \in Doc, NEW f, NEW b,
               Distinct(doc), Main \notin LabelsIn(doc), k \notin KeysIn(doc),
               Added(doc, Main, k, o, f, b),
               \/ Exists(vault) /\ dek /\ doc = vault /\ f = file /\ b = bak
               \/ ~Exists(vault) /\ doc = EmptyDoc(p) /\ f = EmptyDoc(p) /\ b \in {file, bak}
        PROVE  Goal
    <3>1. Main \in Label \ LabelsIn(doc) /\ k \in Key \ KeysIn(doc) /\ up
      BY <1>14, <2>2 DEF VaultAssumption, Import
    <3>2. /\ vault' = WithKey(doc, Main, k, o) /\ file' \in {vault', f} /\ Distinct(vault')
      BY <2>2, <3>1, AddedIs
    <3>3. CASE ~Exists(vault)
      <4>1. Knows(vault', file) /\ Knows(file', file)
        BY <1>5, <1>6, <3>1, <3>3
      <4>2. Knows(vault', file')
        BY <1>7, <2>2, <3>2, <3>3, KnowsItself
      <4> QED
        BY <4>1, <4>2
    <3>4. CASE Exists(vault)
      <4>1. k \notin KeysIn(file) /\ Knows(doc, file)
        BY <1>0, <2>2, <3>1, <3>4
      <4>2. Knows(vault', file)
        BY <1>8, <3>1, <3>2, <4>1
      <4> QED
        BY <1>3, <1>4, <2>2, <3>2, <3>4, <4>2
    <3> QED
      BY <3>3, <3>4
  <2> QED
    BY <1>14, <2>1, <2>2, ImportIs
<1>15. ASSUME NEW l \in Label, NEW k \in Key, AddKey(l, k) PROVE Goal
  <2>1. /\ vault \in Doc /\ Distinct(vault) /\ l \in Label \ LabelsIn(vault)
        /\ k \in Key \ KeysIn(vault) /\ "generated" \in Origin /\ up
    BY <1>15, DocIs DEF AddKey, Exists, Origin, Core, TypeOK, Known
  <2>2. Added(vault, l, k, "generated", file, bak)
    BY <1>15 DEF AddKey
  <2>3. vault' = WithKey(vault, l, k, "generated") /\ file' \in {vault', file} /\ Distinct(vault')
    BY <2>1, <2>2, AddedIs
  <2>4. k \notin KeysIn(file)
    BY <1>0, <2>1
  <2>5. Knows(vault', file)
    BY <1>0, <1>8, <2>1, <2>3, <2>4
  <2> QED
    BY <1>3, <1>4, <2>3, <2>5
<1>16. ASSUME NEW from \in Label, NEW to \in Label, RenameKey(from, to) PROVE Goal
  <2> DEFINE d == Renamed(vault, from, to)
  <2>1. CASE vault' = vault /\ file' = file
    BY <1>1, <2>1
  <2>2. CASE vault' = d /\ file' = d
    <3>1. vault \in Doc /\ from \in LabelsIn(vault) /\ to \notin LabelsIn(vault) /\ Distinct(vault)
      BY <1>16, RenameIs
    <3>2. /\ DOMAIN d.keys = DOMAIN vault.keys /\ Distinct(d)
          /\ \A i \in DOMAIN vault.keys :
               d.keys[i] = IF i = At(vault, from) THEN [vault.keys[i] EXCEPT !.label = to]
                           ELSE vault.keys[i]
      BY <3>1, RenamedIs
    <3> HIDE DEF d
    <3>3. \A i \in DOMAIN vault.keys :
             d.keys[i].key = vault.keys[i].key /\ d.keys[i].backedUp = vault.keys[i].backedUp
      BY <3>1, <3>2, DocDomain DEF Entry
    <3>4. Knows(d, file)
      BY <1>0, <3>2, <3>3 DEF Knows
    <3> QED
      BY <1>3, <2>2, <3>2, <3>4
  <2> QED
    BY <1>16, <2>1, <2>2, RenameIs
<1>17. ASSUME NEW l \in Label, SetActiveKey(l) PROVE Goal
  BY <1>1, <1>17 DEF SetActiveKey
<1>18. ASSUME NEW old \in Pass, NEW new \in Pass, ChangePassphrase(old, new) PROVE Goal
  <2> DEFINE d == WithPass(vault, new)
  <2>1. d.keys = vault.keys /\ Distinct(d)
    BY <1>18, ChangeIs, WithPassIs
  <2>2. (vault' = vault /\ file' = file) \/ (vault' = d /\ file' = d)
    BY <1>18, ChangeIs
  <2> HIDE DEF d
  <2>3. Knows(d, file)
    BY <1>0, <2>1 DEF Knows
  <2> QED
    BY <1>1, <1>3, <2>1, <2>2, <2>3
<1>19. ASSUME NEW l \in Label, NEW p \in Pass, RevealBackup(l, p) PROVE Goal
  BY <1>1, <1>19 DEF RevealBackup
<1>20. CASE CancelBackup
  BY <1>1, <1>20 DEF CancelBackup
<1>21. ASSUME NEW k \in Key, ConfirmPhrase(k) PROVE Goal
  <2>1. CASE vault' = vault /\ file' = file
    BY <1>1, <2>1
  <2>2. CASE /\ backup.label \in LabelsIn(vault) /\ vault \in Doc /\ Distinct(vault)
             /\ vault' = Flagged(vault, backup.label) /\ file' \in {vault', file}
    <3>1. /\ DOMAIN vault'.keys = DOMAIN vault.keys /\ Distinct(vault')
          /\ \A i \in DOMAIN vault.keys : /\ vault'.keys[i].key = vault.keys[i].key
                                          /\ vault.keys[i].backedUp => vault'.keys[i].backedUp
      BY <2>2, FlaggedIs
    <3>2. Knows(vault', file)
      BY <1>0, <3>1 DEF Knows
    <3> QED
      BY <1>3, <1>4, <2>2, <3>1, <3>2
  <2> QED
    BY <1>21, <2>1, <2>2, ConfirmIs
<1>22. ASSUME NEW p \in Pass, Unlock(p) PROVE Goal
  BY <1>1, <1>22 DEF Unlock
<1>23. CASE Lock
  BY <1>1, <1>23 DEF Lock
<1>24. CASE UNCHANGED vars
  BY <1>1, <1>24 DEF vars
<1> QED
  BY <1>10, <1>11, <1>12, <1>13, <1>14, <1>15, <1>16, <1>17, <1>18, <1>19, <1>20, <1>21, <1>22,
     <1>23, <1>24 DEF Next
-----------------------------------------------------------------------------
\* A document is only ever written with a key in it: the first key's write does not
\* fail, and nothing ends the program before it.
LEMMA NeverEmptyStep ==
    ASSUME VaultAssumption, ~MayCrash, "add" \notin FailsIn, Core, NeverEmpty, [Next]_vars
    PROVE  NeverEmpty'
<1> USE VaultAssumption
<1> DEFINE Full(doc) == Exists(doc) => doc.keys # <<>>
<1>0. Full(file) /\ Full(vault)
  BY DEF NeverEmpty
<1> SUFFICES Full(file') /\ Full(vault')
  BY DEF NeverEmpty
<1>d. Full(NoDoc)
  BY DEF Exists
<1>1. CASE UNCHANGED <<vault, file>>
  BY <1>0, <1>1
<1>2. CASE file' = file /\ (vault' = file \/ vault' = NoDoc)
  BY <1>0, <1>2, <1>d
<1>3. ASSUME NEW doc \in Doc, NEW l \in Label, NEW k \in Key, NEW o \in Origin
      PROVE  Full(WithKey(doc, l, k, o))
  <2>1. Len(WithKey(doc, l, k, o).keys) = Len(doc.keys) + 1
    BY WithKeyIs
  <2>2. Len(doc.keys) \in Nat
    BY DocDomain
  <2> QED
    BY <2>1, <2>2
<1>10. ASSUME NEW read \in BOOLEAN, Open(read) PROVE Full(file') /\ Full(vault')
  BY <1>2, <1>10, OpenIs
<1>11. CASE Stop
  BY <1>2, <1>11 DEF Stop, Gone
<1>12. ASSUME NEW p \in Pass, CrashHalfway(p) PROVE FALSE
  BY <1>12 DEF CrashHalfway
<1>13. ASSUME NEW p \in Pass, NEW k \in Key, Create(p, k) PROVE Full(file') /\ Full(vault')
  <2> DEFINE d == WithKey(EmptyDoc(p), Main, k, "generated")
  <2>1. Full(d)
    BY <1>3, EmptyDocIs DEF Origin, VaultAssumption
  <2>2. UNCHANGED <<vault, file>> \/ (file' = d /\ vault' = d)
    BY <1>13, CreateIs
  <2> HIDE DEF d
  <2> QED
    BY <1>1, <2>1, <2>2
<1>14. ASSUME NEW p \in Pass, NEW k \in Key, NEW o \in Origin, Import(p, k, o)
       PROVE  Full(file') /\ Full(vault')
  <2>1. CASE vault' = vault /\ file' = file
    BY <1>1, <2>1
  <2>2. ASSUME NEW doc \in Doc, NEW f, NEW b,
               Distinct(doc), Main \notin LabelsIn(doc), k \notin KeysIn(doc),
               Added(doc, Main, k, o, f, b)
        PROVE  Full(file') /\ Full(vault')
    <3>1. Main \in Label \ LabelsIn(doc) /\ k \in Key \ KeysIn(doc)
      BY <2>2 DEF VaultAssumption
    <3>2. vault' = WithKey(doc, Main, k, o) /\ file' = vault'
      BY <2>2, <3>1, AddedIs
    <3> QED
      BY <1>3, <3>1, <3>2
  <2> QED
    BY <1>14, <2>1, <2>2, ImportIs
<1>15. ASSUME NEW l \in Label, NEW k \in Key, AddKey(l, k) PROVE Full(file') /\ Full(vault')
  <2>1. /\ vault \in Doc /\ Distinct(vault) /\ l \in Label \ LabelsIn(vault)
        /\ k \in Key \ KeysIn(vault) /\ "generated" \in Origin
    BY <1>15, DocIs DEF AddKey, Exists, Origin, Core, TypeOK, Known
  <2>2. Added(vault, l, k, "generated", file, bak)
    BY <1>15 DEF AddKey
  <2>3. vault' = WithKey(vault, l, k, "generated") /\ file' = vault'
    BY <2>1, <2>2, AddedIs
  <2> QED
    BY <1>3, <2>1, <2>3
<1>4. ASSUME NEW doc \in Doc, NEW d, DOMAIN d.keys = DOMAIN doc.keys, Full(doc), d \in Doc
      PROVE  Full(d)
  <2>1. doc.keys # <<>> /\ doc.keys \in Seq(Entry) /\ d.keys \in Seq(Entry)
    BY <1>4, DocExists DEF Doc
  <2>2. 1 \in DOMAIN doc.keys
    BY <2>1
  <2> QED
    BY <1>4, <2>2
<1>16. ASSUME NEW from \in Label, NEW to \in Label, RenameKey(from, to) PROVE Full(file') /\ Full(vault')
  <2> DEFINE d == Renamed(vault, from, to)
  <2>1. UNCHANGED <<vault, file>> \/ (file' = d /\ vault' = d)
    BY <1>16, RenameIs
  <2>2. vault \in Doc /\ DOMAIN d.keys = DOMAIN vault.keys /\ d \in Doc
    BY <1>16, RenameIs, RenamedIs
  <2> HIDE DEF d
  <2> QED
    BY <1>0, <1>1, <1>4, <2>1, <2>2
<1>17. ASSUME NEW l \in Label, SetActiveKey(l) PROVE Full(file') /\ Full(vault')
  BY <1>1, <1>17 DEF SetActiveKey
<1>18. ASSUME NEW old \in Pass, NEW new \in Pass, ChangePassphrase(old, new)
       PROVE  Full(file') /\ Full(vault')
  <2> DEFINE d == WithPass(vault, new)
  <2>1. UNCHANGED <<vault, file>> \/ (file' = d /\ vault' = d)
    BY <1>18, ChangeIs
  <2>2. vault \in Doc /\ DOMAIN d.keys = DOMAIN vault.keys /\ d \in Doc
    BY <1>18, ChangeIs, WithPassIs
  <2> HIDE DEF d
  <2> QED
    BY <1>0, <1>1, <1>4, <2>1, <2>2
<1>19. ASSUME NEW l \in Label, NEW p \in Pass, RevealBackup(l, p) PROVE Full(file') /\ Full(vault')
  BY <1>1, <1>19 DEF RevealBackup
<1>20. CASE CancelBackup
  BY <1>1, <1>20 DEF CancelBackup
<1>21. ASSUME NEW k \in Key, ConfirmPhrase(k) PROVE Full(file') /\ Full(vault')
  <2>1. CASE vault' = vault /\ file' = file
    BY <1>1, <2>1
  <2>2. CASE /\ backup.label \in LabelsIn(vault) /\ vault \in Doc
             /\ vault' = Flagged(vault, backup.label) /\ file' \in {vault', file}
    <3>1. DOMAIN vault'.keys = DOMAIN vault.keys /\ vault' \in Doc
      BY <2>2, FlaggedIs
    <3> QED
      BY <1>0, <1>4, <2>2, <3>1
  <2> QED
    BY <1>21, <2>1, <2>2, ConfirmIs
<1>22. ASSUME NEW p \in Pass, Unlock(p) PROVE Full(file') /\ Full(vault')
  BY <1>1, <1>22 DEF Unlock
<1>23. CASE Lock
  BY <1>1, <1>23 DEF Lock
<1>24. CASE UNCHANGED vars
  BY <1>1, <1>24 DEF vars
<1> HIDE DEF Full
<1> QED
  BY <1>10, <1>11, <1>12, <1>13, <1>14, <1>15, <1>16, <1>17, <1>18, <1>19, <1>20, <1>21, <1>22,
     <1>23, <1>24 DEF Next

\* A restart opens the wallet that memory has: what is written is what is held, and
\* what is not written is taken back, but for the flag, which opens the same.
LEMMA OpensStep ==
    ASSUME VaultAssumption, "add" \notin FailsIn, Core, OpensAfterRestart, [Next]_vars
    PROVE  OpensAfterRestart'
<1> USE VaultAssumption
<1> DEFINE Goal == Exists(vault') => Opens(vault') = Opens(file')
<1>0. Exists(vault) => Opens(vault) = Opens(file)
  BY DEF OpensAfterRestart
<1> SUFFICES Goal
  BY DEF OpensAfterRestart
<1>1. CASE UNCHANGED <<vault, file>>
  BY <1>0, <1>1
<1>2. CASE vault' = file' \/ vault' = NoDoc
  BY <1>2 DEF Exists
<1>3. CASE vault' = vault /\ ~Exists(vault)
  BY <1>3
<1>10. ASSUME NEW read \in BOOLEAN, Open(read) PROVE Goal
  BY <1>2, <1>10, OpenIs
<1>11. CASE Stop
  BY <1>2, <1>11 DEF Stop, Gone
<1>12. ASSUME NEW p \in Pass, CrashHalfway(p) PROVE Goal
  BY <1>2, <1>12 DEF CrashHalfway, Gone
<1>13. ASSUME NEW p \in Pass, NEW k \in Key, Create(p, k) PROVE Goal
  <2> DEFINE d == WithKey(EmptyDoc(p), Main, k, "generated")
  <2>1. (vault' = vault /\ ~Exists(vault)) \/ (file' = d /\ vault' = d)
    BY <1>13, CreateIs
  <2> HIDE DEF d
  <2> QED
    BY <1>2, <1>3, <2>1
<1>14. ASSUME NEW p \in Pass, NEW k \in Key, NEW o \in Origin, Import(p, k, o) PROVE Goal
  <2>1. CASE vault' = vault /\ file' = file
    BY <1>1, <2>1
  <2>2. ASSUME NEW doc \in Doc, NEW f, NEW b,
               Distinct(doc), Main \notin LabelsIn(doc), k \notin KeysIn(doc),
               Added(doc, Main, k, o, f, b)
        PROVE  Goal
    <3>1. Main \in Label \ LabelsIn(doc) /\ k \in Key \ KeysIn(doc)
      BY <2>2 DEF VaultAssumption
    <3>2. file' = vault'
      BY <2>2, <3>1, AddedIs
    <3> QED
      BY <1>2, <3>2
  <2> QED
    BY <1>14, <2>1, <2>2, ImportIs
<1>15. ASSUME NEW l \in Label, NEW k \in Key, AddKey(l, k) PROVE Goal
  <2>1. /\ vault \in Doc /\ Distinct(vault) /\ l \in Label \ LabelsIn(vault)
        /\ k \in Key \ KeysIn(vault) /\ "generated" \in Origin
    BY <1>15, DocIs DEF AddKey, Exists, Origin, Core, TypeOK, Known
  <2>2. Added(vault, l, k, "generated", file, bak)
    BY <1>15 DEF AddKey
  <2>3. file' = vault'
    BY <2>1, <2>2, AddedIs
  <2> QED
    BY <1>2, <2>3
<1>16. ASSUME NEW from \in Label, NEW to \in Label, RenameKey(from, to) PROVE Goal
  <2> DEFINE d == Renamed(vault, from, to)
  <2>1. UNCHANGED <<vault, file>> \/ (file' = d /\ vault' = d)
    BY <1>16, RenameIs
  <2> HIDE DEF d
  <2> QED
    BY <1>1, <1>2, <2>1
<1>17. ASSUME NEW l \in Label, SetActiveKey(l) PROVE Goal
  BY <1>1, <1>17 DEF SetActiveKey
<1>18. ASSUME NEW old \in Pass, NEW new \in Pass, ChangePassphrase(old, new) PROVE Goal
  <2> DEFINE d == WithPass(vault, new)
  <2>1. UNCHANGED <<vault, file>> \/ (file' = d /\ vault' = d)
    BY <1>18, ChangeIs
  <2> HIDE DEF d
  <2> QED
    BY <1>1, <1>2, <2>1
<1>19. ASSUME NEW l \in Label, NEW p \in Pass, RevealBackup(l, p) PROVE Goal
  BY <1>1, <1>19 DEF RevealBackup
<1>20. CASE CancelBackup
  BY <1>1, <1>20 DEF CancelBackup
<1>21. ASSUME NEW k \in Key, ConfirmPhrase(k) PROVE Goal
  <2>1. CASE vault' = vault /\ file' = file
    BY <1>1, <2>1
  <2>2. CASE /\ backup.label \in LabelsIn(vault) /\ vault \in Doc
             /\ vault' = Flagged(vault, backup.label) /\ file' \in {vault', file}
    <3>1. /\ vault'.pass = vault.pass /\ DOMAIN vault'.keys = DOMAIN vault.keys
          /\ \A i \in DOMAIN vault.keys : /\ vault'.keys[i].label = vault.keys[i].label
                                          /\ vault'.keys[i].key = vault.keys[i].key
      BY <2>2, FlaggedIs
    <3>2. Opens(vault') = Opens(vault)
      BY <3>1 DEF Opens
    <3>3. Exists(vault)
      BY <2>2, DocExists
    <3> QED
      BY <1>0, <1>2, <2>2, <3>2, <3>3
  <2> QED
    BY <1>21, <2>1, <2>2, ConfirmIs
<1>22. ASSUME NEW p \in Pass, Unlock(p) PROVE Goal
  BY <1>1, <1>22 DEF Unlock
<1>23. CASE Lock
  BY <1>1, <1>23 DEF Lock
<1>24. CASE UNCHANGED vars
  BY <1>1, <1>24 DEF vars
<1> HIDE DEF Goal
<1> QED
  BY <1>10, <1>11, <1>12, <1>13, <1>14, <1>15, <1>16, <1>17, <1>18, <1>19, <1>20, <1>21, <1>22,
     <1>23, <1>24 DEF Next
-----------------------------------------------------------------------------
LEMMA ShieldedInit ==
    ASSUME VaultAssumption, Init
    PROVE  Refs /\ ShieldedIsActives /\ ShieldedFollowsActive
  BY NoDocIs DEF Init, Refs, ReferencesLive, BackedUpWasSeen, ShieldedIsActives, ShieldedFollowsActive

LEMMA FilesInit ==
    ASSUME Init
    PROVE  Kept /\ FlagsKept /\ NeverEmpty /\ OpensAfterRestart
  BY NoDocIs DEF Init, Kept, FlagsKept, NeverEmpty, OpensAfterRestart, Exists

LEMMA FilesAre ==
    /\ Kept => NoKeyLost
    /\ NeverEmpty => NoEmptyWallet
  BY DEF Kept, NoKeyLost, NeverEmpty, NoEmptyWallet

\* Whatever is written or fails to be, whenever the program ends, every state has
\* its types, and no two entries of a document share a name or a key.
THEOREM WalletTyped == ASSUME VaultAssumption PROVE Spec => []TypeOK
<1>1. Init => Core
  BY CoreInit
<1>2. Core /\ [Next]_vars => Core'
  BY CoreStep
<1>3. Core => TypeOK
  BY DEF Core
<1> QED
  BY <1>1, <1>2, <1>3, PTL DEF Spec

\* The active key and the phrase on screen name keys that are there, nothing
\* counts as backed up but words that were typed back, and the shielded account is
\* the active key's, whatever is renamed, brought in or fails (Wallet::rename_key,
\* finish_backup, refresh_shielded).
THEOREM NamesNameKeys ==
    ASSUME VaultAssumption
    PROVE  Spec => [](ReferencesLive /\ BackedUpWasSeen /\ ShieldedIsActives)
<1> DEFINE Inv == Core /\ Refs /\ ShieldedIsActives
<1>1. Init => Inv
  BY CoreInit, ShieldedInit
<1>2. Inv /\ [Next]_vars => Inv'
  BY CoreStep, RefsStep, ShieldedStep
<1>3. Inv => ReferencesLive /\ BackedUpWasSeen /\ ShieldedIsActives
  BY DEF Refs
<1> QED
  BY <1>1, <1>2, <1>3, PTL DEF Spec

\* "A half-written vault is unrecoverable and would destroy funds" (persist): as
\* long as the file can be read, no key that was written is ever lost, and the file
\* never unsays a backup, whichever writes fail and wherever the program ends
\* between two of them.
THEOREM WhatIsWrittenIsKept ==
    ASSUME VaultAssumption, ~ReadsFail
    PROVE  Spec => []NoKeyLost /\ [][FlagStays]_vars
<1> DEFINE Inv == Core /\ Kept /\ FlagsKept
<1>1. Init => Inv
  BY CoreInit, FilesInit
<1>2. Inv /\ [Next]_vars => Inv' /\ [FlagStays]_vars
  BY CoreStep, KeptStep, FlagsStep
<1>3. Inv => NoKeyLost
  BY FilesAre
<1> QED
  BY <1>1, <1>2, <1>3, PTL DEF Spec

\* "A vault that stops opening after the next restart" (change_passphrase),
\* "nothing is half-renamed" (rename_key): unless the write of a new key fails, a
\* restart opens what memory has.
THEOREM RestartOpensTheSame ==
    ASSUME VaultAssumption, "add" \notin FailsIn
    PROVE  Spec => []OpensAfterRestart
<1> DEFINE Inv == Core /\ OpensAfterRestart
<1>1. Init => Inv
  BY CoreInit, FilesInit
<1>2. Inv /\ [Next]_vars => Inv'
  BY CoreStep, OpensStep
<1> QED
  BY <1>1, <1>2, PTL DEF Spec
=============================================================================
