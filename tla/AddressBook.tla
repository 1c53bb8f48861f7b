----------------------------- MODULE AddressBook -----------------------------
(* Whom this wallet has paid: the table of pecu-store/src/lib.rs, the copy   *)
(* of it in memory that a review consults, and the names that are looked up  *)
(* for it (pecu-core/src/lib.rs).  A row is made by a payment that a node    *)
(* took, by a name the owner gives, or by the name the chain has.            *)
(*                                                                           *)
(* A ledger entry is its recipient and whether it is a conversion (Payments  *)
(* and LedgerOps have the rest of it); a name is that there is one.          *)
EXTENDS Naturals, FiniteSets

CONSTANTS
    Chain, FirstChain,
    Address,
    Identity,       \* the addresses that are i-addresses
    Currency,       \* the currency a conversion buys
    MaxPayments,    \* bound: payments and conversions handed to a node
    MaxForgets,     \* bound: rows forgotten
    MaxRestarts,    \* bound: ends of the process
    Converts,       \* whether conversions are made
    Dies            \* whether the process may die between two writes

AddressBookAssumption ==
    /\ FirstChain \in Chain
    /\ Identity \subseteq Address /\ Currency \in Identity
    /\ {MaxPayments, MaxForgets, MaxRestarts} \subseteq Nat
    /\ {Converts, Dies} \subseteq BOOLEAN

Row == [in : BOOLEAN, label : BOOLEAN, name : BOOLEAN, payments : 0 .. MaxPayments + 1]
NoRow == [in |-> FALSE, label |-> FALSE, name |-> FALSE, payments |-> 0]
Record == [id : 1 .. MaxPayments, to : Address, conversion : BOOLEAN]

VARIABLES
    chain,          \* the open chain
    book,           \* address_book, one table for each chain
    known,          \* the addresses of it in memory
    records,        \* the unresolved entries of each chain's ledger
    ids,            \* the last entry made
    named,          \* named_addresses: whether names were looked up already
    lookups,        \* look-ups that are under way
    review,         \* the last review, if any: whom it pays, whether it warns
    forgets, restarts,
    \* history
    paid,           \* payments a node took, of each chain
    spoken,         \* addresses the owner named, of each chain
    gone            \* addresses forgotten and not paid or named since

vars == <<chain, book, known, records, ids, named, lookups, review, forgets,
          restarts, paid, spoken, gone>>

Lookup == [of : Chain, wanted : SUBSET Identity]

TypeOK ==
    /\ chain \in Chain
    /\ book \in [Chain -> [Address -> Row]]
    /\ \A c \in Chain, a \in Address : ~book[c][a].in => book[c][a] = NoRow
    /\ known \subseteq Address
    /\ records \in [Chain -> SUBSET Record]
    /\ ids \in 0 .. MaxPayments
    /\ named \in BOOLEAN
    /\ lookups \subseteq Lookup
    /\ review \subseteq [to : Address, first : BOOLEAN] /\ Cardinality(review) <= 1
    /\ forgets \in 0 .. MaxForgets /\ restarts \in 0 .. MaxRestarts
    /\ paid \in [Chain -> [Address -> 0 .. MaxPayments]]
    /\ spoken \in [Chain -> SUBSET Address]
    /\ gone \in [Chain -> SUBSET Address]

Init ==
    /\ chain = FirstChain
    /\ book = [c \in Chain |-> [a \in Address |-> NoRow]]
    /\ known = {}
    /\ records = [c \in Chain |-> {}]
    /\ ids = 0
    /\ named = FALSE
    /\ lookups = {}
    /\ review = {}
    /\ forgets = 0 /\ restarts = 0
    /\ paid = [c \in Chain |-> [a \in Address |-> 0]]
    /\ spoken = [c \in Chain |-> {}]
    /\ gone = [c \in Chain |-> {}]

-----------------------------------------------------------------------------
(* The table *)

\* known_addresses
KnownAddresses(table) == {a \in Address : table[a].in}

\* note_payment
NotePayment(table, a) ==
    [table EXCEPT ![a].in = TRUE, ![a].payments = @ + 1]

\* name_address
NameAddress(table, a) == [table EXCEPT ![a].in = TRUE, ![a].name = TRUE]

\* label_address: a label that is cleared keeps its row
LabelRow(table, a, label) == [table EXCEPT ![a].in = TRUE, ![a].label = label]

\* forget_address of the store
ForgetAddress(table, a) == [table EXCEPT ![a] = NoRow]

-----------------------------------------------------------------------------
(* Payments *)

\* confirm_send, confirm_conversion: the ledger's entry.  A conversion is
\* recorded under the currency it buys (convert.rs 547).
Commit(a, conversion) ==
    /\ ids < MaxPayments
    /\ conversion => Converts /\ a = Currency
    /\ ids' = ids + 1
    /\ records' = [records EXCEPT ![chain] = @ \cup
                      {[id |-> ids + 1, to |-> a, conversion |-> conversion]}]
    /\ UNCHANGED <<chain, book, known, named, lookups, review, forgets,
                   restarts, paid, spoken, gone>>

Taken(r) ==
    /\ paid' = IF r.conversion THEN paid ELSE [paid EXCEPT ![chain][r.to] = @ + 1]
    /\ gone' = IF r.conversion THEN gone ELSE [gone EXCEPT ![chain] = @ \ {r.to}]

\* Mutant: the recipient is remembered in memory only.
RememberRecipientInMemory(r) ==
    /\ known' = known \cup {r.to}
    /\ UNCHANGED book

\* remember_recipient; the name is there when the payment was made by name
RememberRecipient(r) ==
    /\ known' = known \cup {r.to}
    /\ \E byName \in BOOLEAN :
           LET counted == NotePayment(book[chain], r.to) IN
           book' = [book EXCEPT ![chain] =
                       IF byName THEN NameAddress(counted, r.to) ELSE counted]

\* A node has it: finish_broadcast, or later finish_check and finish_resend.
\* The last two do not ask whether the entry is a conversion.
Confirmed(r, late) ==
    /\ r \in records[chain]
    /\ records' = [records EXCEPT ![chain] = @ \ {r}]
    /\ Taken(r)
    /\ IF r.conversion /\ ~late
       THEN UNCHANGED <<book, known>>      \* finish_convert_broadcast
       ELSE RememberRecipient(r)
    /\ UNCHANGED <<chain, ids, named, lookups, review, forgets, restarts, spoken>>

\* Refused by the node, or abandoned: the entry is closed, nobody was paid.
Abandoned(r) ==
    /\ r \in records[chain]
    /\ records' = [records EXCEPT ![chain] = @ \ {r}]
    /\ UNCHANGED <<chain, book, known, ids, named, lookups, review, forgets,
                   restarts, paid, spoken, gone>>

\* finish_prepare: the review says whether this is a first payment.
FinishPrepare(a) ==
    /\ review' = {[to |-> a, first |-> a \notin known]}
    /\ UNCHANGED <<chain, book, known, records, ids, named, lookups, forgets,
                   restarts, paid, spoken, gone>>

-----------------------------------------------------------------------------
(* The owner *)

\* label_address; `naming` gives a name or takes it away
Label(a, naming) ==
    /\ a \in KnownAddresses(book[chain])
    /\ known' = known \cup {a}
    /\ book' = [book EXCEPT ![chain] = LabelRow(@, a, naming)]
    /\ spoken' = [spoken EXCEPT ![chain] = @ \cup {a}]
    /\ gone' = [gone EXCEPT ![chain] = @ \ {a}]
    /\ UNCHANGED <<chain, records, ids, named, lookups, review, forgets,
                   restarts, paid>>

\* forget_address
Forget(a) ==
    /\ forgets < MaxForgets
    /\ a \in KnownAddresses(book[chain])
    /\ forgets' = forgets + 1
    /\ known' = known \ {a}
    /\ book' = [book EXCEPT ![chain] = ForgetAddress(@, a)]
    /\ paid' = [paid EXCEPT ![chain][a] = 0]
    /\ spoken' = [spoken EXCEPT ![chain] = @ \ {a}]
    /\ gone' = [gone EXCEPT ![chain] = @ \cup {a}]
    /\ UNCHANGED <<chain, records, ids, named, lookups, review, restarts>>

-----------------------------------------------------------------------------
(* Names *)

\* name_known_identities, when the send screen is opened
NameKnownIdentities ==
    /\ ~named
    /\ named' = TRUE
    /\ LET wanted == {a \in KnownAddresses(book[chain]) \cap Identity :
                          ~book[chain][a].name}
       IN lookups' = IF wanted = {} THEN lookups
                     ELSE lookups \cup {[of |-> chain, wanted |-> wanted]}
    /\ UNCHANGED <<chain, book, known, records, ids, review, forgets, restarts,
                   paid, spoken, gone>>

\* finish_address_names, with the names the node gave: into the store that is
\* open now
FinishAddressNames(l) ==
    /\ l \in lookups
    /\ lookups' = lookups \ {l}
    /\ \E found \in SUBSET l.wanted :
           book' = [book EXCEPT ![chain] =
               [a \in Address |-> IF a \in found THEN NameAddress(@, a)[a] ELSE @[a]]]
    /\ UNCHANGED <<chain, known, records, ids, named, review, forgets, restarts,
                   paid, spoken, gone>>

-----------------------------------------------------------------------------
(* The process *)

\* restore, for the chain that is opened
Opened(c, table) ==
    /\ chain' = c
    /\ known' = KnownAddresses(table)
    /\ named' = FALSE
    /\ review' = {}

\* switch_network: look-ups that are under way go on
SwitchNetwork(c) ==
    /\ c # chain
    /\ Opened(c, book[c])
    /\ UNCHANGED <<book, records, ids, lookups, forgets, restarts, paid, spoken, gone>>

Restart ==
    /\ restarts < MaxRestarts
    /\ restarts' = restarts + 1
    /\ Opened(chain, book[chain])
    /\ lookups' = {}
    /\ UNCHANGED <<book, records, ids, forgets, paid, spoken, gone>>

\* The process dies when the recipient is counted and the entry not closed.
DieAfterCounting(r) ==
    /\ Dies /\ restarts < MaxRestarts
    /\ r \in records[chain]
    /\ book[chain][r.to].payments <= MaxPayments
    /\ restarts' = restarts + 1
    /\ book' = [book EXCEPT ![chain] = NotePayment(@, r.to)]
    /\ Opened(chain, NotePayment(book[chain], r.to))
    /\ lookups' = {}
    /\ UNCHANGED <<records, ids, forgets, paid, spoken, gone>>

-----------------------------------------------------------------------------

Next ==
    \/ \E a \in Address :
           \/ \E conversion \in BOOLEAN : Commit(a, conversion)
           \/ FinishPrepare(a)
           \/ \E naming \in BOOLEAN : Label(a, naming)
           \/ Forget(a)
    \/ \E r \in records[chain] :
           \/ \E late \in BOOLEAN : Confirmed(r, late)
           \/ Abandoned(r)
           \/ DieAfterCounting(r)
    \/ NameKnownIdentities
    \/ \E l \in lookups : FinishAddressNames(l)
    \/ \E c \in Chain : SwitchNetwork(c)
    \/ Restart

Spec == Init /\ [][Next]_vars

-----------------------------------------------------------------------------
(* Properties *)

\* An address that was paid, and not forgotten since, is not warned about
\* again: what is in memory is what is on the disk of this chain, over
\* restarts and changes of chain (remember_recipient, restore).
PaidIsKnown == \A a \in Address : paid[chain][a] > 0 => a \in known

\* Each payment a node took is counted once, however it came to be known
\* (note_payment, remember_recipient).
\* Does not hold if Dies: it is counted before its entry is closed.
CountedOnce ==
    \A c \in Chain, a \in Address : book[c][a].payments = paid[c][a]

\* A label the owner wrote goes by the owner's hand only: neither a payment nor
\* the name the chain has takes it away (note_payment, name_address).
LabelIsOwners ==
    \A c \in Chain, a \in Address :
        book[c][a].label /\ ~book'[c][a].label =>
            a \in gone'[c] \/ Label(a, FALSE)

\* A review that does not warn pays somebody who was paid, or whom the owner
\* named ("Whether this wallet has ever successfully paid the recipient",
\* lib.rs 7033).
\* Does not hold if Converts: a conversion's entry names the currency bought as
\* its recipient.
UnwarnedWasPaid ==
    \A r \in review : ~r.first => paid[chain][r.to] > 0 \/ r.to \in spoken[chain]

\* An address that was forgotten is warned about again ("Which also forgets
\* that it was ever paid, so the review will warn about it again").
\* Does not hold: the name that was on its way makes the row again.
ForgottenIsWarned ==
    \A r \in review : r.to \in gone[chain] => r.first

\* A chain's book has the addresses of that chain's payments in it ("The
\* other chain's address book has its own identities in it").
\* Does not hold with two chains: names that come late are written into the
\* book that is open.
BookIsOfChain ==
    \A c \in Chain : \A a \in KnownAddresses(book[c]) :
        paid[c][a] > 0 \/ a \in spoken[c] \/ a \in gone[c]
=============================================================================
