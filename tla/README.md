# Pecu: a verification development

Pecu is a self-custodial desktop wallet for Verus: one process, one actor that owns
every piece of state, workers that talk to public nodes for it, a window with a thread
of its own, and a handful of files whose loss costs money. This directory holds TLA+
modules translated from that code, the TLC instances that check them, and TLAPS proofs
of what holds for every instance. Paths below are relative to `src/crates/`; `lib.rs`
without a crate is `pecu-core/src/lib.rs`.

Contents: [inventory](#inventory) · [modules](#modules) · [how to read a
module](#how-to-read-a-module) · [runs](#runs) · [bounds](#bounds) ·
[fairness](#fairness) · [proofs](#proofs) · [where the code and its words
differ](#where-the-code-and-its-words-differ) · [not modelled](#not-modelled) ·
[plan](#plan)

## Inventory

The actor (`Core` in `lib.rs`) is one loop (`run`, 1332): a biased select over commands
from the interface, answers from workers, and a tick every five seconds. Nothing else
writes its state. Work that waits for a node runs on a worker (`Blocking::dispatch`,
`runtime.rs`) that owns clones of what it needs and posts one `Work` value back. A job
is never recalled; a worker that panics posts nothing. The window is the other thread:
a press becomes a command in one queue, what the core says an event in the other. So
the hard part is not data races. It is everything that can happen between a dispatch
and the turn that applies its answer, between a press and the event that replaces what
was pressed, and what is left on disk if the process ends in between.

| Component | State | Operations | What makes it correct | Modules |
|---|---|---|---|---|
| Pending ledger (`pending.rs`) | records, next id; `pending.json` | open, commit, set_state, note_check, forget_confirmed | signed bytes are on disk before they are sent and until they are confirmed; an id names one payment | `LedgerOps`, `PendingLedger` |
| Payment pipeline (`lib.rs` 6895-7240, 3319-3484) | prepared tickets, `broadcasting`, `checking` | prepare, confirm, cancel; check, resend, abandon; answers | a ticket is spent once; only a refusal gives a payment up; an unknown fate is asked about until it is known | `Payments`, `Custody` |
| Node manager (`pecu-chain/src/node.rs`; `lib.rs` 2512-2606, 7889-7954) | list and order of nodes; per node status, failures, tip; active node; what is read of it | probes, tip poll, choice, back-off, failover | the node in use is the chosen one over starts and builds; failover only after repeated failures and never while a fate is unknown | `Nodes`, `Payments` |
| Spend gate (`permit.rs`, `node.rs`) | requested chain, arm | set_allow_spending, spend_permit | no permit on a chain that may be real money without its own name typed, nor through a node that did not name that chain | `SpendGate` |
| Change of chain (`lib.rs` 2718-2866, `paths.rs`) | the open chain and its files | switch_network | nothing of one chain is believed on, or written to, another | all that have a `Chain` |
| Name registration (`registration.rs`, `identity.rs`; `lib.rs` 4571-4950) | one reservation and its file; the form; `ready`; the poll | check a name, reserve, broadcast, poll, finish, abandon | a salt whose commitment may be out is on disk; what is offered can be finished; what is said of a name is about that name | `ReservationOps`, `Registration`, `IdentityLife` |
| Launch (`launch.rs`, `currency.rs`; `lib.rs` 6117-6480) | one intent and its file; prepared launches; the form | begin, continue, resume, confirm, abandon; validate | a currency is defined under the name it was written down for; a name paid for is remembered | `Launch`, `CurrencyDraft` |
| Corroboration (`pecu-chain/src/corroborate.rs`) | none | compare two nodes' coins | coins a second node does not name are not spent, and an honest node is not accused | `Corroboration` |
| Building (`send.rs`, `shield.rs`, `shielded.rs`, `convert.rs`) | none | validate, send all, plan, choose notes and outputs, sign, review | amounts, fees and change add up, in every currency; what is reviewed is what is signed, and by whom | `SpendPlan`, `Building` |
| Shielded wallet (`shielded.rs`, `params.rs`) | scan, notes, spent marks, birthdays; parameter files | scan, mark, keep, forget; find and fetch parameters | a note is not offered twice; a scan is of one history and skips nothing; a file under its name is whole | `ShieldedScan`, `Birthday`, `Params` |
| Identities (`identity.rs`; `lib.rs` 5780-5990, 6480-6900) | owned and watched rows; names and what they meant; sheets and signed changes | look up, watch, resolve, prepare, confirm | what is paid for a name is what it means; a lock says what it does; a revocation is confirmed by its word | `Identities`, `IdentityLife`, `Names`, `Reviews` |
| Address book (`pecu-store`, `lib.rs` 3040-3130) | rows per address | remember, label, forget, name | each payment is counted once; whoever was not paid is warned about | `AddressBook` |
| Conversions and markets (`convert.rs`, `market.rs`) | book, table, quote tickets, drafts, the picker's list | read, quote, estimate, prepare, search | the floor that is signed is that of the quote shown; a price comes from a basket that trades | `Markets`, `Book`, `CurrencyPicker`, `Reviews` |
| Portfolio and history (`portfolio.rs`, `pecu-chart`) | rows, position, caches, series | refresh, older page, chart, sheet, search | no gap in what is called complete; a figure was held; a point is of its time | `History`, `Dashboard` |
| Upgrade and halt (`upgrade.rs`) | the oracle's last answer | read, evaluate | a halted feature is not offered | `Upgrade`, `Halt` |
| Wallet and vault (`wallet.rs`, `pecu-keystore`) | wallet file and its copy, data key, active key, words on their way | create, import, rename, change passphrase, unlock, lock, reveal | no key is lost; no key is used, and no word shown, in a locked wallet | `Vault`, `VaultLocks`, `PhraseScreen`, `FrontDoor` |
| Store (`pecu-store`) | two SQLite files | open, migrate, rows, caches | a build that runs has its schema; no row of the user's is taken away | `StoreOpen` |
| Application, interface (`pecu-app`, `pecu-ui`) | steps of the screens, queues | press, apply | what leaves the wallet was on the screen | `Panels`, `PhraseScreen`, `FrontDoor`, `Dashboard` |
| Protocol, mock | - | - | data types; fixtures | - |

`PROJECT.json` lists the hazards of this code at the lines where they bite, with the
properties that cover each, or the reason that none does, and for every definition the
lines it translates.

## Modules

| Module | What it is |
|---|---|
| `LedgerOps` | The ledger's operations as operators on a value `[mem, next, file]`. A write that fails leaves `file` as it was. |
| `PendingLedger` | The ledger alone: any sequence of its calls, failed writes, crashes, reopening, a file damaged from outside. |
| `Payments` | The pipeline around the ledger: workers, nodes, failover, chains, restarts. Extends `LedgerOps`. |
| `Custody` | The abstract promise about signed bytes: kept before taken, let go of only after. `Payments` refines it. |
| `SpendGate` | The gate with the node views it reads, late probes, the arm. |
| `Nodes` | The list of nodes over builds and restarts, probes, tip polling, back-off, choice, failover, and the reading that follows. |
| `ReservationOps`, `Registration` | The reservation and its file as operators; the commands, jobs and answers of a claim. |
| `IdentityLife` | One VerusID: the form of its name, the claim as it is shown while blocks arrive, then locks, releases, revocation and recovery. |
| `Launch` | A currency under a new name: the intent, the claim it waits for, restarts, two chains. Extends `ReservationOps`. |
| `CurrencyDraft` | The currency form against the definition that is built, with words that overflow. |
| `Corroboration` | Two nodes' coins, one request at a time, while blocks arrive. |
| `SpendPlan` | Send-all, shield, notes and validation as operators on a list of values. |
| `Building` | From the form to the signed transaction and its review: two readings, coins, keys, labels and prices that change. Uses `SpendPlan`. |
| `Reviews` | Conversions and identity changes from ticket to broadcast, with permits refused and the ledger. Extends `LedgerOps`. |
| `ShieldedScan` | A scan over a chain that grows and is reorganised, spent marks, what is kept, light servers. |
| `Birthday` | Where a key's first scan starts, against a clock and a chain that may run ahead. |
| `Params` | Finding, downloading and placing the proving parameters. |
| `Upgrade`, `Halt` | The oracle's bytes as operators; when it is read and what its answer withholds. |
| `Markets`, `Book`, `CurrencyPicker` | Three readings and a conversion form; values, routes and charts of baskets; the list a reserve is picked from. |
| `Names`, `AddressBook`, `Identities` | Paying a name; whom the wallet has paid; the lists of identities. |
| `History`, `Dashboard` | Pages and refreshes of the list; the figures, days, chart, sheet and search made of it. |
| `Vault`, `VaultLocks` | The wallet file and its copy; the two locks, one acquisition at a time. |
| `StoreOpen` | Opening and migrating both databases over builds and interruptions. |
| `Panels`, `PhraseScreen`, `FrontDoor` | The window and the core over two queues: reviews, the recovery phrase, the forms in front of the wallet. |
| `LedgerOpsProofs`, `PendingLedgerProofs`, `PaymentsProofs`, `RegistrationProofs`, `VaultProofs`, `MCWalletProofs`, `MCSpendingProofs`, `MCScreensProofs` | Proofs, see [below](#proofs). |
| `MCPayments` | The values of the instances of `Payments`, and a symmetry. |
| `MCWallet`, `MCSpending`, `MCScreens`, `MCLive` | Suites: instances of the other modules, see [runs](#runs). |

Composition: `Payments`, `Reviews` and `PendingLedger` use the same ledger operators, so
what is proved of those is about all three; `Launch` and `Registration` share
`ReservationOps`; `Building` is built on `SpendPlan`, `Halt` on `Upgrade`. Where a
module leaves a neighbour out it says in its head which module has it.

## How to read a module

* **One action is one turn of the actor.** A command action is the whole handler; a
  `Finish...` action is a whole `finish_*`. The guard is its early returns. A refused
  call changes nothing and has no step of its own.
* **A job** is a record from `dispatch` to the turn that applies its answer. The
  worker and the network decide its effect and its answer. It keeps what it was
  given, as the code clones the client; it does not know what happened since.
* **A worker that reads twice** is two steps (`Corroboration`, `Building`,
  `Dashboard`, `ShieldedScan`): the chain moves in between.
* **Locks** are acquired and released one at a time (`VaultLocks`).
* **A transaction, claim, key, name or address** is a model value. Bytes are spelled
  out only in `Upgrade`, whose properties are about them.
* **A file** is what it holds. A write happens or fails as a whole (temporary file,
  sync, rename) unless the module is about what a part of it leaves (`Params`,
  `StoreOpen`, and `Vault`, where one operation is several writes).
* **A restart** empties memory and jobs and opens the files again.
* **Time** is order, except where the code counts: `Birthday`, `Book`, `Dashboard`,
  and heights wherever there are any.
* **Integers** keep their width in `CurrencyDraft` (`i64` sums wrap, casts saturate)
  and `Book` (saturating); both are scaled.
* **Window and core** are joined by two queues; a press is possible as soon as the
  button is open, whatever is on its way. `Patient` says that the user waits until
  all has arrived.
* **History variables** record what properties speak about (`taken`, `handed`,
  `sent`, `paid`, `wanted`, ...) and guard nothing but "once".
* **Constants that are TRUE or FALSE** say what may happen (`Crashes`, `Fails`,
  `Reorgs`, `ClockJumps`, ...) or how the user behaves (`Patient`, `Tidy`, `Hasty`,
  `Steady`). A property that needs one says so in its comment: "Does not hold
  if/unless ...".
* **Mutants** stand next to the definition they replace and say what they get wrong.

## Runs

The parts of a wallet that nothing joins (the vault's locks, the sums of a send, the
gate of a spend) are checked side by side in four *suites*. A suite's state is `part` and
a row of slots; the initial states choose a part and start it, every step is one of that
part over the slots, and the slots it has no use for stay at rest. So a suite's
behaviours are those of its parts and no others, and a property is one question asked
of all parts it concerns (`SentWasShown`: what leaves the wallet was on the screen), with a
conjunct for each. Some modules are in a suite twice or more, under different
constants: the bounds that make one hazard happen would make another's instance too
large. Of the parts that theorems are about, the suite's constants are the parameters, and
the configuration gives them their values.

| Run | Instance | Distinct states | Shows |
|---|---|---|---|
| `PendingLedger` | 2 transactions, ids to 2, failed writes, a damaged file | 283 k | the ledger's invariants, and that ids keep their bytes |
| `PaymentsFailover` | 1 chain, 2 nodes, 1 payment, 2 jobs, panics, restarts, forgetful mempools | 1.4 M | who is asked about an undecided payment, no flapping, what is given up, the refinement of `Custody` |
| `PaymentsTwoChains` | 2 chains with a node and a payment each, 2 jobs, restarts | 1.6 M | types; tickets are spent once although no job is recalled |
| `PaymentsWritesFail` | 1 payment, failing writes, restarts | 1.5 M | on disk before the first hand-over |
| `Registration` | 2 claims, failing writes, panics, a restart, reorganisation, expiry | 18 k | no salt lost, the poll finds a confirmed claim |
| `Wallet` | suite of `Vault` (twice), `VaultLocks`, `Birthday`, `Nodes`, `Params`, `StoreOpen` | 482 k | no key lost, no key in use while locked, no block skipped, the node that was chosen, whole files and schemas |
| `Spending` | suite of `Corroboration`, `SpendPlan`, `Building`, `Upgrade`, `Reviews`, `ShieldedScan` (5), `Halt` (2), `Launch` (2), `Book` (2) | 2.2 M | coins vouched for, sums, what is sent once, what stays on its chain, launches under their names |
| `Screens` | suite of `Panels` (2), `PhraseScreen` (2), `FrontDoor`, `Names`, `SpendGate`, `AddressBook` (2), `Markets`, `CurrencyPicker`, `Identities` (2), `History` (2), `CurrencyDraft` (2), `IdentityLife` (3), `Dashboard` (2) | 2.1 M | what is sent was shown, the arm and the permits, what is shown is held, nothing skipped or counted twice, what late answers may not do |
| `Live` | suite of `Payments`, `VaultLocks`, `StoreOpen`, `FrontDoor`, `Panels`, `PhraseScreen`, `Names`, `Markets`, `CurrencyPicker`, `ShieldedScan`, `Halt` | 61 k | whatever is waited for comes, under fairness |
| `PaymentsForgotten`, `WalletUnread` | as above, with one more thing happening | to the counterexample | the first two divergences [below](#where-the-code-and-its-words-differ) |

Every property of a passing run has a mutant of the code that violates it under the same
configuration. Deadlock is checked where the system goes on for ever. The suites and
`Registration` switch it off, as their bounded parts stop, like an idle wallet; a
deadlock of the vault's locks is found by `EveryWaitEnds` instead.

### What the suites' properties ask

*Wallet.* `NoKeyLost`: a key that was written is in the file or its copy, which open with
the passphrase and names memory has. `SecretsAreGuarded`: keys in use, labels, backups
and the shielded account against the lock. `SkipsNothing`: a first scan against
what was paid, and the figures against the node in use. `SchemaIsThere`,
`WhatIsWrittenStays`: databases and parameter files over interruptions.

*Spending.* `SpendsOnlyVouched`; `SumsAddUp`: send-all, shields, notes, validation and
build, conversions and their reviews, the oracle's bytes, prices and charts. `SentOnce`:
reviews, revocations, undecided conversions, notes. `StaysOnItsChain`: also the payer of
a payment, the light server and history of a scan. `LaunchUnderItsName`.

*Screens.* `SentWasShown`, `ShownIsHeld`, `NothingSkipped`, `CountedOnce`; `WeightsAddUp`: the
weights of a basket that is built, whatever overflows; `ShownStays`:
the action properties of lists, warnings, labels and locks. Of the gate `ArmNamesChain`,
`PermitsArmed` and `PermitsBorneOut`, over a free chain, a pinned one and one without a
name, an endpoint each.

The conjuncts, with the code each is about, are in the comments of the suites and of the
modules they come from.

## Bounds

Bounds are constants, named in the modules that have them. Why they are enough for
what they are asked:

* *Two jobs in flight* is the least that lets an answer arrive after something else has
  happened to the same thing, or another's answer arrive first. The properties relate
  one thing to one job or to two. `Names` has three in `Live`, where two names are typed.
* *Ids to 2* give two records and, after a settlement and a restart, an id that is given
  out again. *Tickets to 2*: one that is answered after another.
* *Two nodes* are the shipped list's length and enough for one to have the bytes and the
  other not; `Nodes` has three lists of its two, so
  that builds ship different ones.
  `FailuresBeforeFailover = 2` tells a first failure from a row of them (the code has
  3), `AbsentAfter = 2` a first fruitless check from enough of them.
* *Two chains* suffice for an answer that belongs to the chain just left, and for
  leaving and coming back. *Two claims, keys, accounts, names*: one's answer meets the
  other.
* *Heights of 2 to 7*: as many blocks as the windows of the code, scaled, need to leave a
  gap, plus one (`History`), or as a lock or a commitment lives (`IdentityLife`).
* *Up to four coins of one to five, two notes at once, a fee above the smallest coin*:
  every order of more and less worth, dust and change (part `plan` of `Spending`).
* *Three bytes, three published values* (part `upgrade`): a number, one with a
  continuation, one with no end; bad, worse and unknown in every order. `Half` is 3 there,
  and 128 in `Halt`, where values are lists of switches.
* *Three builds, four starts* (`StoreOpen`): older, newer, and back again, with a start
  that ended between.
* *Words of six bits* (`CurrencyDraft`) overflow with the amounts that are typed: a weight
  that does not fit a word, and three that do and whose sum wraps around to one whole.
* *Two panels and queues of two, or four and queues of one* (`Panels`): what one panel
  does to another, and presses that overtake an event.

The proofs lift all bounds for `PendingLedger`, `Payments`, `Registration` and every part of
`Wallet`; for the coins, the reviews, one account's notes and one launch at a time in
`Spending`; and for the gate, the panels, the names, the markets, both address books, the
watched identities, the pages that race, the basket and the identity's life in `Screens`.

## Fairness

`Live` and `Registration` say what goes on by itself. Workers end (every request has a
timeout) and the actor takes every answer off the channel; the core takes its commands
and the window its events; `Store::open` runs to its end; a thread that can run does: weak
fairness of each. Strong fairness stands for what is tried again and again: a node
that has a payment, an oracle and a light server answer now and then; the timer comes
round to every listed payment (in the model all slots may be taken by other checks, a
limit that `dispatch` does not have); a lock that is free again and again is got.
Nobody has to press anything. The actor's select is biased, so a stream of commands that
never pauses would starve the tick; the assumption excludes it.

One part has the actions of one part, so a line of `MCLive!Fairness` that names several parts
stands for one such line in each.

`Payments` is live without panics and restarts only, since a worker that panics leaves a
flag up for good (`runtime.rs:104`). `Registration` has both; its restarts are bounded,
and `PollFindsClaim` excludes a flag that a panic left up.

## Proofs

TLAPS proves the following for every value of the constants that the modules' assumptions
allow: any sets of transactions, chains, nodes, claims, any thresholds and number of
jobs and restarts. The leaves use Z3, Zenon and, for the temporal steps, LS4.

* `LedgerOpsProofs`: what each operation on a ledger does to memory, file and counter,
  and that it keeps ids unique and below the counter. A new id exists because the
  records are finitely many (`NextIdFresh`). Used by the next two and by `MCSpendingProofs`.
* `PendingLedgerProofs`: `TypeCorrect`, `IdsStayUnique`, `OwedStaysOnDisk`,
  `OwedStaysInMemory`, `BytesStayKept`. Uniqueness is not inductive alone: an opening
  counts from the records left on the file, so the invariant also says that the counter
  lies above every id in memory and that memory and file are each free of duplicates.
  What is owed is on the file because a write puts all of memory there, and is in memory
  while the process runs; neither half survives a step without the other.
* `PaymentsProofs`:

  | Theorem | Assumes | Says |
  |---|---|---|
  | `TypeCorrect` | nothing | `TypeOK` |
  | `NeverFlaps` | nothing | `NoFlapping`: a failover needs its row of failures, and goes to a node that owes none |
  | `RecordedFirst` | one chain | `RecordedBeforeBroadcast`, whatever writes fail |
  | `TicketsSpentOnce` | writes succeed | `TicketSpentOnce`, on any number of chains |
  | `AskedOnlyWhereHanded` | one chain, writes succeed | `AskedWhereHanded` |
  | `CustodyKept` | one chain, writes succeed | `Payments` implements `Custody` |
  | `GivenUpWhenRefused` | one chain, writes succeed | `GivenUpOnlyIfRefused` |

  The assumptions are not for the proof's convenience: TLC finds a counterexample
  without each that is named. With two chains a first answer lowers `broadcasting`
  while another payment is out, so the chain can be changed under it; a check carries an
  id that means another payment there (`PaymentsForgotten`); and which node a chain is
  come back to is left open. With writes that fail, a record that could not be written stays
  in memory beside the payment that was put back.

  The argument goes by layers, each inductive given those before it. `Inv`: types, unique
  ids below the bound, what each job may answer, and that an Online node has no failures.
  `Sure`: a job is about the record with its id, what a node has was accepted, and bytes on
  their way that nobody has are in memory, and on disk if it is the first time. `Once`:
  a payment is built, or awaits its confirmation, or was committed, one after the
  other. `OnDisk`: the file is what memory holds, and nothing confirmed stays in either.
  `Asked`: the node in use was handed all that is undecided, and so was the node of every
  check. `Settling` is `Inv`, `Sure` and `OnDisk` together, under which each step is one of
  `Custody` or a stutter. `FirstSend`: until the one job that hands a payment over for the
  first time is answered, nobody else can have given it to a node.
* `RegistrationProofs`: `SaltStaysKept`, `CommitmentsHeld` and `TypeCorrect`, for a user
  who waits (`~Hasty`; for one who does not the first is false). That a file holds the
  salt follows only together with what the jobs are about to do: a claim is built
  alone; a commitment being broadcast is the only one, of the record held, and still
  reserved; a poll or step two that is out, and `ready`, are about the committed record or
  a claim already registered; a registration that succeeded is that of the record. So
  the two paths that remove a file remove that of a finished or abandoned claim.

* `VaultProofs`: `WalletTyped`, `NamesNameKeys`, `WhatIsWrittenIsKept`,
  `RestartOpensTheSame`, for any keys, names, passphrases and sets of writes that fail. Why a
  write from memory loses nothing is the heart of it: memory has every key and every flag the
  file has (`Kept`, `FlagsKept`). Besides, no document is without keys (`NeverEmpty`), what
  memory refers to is in it, and a generated key that is called backed up had its words shown
  (`Refs`). The step of each operation is divided by what its writes left (`DiskIs`).
* `MCWalletProofs`: each property of the run `Wallet`, over all its parts.

  | Theorem | Says | Because, beside types |
  |---|---|---|
  | `WrittenKeysStay`, `WhatIsWrittenIsNotUnsaid` | `NoKeyLost`, `WhatIsWrittenStays` | `VaultProofs`, by `INSTANCE`; for the parameters, a file under its name is whole (`FilesWhole`) and a call ends as far as it said (`CallsEnd`, `AsFar`) |
  | `SecretsStayGuarded` | `SecretsAreGuarded` | who uses the data key holds its lock from before it is looked for, and who sets or clears it has the lock for writing (`Holding`), for any number of workers |
  | `SchemaStaysThere` | `SchemaIsThere` | the file has what its version stands for, at each step of an opening (`StoreInv`); a build that would not understand a row sees a version above its own (`RowsMarked`); for any builds |
  | `NothingIsSkipped` | `SkipsNothing` | a birthday lies below what was paid (`BelowPaid`), as the clock leads the chain by a bounded amount (`Rests`, with the measure `2*height + credit - time`); the choice of node is what was written (`ChosenIs`), and a reading of it is of this node (`Fresh`) |
  | `PartsTyped` | `TypeOK` | |

* `MCSpendingProofs`:

  | Theorem | Says | The invariant |
  |---|---|---|
  | `OnlyVouchedIsSpent` | `SpendsOnlyVouched` | `CoinsInv`: what an honest node offers exists; what the second node lacks is newer than the tip it was asked for (`SecondLacks`), and is withheld from the moment it is judged (`Withholds`); a node of another chain never gets as far as the build (`ForeignStops`) |
  | `LaunchedUnderItsName` | `LaunchUnderItsName` | `LaunchInv`: the file says what is wanted (`FilesSay`); each job, review and `ready` is about the claim of that record (`JobsFit`, `ReviewsFit`, `ReadyFits`, `IntentFits`, `WantedFits`) |
  | `NothingIsSentTwice` | `SentOnce` | `ReviewsInv`: a ticket is offered, or out, or sent (`TicketsOnce`); a revocation that is offered still needs its word (`WordsTyped`); the ledger has, undecided, what was sent and not answered (`LedgerFits`, by the lemmas of `LedgerOpsProofs`). `NotesInv`: memory, the kept file and a scan under way each follow the chain, and each covers every note that was sent, as seen spent or as marked (`HeldFits`, `KeptFits`, `ScanFits`); what is being paid with is unspent in memory (`PayingFits`) |

* `MCScreensProofs`:

  | Theorem | Says | The invariant |
  |---|---|---|
  | `ArmStaysOnItsChain`, `NoUnarmedPermit`, `NoBorrowedIdentity` | the gate's three | `GateInv`: a probe's answer is what its endpoint says (`AnswersTrue`), and an Online node's network is one that its own endpoint named (`OnlineTrue`). A late answer of another chain's endpoint may land on a position, but then it names that other chain, so the node is not Online. Rests on an endpoint running one chain |
  | `OnlyWhatWasShownIsSent` | `SentWasShown` | `PanelsInv`: a ticket that was given out is held, being built or sent, one after the other (`GivenOut`, `InOnePlace`), and what a command asks to be sent was pressed for (`PressedFor`). `NamesInv`: one look-up at a time, its answer about the name on the form (`OneLookup`, `AnswersFit`, `CouldBePaid`). `MarketsInv`: estimate, floor and quote are of the draft they stand beside (`EstimatesFit`, `FloorFits`, `QuoteFits`) |
  | `PaymentsAreCounted` | `CountedOnce` | `BookInv`: who was paid has a row on the disk of that chain and is in memory while it is open; the counts are exact where no conversion and no death blurs them. What a step may do to rows, memory and counts is said once for both address books (`BookStep`) |
  | `NothingShownIsUnsaid` | `ShownStays` | `RacesInv`: one refresh at a time, and its answer is of a tip that was read after the last one shown (`JobFits`). `BasketInv`: delays are heights, so a start lies above the tip it is built at, the least one too (`Least`, by well-founded induction). `LifeInv`: what was signed is described by its command (`SignedFits`), and a command does to a record what its description says (`ChangeApplies`). The watched identities need none: those properties hold of every step from every state |

What the suites' theorems assume, and why:

* *Users.* The names, the reviews and one launch at a time are proved for a user who waits
  (`Patient`, `Tidy`), as the run has it. For one who does not the properties are false: the
  table below has them, under those constants.
* *Failures.* `WrittenKeysStay` and `WhatIsWrittenIsNotUnsaid` assume `~ReadsFail`; `WalletUnread` shows
  what happens otherwise. `"add"` is not among the writes that fail where a listed key has to be
  written, and `"revocation"` not among the refusals: both divergences are below. `Overlap`, `Away`
  and reorganisations are off for the notes.
* *Sizes.* `2*Burst <= Margin + 2` says that a chain cannot run ahead of its clock by more than
  the margin of a birthday covers; the margin of the code is a day of blocks. `Delays # {}`: the
  form of a lock and that of a launch offer a delay. `0` is no endpoint.
* *Versions.* `NoTableBetween`: no version of the cache lies between its first and its
  current one, as `CACHE_VERSION` is 2 (`migrate.rs:25`).

Each is part of an assumption that TLC evaluates in the run, except the two that are written
before `PROVE`; those are conditions of the theorem.

Model-checked only: `SumsAddUp` and `WeightsAddUp`, and what the recursive functions of
`SpendPlan`, `Upgrade`, `Book` and `Dashboard` compute, as they need induction over data, which
is out of the provers' reach; they are checked over bounded inputs, against definitions that
say what is meant. Every liveness property (`BroadcastEnds`, `SeenIsSettled`, `EveryWaitEnds`,
`PollFindsClaim`), out of reach together with `ENABLED`. And, for want of an invariant and
not of a prover: `TypeOK` and `StaysOnItsChain` of `Spending`, and `TypeOK`, `ShownIsHeld` and
`NothingSkipped` of `Screens`.

## Where the code and its words differ

Found while modelling, by TLC unless "by reading" is said. The first two have a run of
their own and are in `PROJECT.json`. The others are definitions in their modules, each with a
comment that quotes the words and says under which constants it does not hold; give a
configuration that definition and those constants and TLC shows the execution. The
properties above are checked where they do hold.

With a run:

* `PaymentsForgotten`, `LetGoOnlyIfTaken`: an answer about a record settles the record of
  the same id in another chain's ledger (`lib.rs:3384`), whose bytes are forgotten though
  no node took them.
* `WalletUnread`, `NoKeyLost`: a wallet file that cannot be read is taken for none
  (`wallet.rs:99`); creating one writes twice, so the file and its copy are both replaced.

| Module: property | Needs | What the code does | Against |
|---|---|---|---|
| **Ledger and payments** | | | |
| `Payments`: `AbsentWasDenied` | | a check that never reached a node counts towards absent (`lib.rs:3367`) | `lib.rs:3364` |
| `Payments`: `RecordedBeforeAnySend`, `TicketSpentOnce` | `WritesFail` | a commit that could not be written leaves its record in memory, from where it is offered for resending (`pending.rs:115`) | `pending.rs:102` |
| `Payments`: `RecordedBeforeBroadcast` | two chains | one `broadcasting` flag for any number of broadcasts: the first answer lets the chain be changed while other bytes are out (`lib.rs:7159`) | `lib.rs:2724` |
| `Panels`: `CancelledIsNotSent` | | Back is open while a payment is being sent (`send.slint:753`) | `lib.rs:2034` |
| `Panels`: `FailedIsStillThere` | | a refused payment leaves its review with a ticket the core has taken (`bridge.rs:1026`) | `bridge.rs:1027` |
| `Panels`: `LaunchCanBeTried` | | after a refused permit both buttons of a launch stay shut (`main.rs:903`) | `lib.rs:6271` |
| `Panels`: `HeldIsShown` | `Searches` | a recipient picked in the search puts a form before a signed review, which the core keeps (`main.rs:1411`) | `CancelSend` |
| **Nodes** | | | |
| `Nodes`: `TipIsRead` | `~Swift` | a block, or another node, that comes during a reading starts none | `refresh` in `lib.rs` |
| `Nodes`: `DistrustedIsNotRead` | `Garbles` | a node that named another chain is Offline one failure later, and is read (`node.rs:223`) | `lib.rs:1056` |
| **Registration and launch** | | | |
| `Registration`: `ReservedIsUnsent` | a restart | a process that dies after a commitment's broadcast comes back to a reserved record: not polled, not re-sent, shown as unsent (`lib.rs:4602`) | `registration.rs:48` |
| `Registration`: `ClaimOffered`; `IdentityLife`: `ReadyIsOffered` | | a late poll sets `ready` for a claim that is over; the next claim is not polled while it is set (`lib.rs:4712`), and a ready claim may be off the screen | `lib.rs:4657` |
| `Registration`: `SaltKept` | `Hasty` | two claims started at once, or an answer about an abandoned one, overwrite a salt | `registration.rs:163` |
| `IdentityLife`: `ProblemIsOfName`, `DoneIsTrue` | `Hasty` | the form is emptied, what is said of it is not; a claim that is given up while step two is out is said to be done | `bridge.rs`, `NameChecked` |
| `Launch`: `SaltsAtHome` | `~Patient` | a commitment built on one chain is written into the other's reservation (`lib.rs:4588`) | `registration.rs:163` |
| `Launch`: `LaunchUnderItsName` | `~Tidy` | a waiting launch continues with whichever name lands next (`lib.rs:6472`) | `lib.rs:6447` |
| `Launch`: `LaunchRemembered` | `~Tidy` | a launch under another name removes the file (`lib.rs:6326`) | `launch.rs:23` |
| `Launch`: `LaunchByItsKey` | two keys | the launch is paid by the active key, `key_label` is not read (`lib.rs:6134`) | `launch.rs:71` |
| `Launch`: `IntentAtHome` | two chains | the intent stays when the chain changes (`lib.rs:2780`) | `paths.rs:112` |
| `Launch`: `ReviewsOfThisChain` | two chains | `launches` is not cleared (`lib.rs:2803`) | `lib.rs:2713` |
| `Launch`: `DoneWasPaid` | | a launch is written down before anything is sent, and its panel says that a name was paid for | `currency.rs:786` |
| `CurrencyDraft`: `TotalNotNegative` | | a sum of `i64` wraps (`currency.rs:551`) | `currency.rs:1174` |
| `CurrencyDraft`: `ReadyCanBeBuilt` | an NFT | one without a holder is ready, and cannot be built (`currency.rs:977`) | `models.rs:670` |
| **Building and corroboration** | | | |
| `Corroboration`: `HonestNotAccused` | `Spending` | a coin spent between the second node's tip and its coins is missing, and the node called dishonest (`corroborate.rs:401`) | `corroborate.rs:375` |
| `Building`: `PaysAsAsked`, `ReviewIsOfPayer` | `~Steady` | the worker looks the label up again, the review is of the key active when it is made (`lib.rs:7036`) | `lib.rs:7043` |
| `Building`: `EverythingCanBeSent` | `~Quiet` | a coin spent between the two readings leaves send-all too high | `build_transparent` |
| by reading | | a conversion's review takes the whole wallet's balance for the payer's (`lib.rs:5590`); `ConvertReviewVm::via` says what `convert.rs:661` does not do | `models.rs:1457` |
| **Reviews and halt** | | | |
| `Reviews`: `RevocationNeedsWord` | a refusal | a refused permit puts the review back without the word it needs (`lib.rs:4459`) | `lib.rs:525` |
| `Reviews`: `ChangesOfThisChain` | `~Patient` | an identity change signed on one chain is sent on the other (`lib.rs:4410`) | `lib.rs:2713` |
| `Reviews`: `UnansweredRecorded` | `~Patient` | a conversion's late answer marks the other ledger's record (`lib.rs:5685`) | `lib.rs:2724` |
| `Halt`: `NothingSignedOnHalt` | `Growing` | a halt published for a later height is never in force for a running wallet (`lib.rs:2569`) | `lib.rs:2932` |
| `Halt`: `HaltIsOfThisChain` | `~Patient` | the answer of the chain that was left is kept for the open one (`lib.rs:2987`) | `lib.rs:2827` |
| `Upgrade`: `DocExample` | | `0x80 0x00` reads as 128, as the test expects | `upgrade.rs:195` |
| **Shielded** | | | |
| `ShieldedScan`: `OfferedOnce` | `Overlap`, `Away`, a reorganisation, or two accounts | a scan's copy, a lock, a rewind or another key's scan drops the mark of a spent note (`lib.rs:4208`, `7184`, `3781`; `shielded.rs:395`) | `shielded.rs:173` |
| `ShieldedScan`: `ForgottenStays`, `ReadFromThisChain` | `Leaves` | a scan is taken from a server that was removed, or of a chain that was left (`lib.rs:4200`) | `lib.rs:3823`, `shielded.rs:201` |
| `Birthday`: `SkipsNothing` | `Reuse` | a label takes the birthday of the key that had it (`lib.rs:4101`) | `lib.rs:4098` |
| `Birthday`: `SkipsNothing` | `ClockJumps` | the margin is a floor and not an addition (`lib.rs:4073`) | `lib.rs:4052` |
| `Birthday`: `SkipsNothing` | `Reorgs` | a tip is taken without a margin (`lib.rs:4133`) | `lib.rs:4110` |
| `Params`: `BadIsReplaced` | | a file of the right size and the wrong content is neither passed over nor fetched anew | `find_in` |
| **Identities and names** | | | |
| `Identities`: `AnothersIsNotMine` | | an identity that turns out another's stays among the wallet's own (`lib.rs:6611`) | `lib.rs:6605` |
| `Identities`: `GoneStaysGone` | `Overlap` | the older of two walks brings back what has left (`lib.rs:5850`) | `lib.rs:5848` |
| `Identities`: `WatchedAtHome` | `Leaves` | a look-up is written into the other chain's list (`lib.rs:6616`) | `lib.rs:2824` |
| `IdentityLife`: `SheetSaysWhatRowSays` | | the sheet is read without a tip: a lock that is over is "unlocking" there | `identity.rs:84` |
| `IdentityLife`: `EligibleCanSign` | | one of several keys makes an identity eligible (`lib.rs:5808`) | `refusal` |
| `IdentityLife`: `AuthorityIsIdentity` | | any address may be named an authority | `as_sdk_change` |
| `Names`: `PaysWhatItMeant` | `~Patient`, two chains | a look-up of one chain is what is paid on the other (`lib.rs:6778`) | `lib.rs:2790` |
| `Names`: `WarningStands` | `~Patient` | a second look-up of a name that moved finds nothing changed, and the warning is gone (`lib.rs:6763`) | `lib.rs:566` |
| `Names`: `ForgottenOnceShown` | `~Patient` | the new meaning is stored although another name is on the form (`lib.rs:6778`) | `pecu-store/src/lib.rs:305` |
| `Names`: `AskedOnce` | `~Patient` | only the last name asked is remembered (`lib.rs:6728`) | `lib.rs:6714` |
| `Names`: `UnknownIsAbsent` | `Fails` | an error is held as a name the chain does not have (`lib.rs:6790`) | `lib.rs:4301` |
| `AddressBook`: `UnwarnedWasPaid` | `Converts` | an uncertain conversion remembers the currency bought as a recipient (`lib.rs:3381`) | `lib.rs:5647` |
| `AddressBook`: `ForgottenIsWarned` | | a name on its way makes a forgotten row again (`lib.rs:3082`) | `pecu-store/src/lib.rs:272` |
| `AddressBook`: `CountedOnce` | `Dies` | counted before its entry is closed: counted again after a restart (`lib.rs:7193`) | `lib.rs:3092` |
| `AddressBook`: `BookIsOfChain` | two chains | names of one chain become rows of the other (`lib.rs:3082`) | `lib.rs:2824` |
| **Markets** | | | |
| `Markets`: `BookIsOfChain`, `TableIsOfChain` | `Leaves` | a reading carries no chain (`lib.rs:5213`); the table is not emptied (`lib.rs:5315`) | `lib.rs:5309`, `5303` |
| `CurrencyPicker`: `ChoicesAreOfChain`, `FeeIsOfChain` | two chains | the list and the fees that come late are the other chain's (`lib.rs:6009`, `6515`) | `lib.rs:2816` |
| `Book`: `RouteIsVenue` | | a route goes through a basket whose launch failed (`market.rs:642`) | `market.rs:97` |
| `Book`: `ChartIsOfThePrice`, `DirectFirst` | | chart and price may be of two baskets (`market.rs:823`); only the first basket is asked for a direct price (`market.rs:542`) | `market.rs:812`, `516` |
| **History and dashboard** | | | |
| `History`: `NothingSkipped` | `~Patient` | an older page that comes after a refresh leaves a gap (`lib.rs:2282`) | `lib.rs:2224` |
| `History`: `NothingSkipped` | small `MaxRequests` | the block a page gave up at is never read (`portfolio.rs:321`) | `portfolio.rs:96` |
| `History`: `EmptyIsOfChain`; `Dashboard`: `ReadIsNotAbsent` | no address read | the page from tip 0 is empty and complete (`portfolio.rs:222`), and a transaction "not in this wallet's history" | `portfolio.rs:94` |
| `History`: `KeptAtHome` | `~Patient` | a refresh of the old chain fills the new chain's caches (`lib.rs:1782`) | `lib.rs:2790` |
| `Dashboard`: `HoverIsTrue` | | the chart is one transaction behind: a point has the balance before it (`pecu-chart/src/series.rs:50`) | `step_at` |
| `Dashboard`: `FiguresWereHeld`, `ChartWasHeld` | `~Still` | addresses are read one after another while blocks arrive (`portfolio.rs:160`) | `remember`, `plot` |
| `Dashboard`: `ChartWasHeld`, `HoverIsBehind`, `StaleWasHeld` | `Fails` | a reading that lacks an address anchors the chart and is the total (`lib.rs:1786`) | `PortfolioVm::stale` |
| `Dashboard`: `AbsentIsAbsent` | | what came since the last reading is called absent | `txid_note` |
| `Dashboard`: `TodayIsToday` | | midnight passes | `restamp` |
| `Dashboard`: `PressedOpens` | | after a start the rows on the screen are not in memory yet | `load_tx_detail` |
| `Dashboard`: `SheetIsOfOpened` | `~Patient` | the raw answer of a closed sheet opens it over another (`bridge.rs:510`) | `apply_tx_detail` |
| `Dashboard`: `OnlySelfTransfers` | | a payment below a tenth of a coin is called a self-transfer (`portfolio.rs:767`) | `small` |
| **Vault, screens, store** | | | |
| `Vault`: `ListedIsWritten` | `"add"` may fail | a key whose write failed stays listed (`vault.rs:547`) | `note.slint:563` |
| `Vault`: `NoEmptyWallet` | `MayCrash` | a new wallet is two writes, the first without a key (`vault.rs:187`) | `wallet.rs:370` |
| `Vault`: `ShieldedFollowsActive` | `Imports` | import derives no shielded account (`wallet.rs:401`) | `wallet.rs:65` |
| `PhraseScreen`: `LockedHoldsNothing` | | a reveal asks for the passphrase and not for the lock (`vault.rs:669`) | `vault.rs:665` |
| `PhraseScreen`: `ReadableWhileHeld`, `OpenHasPhrase`, `WordsAreOfLabel` | `~Patient` | words or a challenge that come late (`seed.rs:52`) | `seed.rs:5`, `state.slint:157`, `161` |
| `FrontDoor`: `RefusalStands` | | any reading that ends clears a refusal (`bridge.rs:1041`) | `bridge.rs:1040` |
| `FrontDoor`: `RestoreIsBefore` | | `restoring` stays set (`app.slint:506`) | `onboarding.slint:162` |
| `StoreOpen`: `EveryStartIsSafe` | | a start that ends between the new column and the version leaves a file that every later start refuses (`migrate.rs:175`) | `migrate.rs:278` |

In the models as the code has it, with no property of their own: a ledger file that does not
parse is replaced by the next write (`pending.rs:84`); a payment re-sent in vain is never
absent again (`lib.rs:3397`); a resend that fails revives an abandoned payment
(`lib.rs:3479`); the auto-lock leaves signed reviews confirmable (`lib.rs:7246`).

## Not modelled

* Cryptography, the bytes of transactions and scripts, the proofs of shielded payments:
  what is signed is what was put together, a phrase is its key.
* Transport: HTTP, gRPC framing, compact blocks. A request is answered, refused or lost.
* Seconds. Polling intervals, back-off (`Nodes` has its count) and the auto-lock's timer
  are moments that come.
* Which node `Payments` finds in use after a restart is the one before it, as its setting
  is read back. When the store cannot be opened the code starts with the first of the
  list, and neither `Payments` nor `Nodes` has that.
* Wording, layout, drawing and formatting; settings and notices; fiat figures; the
  single-instance lock and start-up. They hold no state that another part reads back.
* The scripted chain (`pecu-mock`): fixtures.
* Two parts of the code have no caller in the shipped program and are modelled as what
  a build could do: the lists have one endpoint per chain, so a failover needs a build that ships
  two; `params::ensure` and `fetch` are called by nothing in the
  application.

## Plan

Done: all components above, the suites, the proofs of the ledger, the payments and the
registration, of all that the run `Wallet` asks, and of most that `Spending` and `Screens` ask.

To be proved next: `StaysOnItsChain` of `Spending` (the reviews' and the notes' invariants have most
of it) and `ShownIsHeld` of `Screens`; then the types of both. That `Registration` and `Launch`
implement a custody of salts (kept from before the commitment is taken until registered or
given up) as `Payments` does `Custody`, with `SaltsAtHome` for a user who waits.
To be modelled next: settings with the change of chain, and the single-instance lock.
