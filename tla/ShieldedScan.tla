----------------------------- MODULE ShieldedScan -----------------------------
(* The shielded side of the wallet: what was scanned, what was spent and not  *)
(* yet seen spent, and what of it is written down. crates/pecu-core/src/      *)
(* shielded.rs (Shielded, Kept, sync) and lib.rs (sync_shielded_state,        *)
(* scan_shielded, walk_the_chain, finish_scan, set_light_server,              *)
(* finish_broadcast). A scan is the sequence of blocks it has read: notes and *)
(* nullifiers are what those blocks hold.                                     *)
(*                                                                            *)
(* A scan runs on a worker, over a copy of the account, while the core goes   *)
(* on: pays, locks, changes keys, light servers and chains. The chain grows   *)
(* and is reorganised meanwhile.                                              *)
EXTENDS Naturals, Sequences, FiniteSets

CONSTANTS
    Account, NoAccount,
    Note, NoNote,   \* notes this wallet's accounts receive
    OwnerOf,        \* the account each is to
    Chain,          \* the chains the wallet is used on
    BornAt,         \* where an account's first scan begins (Birthday.tla)
    Stride,         \* SCAN_STRIDE
    Checkpoints,    \* how far back a scan can verify a rollback (external)
    MaxHeight, MaxForks,  \* bounds: the chain's length, its reorganisations
    Changes,        \* bound: locks and changes of key, of light server, of chain
    Away,           \* may the wallet be locked, or its key changed, while a payment is out?
    Fails,          \* may a stride fail for the connection's sake, retries and all?
    Overlap,        \* may a payment be out while a scan is?
    Removes,        \* may a light server be removed?
    Leaves          \* may a light server be removed, or the chain changed, during a scan?

ShieldedScanAssumption ==
    /\ OwnerOf \in [Note -> Account] /\ BornAt \in [Account -> Nat \ {0}]
    /\ NoAccount \notin Account /\ NoNote \notin Note
    /\ {Stride, Checkpoints, MaxHeight, MaxForks, Changes} \subseteq Nat /\ Stride > 0
    /\ {Away, Fails, Overlap, Removes, Leaves} \subseteq BOOLEAN

VARIABLES
    blocks,  \* the chains themselves (external)
    forks,   \* how often one was reorganised
    here,    \* the chain in use
    open,    \* is the wallet unlocked?
    active,  \* the active key's account
    server,  \* per chain: is a light server configured?
    held,    \* Core::shielded
    kept,    \* per chain: the sealed scan in its store
    job,     \* the scan on the worker
    paying,  \* the note of the payment on its way
    sent,    \* notes whose spend the network took
    moves    \* changes so far

vars == <<blocks, forks, here, open, active, server, held, kept, job, paying, sent, moves>>

\* A block: who it follows (by fork), what it brings and what it spends.
Block == [chain : Chain, fork : 0 .. MaxForks, after : 0 .. MaxForks,
          brings : Note \cup {NoNote}, spends : Note \cup {NoNote}]

\* Shielded: an account, the range it has read, and what it has spent meanwhile.
\* Kept is the same, written down.
Watching(a) == [account |-> a, from |-> BornAt[a], read |-> <<>>, spent |-> {}]
Absent == [account |-> NoAccount, from |-> 0, read |-> <<>>, spent |-> {}]
ScannedTo(w) == w.from + Len(w.read) - 1
Scanned(w) == w.read # <<>>

Brought(w) == {w.read[i].brings : i \in DOMAIN w.read} \cap {n \in Note : OwnerOf[n] = w.account}
Seen(w) == {w.read[i].spends : i \in DOMAIN w.read}
\* ScanResult::unspent(&spent_locally): what a payment may choose from.
Unspent(w) == Brought(w) \ (Seen(w) \cup w.spent)

NoJob == [chain |-> CHOOSE c \in Chain : TRUE, watching |-> Absent, to |-> 0, end |-> "none"]
Running == job # NoJob
-----------------------------------------------------------------------------
\* Mutant: the account named inside what was kept is not compared.
SyncedUnchecked(h, o, a, k) ==
    IF ~o THEN Absent
    ELSE IF h.account = a THEN h
    ELSE IF Scanned(k) THEN [k EXCEPT !.account = a] ELSE Watching(a)

\* sync_shielded_state, run by every emit_wallet: the account held is the active
\* key's, or is built anew and takes up the kept scan, if that is this account's
\* (with_kept_scan, restore).
Synced(h, o, a, k) ==
    IF ~o \/ a = NoAccount THEN Absent
    ELSE IF h.account = a THEN h
    ELSE IF k.account = a THEN k ELSE Watching(a)

\* keep_shielded_scan: nothing to write before a scan, nowhere to seal it while
\* the wallet is locked.
Keeping(h) == IF open /\ Scanned(h) THEN [kept EXCEPT ![here] = h] ELSE kept

Init ==
    /\ blocks = [c \in Chain |-> <<>>] /\ forks = 0
    /\ here \in Chain /\ open = FALSE /\ active \in Account
    /\ server = [c \in Chain |-> TRUE]
    /\ held = Absent /\ kept = [c \in Chain |-> Absent]
    /\ job = NoJob /\ paying = NoNote /\ sent = {} /\ moves = 0
-----------------------------------------------------------------------------
\* The chain (external): a block with a note to this wallet, or with a spend the
\* network took, or with neither.
OnChain(c, n) == \E i \in DOMAIN blocks[c] : blocks[c][i].brings = n
SpentOn(c, n) == \E i \in DOMAIN blocks[c] : blocks[c][i].spends = n
TipFork(c) == IF blocks[c] = <<>> THEN 0 ELSE blocks[c][Len(blocks[c])].fork
Mine(c) ==
    /\ Len(blocks[c]) < MaxHeight
    /\ \E b \in {NoNote} \cup {n \in Note : \A d \in Chain : ~OnChain(d, n)},
          s \in {NoNote} \cup {n \in sent : OnChain(c, n) /\ ~SpentOn(c, n)} :
          /\ b # NoNote => s = NoNote /\ Len(blocks[c]) + 1 >= BornAt[OwnerOf[b]]
          /\ blocks' = [blocks EXCEPT ![c] = Append(@,
                 [chain |-> c, fork |-> forks, after |-> TipFork(c), brings |-> b, spends |-> s])]
    /\ UNCHANGED <<forks, here, open, active, server, held, kept, job, paying, sent, moves>>

\* Its last blocks are replaced, what they held may be mined again.
Reorganise(c) ==
    /\ forks < MaxForks /\ forks' = forks + 1
    /\ \E keep \in 0 .. Len(blocks[c]) - 1 :
          blocks' = [blocks EXCEPT ![c] = Append(SubSeq(@, 1, keep),
              [chain |-> c, fork |-> forks', after |-> IF keep = 0 THEN 0 ELSE @[keep].fork,
               brings |-> NoNote, spends |-> NoNote])]
    /\ UNCHANGED <<here, open, active, server, held, kept, job, paying, sent, moves>>
-----------------------------------------------------------------------------
\* scan_resumes_at: after the last block read; a first scan at the birthday.
ResumesAt(w) == IF Scanned(w) THEN ScannedTo(w) + 1 ELSE w.from

\* scan_shielded: one at a time, on a copy; the core goes on with its own.
ScanShielded ==
    /\ ~Running /\ server[here] /\ open /\ held # Absent /\ (Overlap \/ paying = NoNote)
    /\ job' = [chain |-> here, watching |-> held, to |-> Len(blocks[here]), end |-> "walking"]
    /\ UNCHANGED <<blocks, forks, here, open, active, server, held, kept, paying, sent, moves>>

\* scan_after: a continuation must descend from the block the last one ended on.
Descends(w, c) ==
    ScannedTo(w) <= Len(blocks[c]) /\ blocks[c][ScannedTo(w)] = w.read[Len(w.read)]

\* absorb, and spent_locally pruned of what was now seen spent.
Extended(w, c, until) ==
    [w EXCEPT !.read = @ \o SubSeq(blocks[c], ScannedTo(w) + 1, until)]
Pruned(w) == [w EXCEPT !.spent = @ \ Seen(w)]
\* rewind_to(earliest_rewind): the oldest block a rollback can be verified to.
Rewound(w) ==
    LET back == IF Len(w.read) > Checkpoints THEN Len(w.read) - Checkpoints ELSE 1
    IN [w EXCEPT !.read = SubSeq(@, 1, back)]

\* Shielded::sync for one stride: what became of the account, and how it ended.
Sync(w, c, until) ==
    LET rolled == Rewound(w)
    IN IF until > Len(blocks[c]) THEN [w |-> w, end |-> "failed"]
       ELSE IF ~Scanned(w)
       THEN [w |-> [w EXCEPT !.read = SubSeq(blocks[c], w.from, until)], end |-> "ok"]
       ELSE IF until < ScannedTo(w) THEN [w |-> w, end |-> "failed"]
       ELSE IF Descends(w, c) THEN [w |-> Pruned(Extended(w, c, until)), end |-> "ok"]
       ELSE IF Descends(rolled, c) THEN [w |-> Extended(rolled, c, until), end |-> "ok"]
       ELSE [w |-> rolled, end |-> "restart"]

\* walk_the_chain: stride after stride up to the height the server had at first.
\* A stride may also fail for the connection's sake, after its retries.
Walk ==
    /\ Running /\ job.end = "walking"
    /\ LET start == ResumesAt(job.watching)
           until == IF start + Stride - 1 < job.to THEN start + Stride - 1 ELSE job.to
           did == Sync(job.watching, job.chain, until)
       IN \/ Fails /\ job' = [job EXCEPT !.end = "failed"]
          \/ start > job.to /\ job' = [job EXCEPT !.end = "done"]
          \/ start <= job.to /\ job' = [job EXCEPT
                   !.watching = did.w,
                   !.end = CASE did.end = "ok" /\ until < job.to -> "walking"
                             [] did.end = "ok" -> "done"
                             [] OTHER -> did.end]
    /\ UNCHANGED <<blocks, forks, here, open, active, server, held, kept, paying, sent, moves>>

\* finish_scan, and the emit_wallet it ends with: what came back replaces what is
\* held and is written down; a scan to begin again is forgotten instead.
FinishScan ==
    /\ Running /\ job.end # "walking" /\ job' = NoJob
    /\ IF job.end = "restart"
       THEN /\ kept' = [kept EXCEPT ![here] = Absent]
            /\ held' = IF open THEN Watching(active) ELSE Absent
       ELSE /\ kept' = Keeping(job.watching)
            /\ held' = Synced(job.watching, open, active, kept'[here])
    /\ UNCHANGED <<blocks, forks, here, open, active, server, paying, sent, moves>>
-----------------------------------------------------------------------------
\* A payment of one note that this account offers (plan_spend, confirm).
Pay(n) ==
    /\ open /\ server[here] /\ paying = NoNote /\ n \in Unspent(held) /\ (Overlap \/ ~Running)
    /\ paying' = n
    /\ UNCHANGED <<blocks, forks, here, open, active, server, held, kept, job, sent, moves>>

Marked(h, n) == [h EXCEPT !.spent = @ \cup {n}]

\* finish_broadcast: a spend the network took is marked on whatever account is
\* held by then, and that is written down. A note already spent is refused.
FinishBroadcast ==
    /\ paying # NoNote /\ paying' = NoNote /\ sent' = sent \cup {paying}
    /\ IF paying \in sent \/ held = Absent THEN UNCHANGED <<held, kept>>
       ELSE held' = Marked(held, paying) /\ kept' = Keeping(held')
    /\ UNCHANGED <<blocks, forks, here, open, active, server, job, moves>>
-----------------------------------------------------------------------------
Move == moves < Changes /\ moves' = moves + 1
MayLeave == Away \/ paying = NoNote

Unlock ==
    /\ ~open /\ open' = TRUE /\ held' = Synced(held, TRUE, active, kept[here])
    /\ UNCHANGED <<blocks, forks, here, active, server, kept, job, paying, sent, moves>>
Lock ==
    /\ Move /\ MayLeave /\ open /\ open' = FALSE /\ held' = Absent
    /\ UNCHANGED <<blocks, forks, here, active, server, kept, job, paying, sent>>
SetActiveKey(a) ==
    /\ Move /\ MayLeave /\ a # active /\ active' = a
    /\ held' = Synced(held, open, a, kept[here])
    /\ UNCHANGED <<blocks, forks, here, open, server, kept, job, paying, sent>>

\* set_light_server("") and back: what was scanned is dropped, in the store too.
RemoveLightServer ==
    /\ Removes /\ Move /\ MayLeave /\ (Leaves \/ ~Running) /\ server[here]
    /\ server' = [server EXCEPT ![here] = FALSE] /\ kept' = [kept EXCEPT ![here] = Absent]
    /\ held' = IF open THEN Watching(active) ELSE held
    /\ UNCHANGED <<blocks, forks, here, open, active, job, paying, sent>>
SetLightServer ==
    /\ Move /\ ~server[here] /\ server' = [server EXCEPT ![here] = TRUE]
    /\ UNCHANGED <<blocks, forks, here, open, active, held, kept, job, paying, sent>>

\* switch_network: refused while a payment is out; the wallet of the other chain
\* is opened locked. A scan that is running is neither stopped nor told.
SwitchNetwork(c) ==
    /\ Move /\ (Leaves \/ ~Running) /\ c # here /\ paying = NoNote
    /\ here' = c /\ open' = FALSE /\ held' = Absent
    /\ UNCHANGED <<blocks, forks, active, server, kept, job, paying, sent>>

Next ==
    \/ \E c \in Chain : Mine(c) \/ Reorganise(c) \/ SwitchNetwork(c)
    \/ ScanShielded \/ Walk \/ FinishScan
    \/ \E n \in Note : Pay(n)
    \/ FinishBroadcast \/ Unlock \/ Lock
    \/ \E a \in Account : SetActiveKey(a)
    \/ RemoveLightServer \/ SetLightServer

Spec == Init /\ [][Next]_vars

-----------------------------------------------------------------------------
IsWatching(w) ==
    \/ w = Absent
    \/ /\ w.account \in Account /\ w.from \in Nat
       /\ w.spent \subseteq {n \in Note : OwnerOf[n] = w.account}
       /\ w.read \in Seq(Block)

TypeOK ==
    /\ blocks \in [Chain -> Seq(Block)] /\ forks \in 0 .. MaxForks /\ here \in Chain
    /\ open \in BOOLEAN /\ active \in Account /\ server \in [Chain -> BOOLEAN]
    /\ IsWatching(held) /\ IsWatching(job.watching) /\ \A c \in Chain : IsWatching(kept[c])
    /\ paying \in Note \cup {NoNote} /\ sent \subseteq Note /\ moves \in 0 .. Changes

\* "Without this, a second spend in that window selects the same note again ...
\* after the prover has been paid for" (Shielded::spent_locally): a note whose
\* spend the network took is not offered again.
\* Does not hold if Overlap or Away, if the chain is reorganised, or with two
\* accounts: a scan's copy, a lock, a rewind and the other key's scan drop the
\* mark.
OfferedOnce == Unspent(held) \cap sent = {}

\* "rather than quietly mixing positions from two chains" (Shielded::sync): what
\* was read is one chain, each block after the one before it.
OneHistory ==
    \A w \in {held, job.watching} \cup {kept[c] : c \in Chain} :
        \A i \in 1 .. Len(w.read) - 1 :
            w.read[i + 1].after = w.read[i].fork /\ w.read[i + 1].chain = w.read[i].chain

\* "it is one account's answer applied to another's" (birthday_key): the account
\* held is the open wallet's active one, and its notes are its own.
HeldIsActives == held # Absent => open /\ held.account = active

\* "So the thing that reads it back can tell whether it is the right one" (Kept):
\* what is held and kept for a chain was read from that chain.
\* Does not hold if Leaves: what comes back carries no chain.
ReadFromThisChain ==
    /\ \A i \in DOMAIN held.read : held.read[i].chain = here
    /\ \A c \in Chain : \A i \in DOMAIN kept[c].read : kept[c].read[i].chain = c

\* "A balance from an endpoint that has been removed is a figure with no source.
\* Better to have none" (shielded_scan_forgotten).
\* Does not hold if Leaves: what comes back is taken.
ForgottenStays == ~server[here] => ~Scanned(held) /\ ~Scanned(kept[here])

\* The scan that is held is behind the chain. It gets there over every
\* reorganisation and after every change of key, as long as the wallet is open and
\* a server is there.
Waiting ==
    /\ open /\ server[here] /\ Len(blocks[here]) >= BornAt[active]
    /\ Scanned(held) => ScannedTo(held) < Len(blocks[here])
=============================================================================
