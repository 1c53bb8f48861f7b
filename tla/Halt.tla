-------------------------------- MODULE Halt --------------------------------
(* When the wallet asks a chain's oracle whether conversions are switched    *)
(* off, and what it does with the answer (pecu-core/src/lib.rs).  A node     *)
(* that answers for its tip is asked, once: the answer is kept until the     *)
(* chain is changed.  What the oracle publishes is Upgrade's.                *)
(*                                                                           *)
(* Every chain here has an oracle.  A tip of 0 is one not known yet, which   *)
(* the code reads as 0.  A reading carries the chain it is of, which the     *)
(* code's does not.                                                          *)
EXTENDS Upgrade

CONSTANTS
    Chain, FirstChain,
    Publications,   \* what an oracle may hold: sequences of values
    MaxHeight,      \* bound: how far a chain grows
    Growing,        \* whether blocks come
    Publishing,     \* whether the oracles change what they hold
    Patient,        \* whether the user changes chains only when nothing is out
    NoReading

HaltAssumption ==
    /\ FirstChain \in Chain
    /\ MaxHeight \in Nat
    /\ Publications \subseteq Seq(Published(0 .. MaxHeight))
    /\ {Growing, Publishing, Patient} \subseteq BOOLEAN

VARIABLES
    chain,          \* the open chain
    height,         \* the chains: their tips
    published,      \* the chains: what their oracles hold
    tip,            \* the tip the active node has reported
    halt,           \* the last answer, or none
    reading,        \* reading_halt
    jobs,           \* reads whose answer is not yet applied
    shown,          \* the status the interface was sent last
    ever,           \* history: what the oracles have held
    halted          \* history: a conversion was signed on a halted chain

vars == <<chain, height, published, tip, halt, reading, jobs, shown, ever, halted>>

Statuses ==
    [severity : {Severities[n] : n \in DOMAIN Severities},
     note : {"none", "halt-unknown", "halt-unreadable", "halt-unrecognised"}
            \cup {Switch[u].note : u \in Known},
     halted : BOOLEAN,
     inBlocks : 0 .. MaxHeight]
Reading == [of : Chain, status : Statuses]
Job == [on : Chain, answer : {"none", "failed", "ok"}, values : Publications \cup {<<>>}]

TypeOK ==
    /\ chain \in Chain
    /\ height \in [Chain -> 0 .. MaxHeight]
    /\ published \in [Chain -> Publications]
    /\ tip \in 0 .. MaxHeight
    /\ halt \in Reading \cup {NoReading}
    /\ reading \in BOOLEAN
    /\ jobs \subseteq Job
    /\ shown \in Statuses
    /\ ever \in [Chain -> SUBSET Publications]
    /\ halted \in BOOLEAN

Init ==
    /\ chain = FirstChain
    /\ height \in [Chain -> 1 .. MaxHeight]
    /\ published \in [Chain -> Publications]
    /\ tip = 0
    /\ halt = NoReading
    /\ reading = FALSE
    /\ jobs = {}
    /\ shown = Unknown
    /\ ever = [c \in Chain |-> {published[c]}]
    /\ halted = FALSE

-----------------------------------------------------------------------------
\* read_chain_halt
ReadChainHalt ==
    IF reading THEN UNCHANGED <<reading, jobs>>
    ELSE /\ reading' = TRUE
         /\ jobs' = jobs \cup {[on |-> chain, answer |-> "none", values |-> <<>>]}

\* finish_tip: the node answers, and the first time so is the oracle asked.
FinishTip ==
    /\ tip' = height[chain]
    /\ IF halt = NoReading THEN ReadChainHalt ELSE UNCHANGED <<reading, jobs>>
    /\ UNCHANGED <<chain, height, published, halt, shown, ever, halted>>

\* The worker: what the oracle holds, or no answer.
Run(j, a) ==
    /\ j.answer = "none"
    /\ jobs' = (jobs \ {j}) \cup
           {[j EXCEPT !.answer = a,
                      !.values = IF a = "ok" THEN published[j.on] ELSE <<>>]}
    /\ UNCHANGED <<chain, height, published, tip, halt, reading, shown, ever, halted>>

\* finish_chain_halt: an answer is read at the tip of now and kept; after a
\* failure the one in hand stands in while it is fresh (HALT_STANDBY).
FinishChainHalt(j, fresh) ==
    /\ j.answer # "none"
    /\ reading' = FALSE
    /\ jobs' = jobs \ {j}
    /\ IF j.answer = "failed"
       THEN /\ halt' = halt
            /\ shown' = IF halt # NoReading /\ fresh THEN halt.status ELSE Unknown
       ELSE /\ halt' = [of |-> j.on, status |-> Read(j.values, tip)]
            /\ shown' = Read(j.values, tip)
    /\ UNCHANGED <<chain, height, published, tip, ever, halted>>

\* What the chain itself would say of a conversion.
HaltedNow(c) ==
    \E n \in DOMAIN published[c] :
        /\ HaltsConversion(published[c][n].upgrade)
        /\ published[c][n].height <= height[c]

\* prepare_conversion, of a draft that is otherwise in order.
PrepareConversion ==
    /\ halt # NoReading => ~halt.status.halted
    /\ halted' = (halted \/ (halt # NoReading /\ HaltedNow(chain)))
    /\ UNCHANGED <<chain, height, published, tip, halt, reading, jobs, shown, ever>>

\* Mutant: the answer is carried to the other chain.
SwitchNetworkCarried(c) ==
    /\ c # chain
    /\ Patient => jobs = {}
    /\ chain' = c
    /\ tip' = 0
    /\ UNCHANGED <<height, published, halt, reading, jobs, shown, ever, halted>>

\* switch_network: the answer is dropped; a read that is out stays so.
SwitchNetwork(c) ==
    /\ c # chain
    /\ Patient => jobs = {}
    /\ chain' = c
    /\ tip' = 0
    /\ halt' = NoReading
    /\ UNCHANGED <<height, published, reading, jobs, shown, ever, halted>>

\* The chain: a block, a publication.
Block(c) ==
    /\ Growing
    /\ height[c] < MaxHeight
    /\ height' = [height EXCEPT ![c] = @ + 1]
    /\ UNCHANGED <<chain, published, tip, halt, reading, jobs, shown, ever, halted>>

Publish(c, values) ==
    /\ Publishing
    /\ published' = [published EXCEPT ![c] = values]
    /\ ever' = [ever EXCEPT ![c] = @ \cup {values}]
    /\ UNCHANGED <<chain, height, tip, halt, reading, jobs, shown, halted>>

Answer(j) == \E fresh \in BOOLEAN : FinishChainHalt(j, fresh)
Reply(j) == \E a \in {"failed", "ok"} : Run(j, a)

Of(c) == {j \in jobs : j.on = c}

Next ==
    \/ FinishTip
    \/ \E j \in jobs : Answer(j) \/ Reply(j)
    \/ PrepareConversion
    \/ \E c \in Chain : SwitchNetwork(c) \/ Block(c)
    \/ \E c \in Chain, values \in Publications : Publish(c, values)

Spec == Init /\ [][Next]_vars

-----------------------------------------------------------------------------
(* Properties *)

\* "Carrying one chain's answer onto another is how a wallet offers a conversion
\* on a halted chain", and "caching one [failure] as if it were an answer pins
\* the banner" (Core::halt): what is kept was published on the open chain.
\* Does not hold unless Patient: the answer of the chain that was left is kept
\* for the one that is open.
HaltIsOfThisChain ==
    halt # NoReading =>
        \E values \in ever[chain], t \in 0 .. height[chain] :
            halt.status = Read(values, t)

\* Whoever has asked the oracle signs no conversion on a chain that is halted
\* (prepare_conversion: "The protocol is not taking conversions. Refused here").
\* Does not hold if Growing: the oracle is not asked again when the height of a
\* published halt comes.
NothingSignedOnHalt == ~halted

\* "Never collapse this into clear - a chain nobody could reach might be halted"
\* (Status::unknown): the interface says clear only if an oracle did.
ClearWasRead ==
    shown.severity = "clear" =>
        \E c \in Chain : \E values \in ever[c] : Read(values, 0).severity = "clear"

\* A chain that stays open is asked, however often the reads fail, and answers.
Waiting(c) == chain = c /\ halt = NoReading
=============================================================================
