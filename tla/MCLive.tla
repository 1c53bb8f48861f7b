------------------------------- MODULE MCLive -------------------------------
(* What must happen in the end, of every part that waits for something. Each  *)
(* part by itself: a behaviour is that of one part, chosen at the start, over *)
(* the same variables.                                                        *)
EXTENDS TLC, Naturals, Sequences, FiniteSets

CONSTANTS t1, n1, w1, w2, c0, None, NoValue, k1, k2, NoKey, c1, c2, m, n, NoName, acc, a1, a2,
    NoAddress, x, y, Nowhere, b1, b2, NoPool, NoAccount, NoNote, NoReading

VARIABLES
    part,           \* whose behaviour this is
    s1, s2, s3, s4, s5, s6, s7, s8, s9, s10, s11, s12, s13, s14, s15  \* its variables

slots == <<s1, s2, s3, s4, s5, s6, s7, s8, s9, s10, s11, s12, s13, s14, s15>>
vars == <<part, slots>>

\* The slots a part leaves over are at rest.
Over14 == <<s15>>
Empty14 == s15 = 0
Over12 == <<s13, s14, Over14>>
Empty12 == s13 = 0 /\ s14 = 0 /\ Empty14
Over10 == <<s11, s12, Over12>>
Empty10 == s11 = 0 /\ s12 = 0 /\ Empty12
Over9 == <<s10, Over10>>
Empty9 == s10 = 0 /\ Empty10
Over6 == <<s7, s8, s9, Over9>>
Empty6 == s7 = 0 /\ s8 = 0 /\ s9 = 0 /\ Empty9

OneChain == n1 :> c1
TxHome == t1 :> c1

WalletVersionOf == ("old" :> 2) @@ ("scan" :> 3)
CacheVersionOf == ("old" :> 1) @@ ("scan" :> 2)
TablesOf == (1 :> {"kv"}) @@ (2 :> {"kv", "scan"})

OneHome == c1 :> ((m :> a1) @@ (n :> a2))
Closing == (0 :> b1) @@ (1 :> NoPool)
Paying == (0 :> 2) @@ (1 :> 1)
Catalogue == c1 :> {1, 2, 3}
HitOf ==
    [s \in {"", "c"} \X (1 .. 3) |->
        IF s[1] = "" \/ s[2] = 1 THEN "inside" ELSE IF s[2] = 3 THEN "prefix" ELSE "none"]

OnlyN == n :> acc
OnlyA == acc :> 1

-----------------------------------------------------------------------------
\* One payment, two workers; the process lives on and nodes forget nothing.
P == INSTANCE Payments WITH
    chain <- s1, ledger <- s2, closed <- s3, active <- s4, health <- s5, prepared <- s6,
    broadcasting <- s7, checking <- s8, jobs <- s9, signed <- s10, seen <- s11, taken <- s12,
    denied <- s13, handed <- s14, moved <- s15, Tx <- {t1}, AbsentAfter <- 1, Chain <- {c1},
    Node <- {n1}, ChainOf <- OneChain, Home <- TxHome, FirstChain <- c1,
    FailuresBeforeFailover <- 1, Slot <- {w1, w2}, MaxId <- 2, WritesFail <- FALSE,
    WorkersPanic <- FALSE, Crashes <- FALSE, NodesForget <- FALSE

\* The core and two workers that sign.
L == INSTANCE VaultLocks WITH
    op <- s1, pc <- s2, reading <- s3, writing <- s4, asking <- s5, dek <- s6, Core <- c0,
    Worker <- {w1, w2}

\* Two builds, the second with a column and a table of the cache more.
S == INSTANCE StoreOpen WITH
    build <- s1, at <- s2, step <- s3, wallet <- s4, cache <- s5, starts <- s6,
    Build <- {"old", "scan"}, WalletVersion <- WalletVersionOf, CacheVersion <- CacheVersionOf,
    CacheTable <- TablesOf, Alter <- 3, Altered <- 1, MaxStarts <- 3

\* Every wallet a start may find, three messages under way.
D == INSTANCE FrontDoor WITH
    vault <- s1, refreshing <- s2, exists <- s3, shut <- s4, busy <- s5, problem <- s6,
    restoring <- s7, commands <- s8, events <- s9, refused <- s10, MaxQueue <- 3

\* Two panels, presses that overtake what is on its way.
Q == INSTANCE Panels WITH
    step <- s1, ticket <- s2, busy <- s3, problem <- s4, commands <- s5, events <- s6,
    tickets <- s7, held <- s8, jobs <- s9, broadcasting <- s10, kept <- s11, switches <- s12,
    pressed <- s13, backed <- s14, sent <- s15, Panels <- {"send", "convert"}, MaxTickets <- 1,
    MaxKept <- 1, MaxSwitches <- 1, MaxQueue <- 2, Searches <- TRUE, Patient <- FALSE

\* The button is pressed when all has arrived.
W == INSTANCE PhraseScreen WITH
    locked <- s1, keys <- s2, backedUp <- s3, backup <- s4, step <- s5, label <- s6,
    reReading <- s7, words <- s8, challenge <- s9, seen <- s10, held <- s11, closed <- s12,
    commands <- s13, events <- s14, Key <- {k1, k2}, NewKey <- k2, Patient <- TRUE,
    MaxQueue <- 4

\* Two names typed in any order, with any number of answers out.
N == INSTANCE Names WITH
    net <- s1, means <- s2, changes <- s3, typed <- s4, identity <- s5, resolving <- s6,
    store <- s7, jobs <- s8, paid <- s9, meant <- s10, Chain <- {c1}, FirstChain <- c1,
    Name <- {m, n}, Address <- {a1, a2}, Home <- OneHome, Slots <- 3, MaxChanges <- 0,
    Fails <- TRUE, Patient <- FALSE

\* A pair that loses its route.
K == INSTANCE Markets WITH
    chain <- s1, at <- s2, halted <- s3, book <- s4, markets <- s5, table <- s6, column <- s7,
    holdings <- s8, draft <- s9, ticket <- s10, ready <- s11, floor <- s12, quote <- s13,
    prepared <- s14, flight <- s15, Chain <- {c1}, Currency <- {x, y}, Pool <- {b1, b2},
    RouteAt <- Closing, OutAt <- Paying, MaxAt <- 1, MaxPay <- 1, MaxEdits <- 2, Fails <- TRUE,
    Leaves <- FALSE

\* Readings that end, with a list or without.
C == INSTANCE CurrencyPicker WITH
    asked <- s1, node <- s2, catalog <- s3, pending <- s4, fees <- s5, lists <- s6,
    charges <- s7, last <- s8, panel <- s9, Chain <- {c1}, Currency <- {1, 2, 3},
    Query <- {"", "c"}, Hit <- HitOf, None <- NoValue, Shown <- 2, MaxJobs <- 2

\* A chain that is reorganised, and a scan that can go back one block.
T == INSTANCE ShieldedScan WITH
    blocks <- s1, forks <- s2, here <- s3, open <- s4, active <- s5, server <- s6, held <- s7,
    kept <- s8, job <- s9, paying <- s10, sent <- s11, moves <- s12, Account <- {acc},
    Note <- {n}, OwnerOf <- OnlyN, Chain <- {c1}, BornAt <- OnlyA, Stride <- 2,
    Checkpoints <- 1, MaxHeight <- 3, MaxForks <- 1, Changes <- 1, Away <- FALSE,
    Fails <- FALSE, Overlap <- TRUE, Removes <- FALSE, Leaves <- FALSE

\* Reads of the oracle that fail, on two chains.
H == INSTANCE Halt WITH
    chain <- s1, height <- s2, published <- s3, tip <- s4, halt <- s5, reading <- s6,
    jobs <- s7, shown <- s8, ever <- s9, halted <- s10, Chain <- {c1, c2}, FirstChain <- c1,
    Half <- 128, MaxBytes <- 9, Publications <- {<<>>}, MaxHeight <- 1, Growing <- FALSE,
    Publishing <- FALSE, Patient <- TRUE

-----------------------------------------------------------------------------
Init ==
    \/ part = "payments" /\ P!Init
    \/ part = "locks" /\ L!Init /\ Empty6
    \/ part = "store" /\ S!Init /\ Empty6
    \/ part = "door" /\ D!Init /\ Empty10
    \/ part = "panels" /\ Q!Init
    \/ part = "phrase" /\ W!Init /\ Empty14
    \/ part = "names" /\ N!Init /\ Empty10
    \/ part = "markets" /\ K!Init
    \/ part = "picker" /\ C!Init /\ Empty9
    \/ part = "scan" /\ T!Init /\ Empty12
    \/ part = "halt" /\ H!Init /\ Empty10

Next ==
    /\ UNCHANGED part
    /\ \/ part = "payments" /\ P!Next
       \/ part = "locks" /\ L!Next /\ UNCHANGED Over6
       \/ part = "store" /\ S!Next /\ UNCHANGED Over6
       \/ part = "door" /\ D!Next /\ UNCHANGED Over10
       \/ part = "panels" /\ Q!Next
       \/ part = "phrase" /\ W!Next /\ UNCHANGED Over14
       \/ part = "names" /\ N!Next /\ UNCHANGED Over10
       \/ part = "markets" /\ K!Next
       \/ part = "picker" /\ C!Next /\ UNCHANGED Over9
       \/ part = "scan" /\ T!Next /\ UNCHANGED Over12
       \/ part = "halt" /\ H!Next /\ UNCHANGED Over10

Spec == Init /\ [][Next]_vars
-----------------------------------------------------------------------------
ASSUME LiveAssumption ==
    /\ P!PaymentsAssumption /\ L!VaultLocksAssumption /\ S!StoreOpenAssumption
    /\ D!FrontDoorAssumption /\ Q!PanelsAssumption /\ W!PhraseScreenAssumption
    /\ N!NamesAssumption /\ K!MarketsAssumption /\ C!PickerAssumption
    /\ T!ShieldedScanAssumption /\ H!HaltAssumption

\* What goes on by itself: workers end and the core takes their answers; the core
\* takes its commands and the window its events; Store::open runs to its end; a
\* thread that can run does. What is asked again and again is answered in the
\* end: a node that has a payment says so now and then, an oracle and a light
\* server answer now and then, and the timer comes round to every payment that
\* is listed; a lock that is free again and again is got. Nothing says that
\* anybody presses anything. (One part has the actions of one part: a line of
\* several parts stands for one line in each.)
Fairness ==
    /\ WF_vars(/\ UNCHANGED part
               /\ \/ part = "payments" /\ \E j \in P!Of(w1) : P!Run(j)
                  \/ part = "locks" /\ L!Step(c0) /\ UNCHANGED Over6
                  \/ part = "store" /\ S!Opening /\ UNCHANGED Over6
                  \/ part = "door" /\ D!Core /\ UNCHANGED Over10
                  \/ part = "panels" /\ Q!Apply
                  \/ part = "phrase" /\ W!Core /\ UNCHANGED Over14
                  \/ part = "names" /\ N!AnswerAt(1) /\ UNCHANGED Over10
                  \/ part = "markets" /\ K!Estimating
                  \/ part = "picker" /\ C!Reading /\ UNCHANGED Over9
                  \/ part = "scan" /\ T!ScanShielded /\ UNCHANGED Over12
                  \/ part = "halt" /\ H!FinishTip /\ UNCHANGED Over10)
    /\ WF_vars(/\ UNCHANGED part
               /\ \/ part = "payments" /\ \E j \in P!Of(w1) : P!Finish(j)
                  \/ part = "locks" /\ L!Step(w1) /\ UNCHANGED Over6
                  \/ part = "door" /\ D!Apply /\ UNCHANGED Over10
                  \/ part = "panels" /\ Q!Core
                  \/ part = "phrase" /\ W!Apply /\ UNCHANGED Over14
                  \/ part = "names" /\ N!FinishAt(1) /\ UNCHANGED Over10
                  \/ part = "scan" /\ T!Walk /\ UNCHANGED Over12
                  \/ part = "halt" /\ \E j \in H!Of(c1) : H!Answer(j) /\ UNCHANGED Over10)
    /\ WF_vars(/\ UNCHANGED part
               /\ \/ part = "payments" /\ \E j \in P!Of(w2) : P!Run(j)
                  \/ part = "locks" /\ L!Step(w2) /\ UNCHANGED Over6
                  \/ part = "panels" /\ Q!Work
                  \/ part = "names" /\ N!AnswerAt(2) /\ UNCHANGED Over10
                  \/ part = "scan" /\ T!FinishScan /\ UNCHANGED Over12
                  \/ part = "halt" /\ \E j \in H!Of(c1) : H!Reply(j) /\ UNCHANGED Over10)
    /\ WF_vars(/\ UNCHANGED part
               /\ \/ part = "payments" /\ \E j \in P!Of(w2) : P!Finish(j)
                  \/ part = "names" /\ N!FinishAt(2) /\ UNCHANGED Over10
                  \/ part = "scan" /\ T!FinishBroadcast /\ UNCHANGED Over12
                  \/ part = "halt" /\ \E j \in H!Of(c2) : H!Answer(j) /\ UNCHANGED Over10)
    /\ WF_vars(/\ UNCHANGED part
               /\ \/ part = "names" /\ N!AnswerAt(3) /\ UNCHANGED Over10
                  \/ part = "halt" /\ \E j \in H!Of(c2) : H!Reply(j) /\ UNCHANGED Over10)
    /\ WF_vars(UNCHANGED part /\ part = "names" /\ N!FinishAt(3) /\ UNCHANGED Over10)
    /\ SF_vars(/\ UNCHANGED part
               /\ \/ part = "payments" /\ \E j \in P!Of(w1) : P!RunCheck(j, TRUE)
                  \/ part = "locks" /\ \E l \in L!Lock : L!AcquireRead(c0, l) /\ UNCHANGED Over6
                  \/ part = "door" /\ D!FinishRefresh /\ UNCHANGED Over10
                  \/ part = "halt" /\ \E j \in H!Of(c1) : H!Run(j, "ok") /\ UNCHANGED Over10)
    /\ SF_vars(/\ UNCHANGED part
               /\ \/ part = "payments" /\ \E j \in P!Of(w2) : P!RunCheck(j, TRUE)
                  \/ part = "locks" /\ \E l \in L!Lock : L!AcquireRead(w1, l) /\ UNCHANGED Over6
                  \/ part = "halt" /\ \E j \in H!Of(c2) : H!Run(j, "ok") /\ UNCHANGED Over10)
    /\ SF_vars(/\ UNCHANGED part
               /\ \/ part = "payments" /\ P!PollNumber(1)
                  \/ part = "locks" /\ \E l \in L!Lock : L!AcquireRead(w2, l) /\ UNCHANGED Over6)
    /\ SF_vars(UNCHANGED part /\ part = "payments" /\ P!PollNumber(2))

FairSpec == Spec /\ Fairness

\* The flag that holds off failover and a change of chain does not outlive the
\* hand-over it stands for (broadcasting, finish_broadcast).
HandingOver == part = "payments" /\ P!Waiting
BroadcastEnds == HandingOver ~> ~HandingOver

\* A payment the node in use has is not listed as unresolved for ever: it is
\* asked about until it settles, or the user gives it up (poll_pending).
SeenIsSettled == ~ <>[](part = "payments" /\ P!SeenUnsettled(t1))

\* What is waited for, of each part: at most three things at a time.
Waiting(k) ==
    CASE part = "locks" -> L!Waiting(<<c0, w1, w2>>[k])
      [] part = "panels" -> k <= 2 /\ Q!Waiting(<<"send", "convert">>[k])
      [] part = "names" -> k <= 2 /\ N!Waiting(<<m, n>>[k])
      [] part = "markets" -> k <= 2 /\ K!Waiting(k)
      [] part = "halt" -> k <= 2 /\ H!Waiting(<<c1, c2>>[k])
      [] part = "store" -> k = 1 /\ S!Waiting
      [] part = "door" -> k = 1 /\ D!Waiting
      [] part = "phrase" -> k = 1 /\ W!Waiting
      [] part = "picker" -> k = 1 /\ C!Waiting
      [] part = "scan" -> k = 1 /\ T!Waiting
      [] OTHER -> FALSE

\* Whoever is half-way through an operation of the vault returns; a store is open
\* or refused, unless the process ends; "Working..." and "Sending..." come to an
\* end; a button that is held shows the words; a name that is typed and an edit
\* of a conversion are answered or replaced; a picker that loads comes to show
\* something; a scan catches up with the chain; and the halt of the open chain
\* is found, however often the reads fail.
EveryWaitEnds == \A k \in 1 .. 3 : Waiting(k) ~> ~Waiting(k)
=============================================================================
