------------------------------- MODULE Params -------------------------------
(* Finding the Sapling proving parameters and downloading them when nobody   *)
(* has (pecu-core/src/params.rs).  A file is found by its size, read by its  *)
(* hash, and put in place under its name when it is all there; the transfer, *)
(* the disk and the process may fail between any two blocks.                 *)
(*                                                                           *)
(* Sizes are in blocks.  What a payment does with the parameters, and the    *)
(* answer when there are none, is SpendGate's and Custody's.                 *)
EXTENDS Naturals, FiniteSets, FiniteSetsExt

CONSTANTS
    Places,     \* how many places are searched; the last is the wallet's own
    Size        \* blocks of each file

File == {"output", "spend"}

ParamsAssumption ==
    Places \in Nat \ {0} /\ DOMAIN Size = File /\ \A f \in File : Size[f] \in Nat \ {0}

VARIABLES
    files,      \* what lies in each place under each name
    temp,       \* the wallet's own ".partial" files
    name,       \* the file being downloaded, "" when no call is under way
    written,    \* download's written
    progress,   \* the last Progress told by this call
    result      \* how the last call ended

vars == <<files, temp, name, written, progress, result>>

Missing == [len |-> 0, good |-> FALSE]
Own == Places
Total == Size["output"] + Size["spend"]

\* is_sized, find_in: the first place that has both at their sizes.
IsSized(fs, d, f) == fs[d][f].len = Size[f]
Holders(fs) == {d \in 1 .. Places : \A f \in File : IsSized(fs, d, f)}
FindIn(fs) == IF Holders(fs) = {} THEN 0 ELSE Min(Holders(fs))

\* load: the hashes are checked here, by the SDK.
Load(fs, d) == IF \A f \in File : fs[d][f].good THEN "loaded" ELSE "not the ceremony's"

-----------------------------------------------------------------------------
TypeOK ==
    /\ \A d \in 1 .. Places, f \in File : files[d][f].len \in 0 .. Size[f]
    /\ \A f \in File : temp[f].len \in 0 .. Size[f]
    /\ name # "" => name \in File /\ temp[name].len = written
    /\ progress \in 0 .. Total
    /\ result \in {"", "loaded", "not the ceremony's", "missing", "failed"}

\* What other programs left: whole files, cut ones, or none.
Left(f) == {Missing, [len |-> 1, good |-> FALSE]} \cup [len : {Size[f]}, good : BOOLEAN]
Init ==
    /\ files \in [1 .. Places -> [File -> UNION {Left(f) : f \in File}]]
    /\ \A d \in 1 .. Places, f \in File : files[d][f] \in Left(f)
    /\ files[Own] = [f \in File |-> Missing]
    /\ temp = [f \in File |-> Missing]
    /\ name = "" /\ written = 0 /\ progress = 0 /\ result = ""

\* Mutant: every file is counted from nothing.
BeforeNone(f) == 0

\* fetch: what it has counted when it comes to a file.
Before(f) == IF f = "output" THEN 0 ELSE Size["output"]

End(how) == name' = "" /\ written' = 0 /\ result' = how

\* download begins: the server may refuse, or send another file.
Download(f, ts) ==
    \/ /\ name' = f /\ written' = 0 /\ result' = ""
       /\ \E good \in BOOLEAN : temp' = [ts EXCEPT ![f] = [len |-> 0, good |-> good]]
    \/ End("failed") /\ temp' = ts

-----------------------------------------------------------------------------
\* ensure, ensure_in, fetch: what is found is loaded, and a file of the wallet's
\* own that is there already is not downloaded again.
Ensure(may) ==
    LET first == IF IsSized(files, Own, "output") THEN "spend" ELSE "output" IN
    /\ name = "" /\ UNCHANGED files
    /\ IF FindIn(files) # 0 \/ ~may
       THEN /\ result' = IF FindIn(files) # 0 THEN Load(files, FindIn(files)) ELSE "missing"
            /\ UNCHANGED <<temp, name, written, progress>>
       ELSE progress' = Before(first) /\ Download(first, temp)

\* Mutant: a server that stops short is taken for the end of the file.
RenameAnyway ==
    LET fs == [files EXCEPT ![Own][name] = temp[name]]
        ts == [temp EXCEPT ![name] = Missing]
    IN  /\ name # ""
        /\ \/ /\ files' = fs
              /\ IF name = "output" /\ ~IsSized(fs, Own, "spend")
                 THEN UNCHANGED progress /\ Download("spend", ts)
                 ELSE progress' = Total /\ End(Load(fs, Own)) /\ temp' = ts
           \/ End("failed") /\ UNCHANGED <<files, temp, progress>>

\* A block is read, no further than the size, written and told.
Block ==
    /\ name # "" /\ written < Size[name]
    /\ written' = written + 1 /\ temp' = [temp EXCEPT ![name].len = written + 1]
    /\ progress' = Before(name) + written + 1
    /\ UNCHANGED <<files, name, result>>

\* A read, a write or the flush fails, or the server stops short.
Break ==
    /\ name # "" /\ End("failed") /\ temp' = [temp EXCEPT ![name] = Missing]
    /\ UNCHANGED <<files, progress>>

\* All there: renamed into place, and on to the next file; a rename may fail.
Rename ==
    LET fs == [files EXCEPT ![Own][name] = temp[name]]
        ts == [temp EXCEPT ![name] = Missing]
    IN  /\ name # "" /\ written = Size[name]
        /\ \/ /\ files' = fs
              /\ IF name = "output" /\ ~IsSized(fs, Own, "spend")
                 THEN UNCHANGED progress /\ Download("spend", ts)
                 ELSE progress' = Total /\ End(Load(fs, Own)) /\ temp' = ts
           \/ End("failed") /\ UNCHANGED <<files, temp, progress>>

\* The process ends during a call.
Crash == name # "" /\ End("") /\ progress' = 0 /\ UNCHANGED <<files, temp>>

Next ==
    \/ \E may \in BOOLEAN : Ensure(may)
    \/ Block \/ Break \/ Rename \/ Crash

Spec == Init /\ [][Next]_vars

-----------------------------------------------------------------------------
(* Properties *)

\* However calls, transfers and starts end, a file of the wallet's own is all
\* there or not there ("a file under the real name is always complete": fetch).
WholeUnderItsName ==
    \A f \in File : files[Own][f] = Missing \/ IsSized(files, Own, f)

\* A call that went through leaves parameters that the next one finds (find_in).
FoundWhenFetched == result = "loaded" => FindIn(files) # 0

\* What a call says it has done only grows, and ends at the total (Progress).
ProgressGrows ==
    /\ name # "" /\ name' # "" => progress' >= progress
    /\ name # "" /\ result' = "loaded" => progress' = Total

\* Does not hold: a file of the right size that is not the ceremony's is neither
\* passed over for a good one further down the list (find_in: "what this rejects
\* is a truncated or half-downloaded file") nor fetched anew.
BadIsReplaced ==
    \A d \in 1 .. Places : (\A f \in File : IsSized(files, d, f) /\ files[d][f].good) =>
        result # "not the ceremony's"
=============================================================================
