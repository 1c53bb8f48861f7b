------------------------------ MODULE Upgrade ------------------------------
(* What a chain's oracle publishes, read by pecu-core/src/upgrade.rs: the    *)
(* numbers of a descriptor, the switches they name, and the one status they  *)
(* are reduced to.                                                           *)
(*                                                                           *)
(* A byte of a varint is a number below 2 * Half, its continuation bit worth *)
(* Half (128 in the code); a varint has at most MaxBytes bytes (9), which    *)
(* keeps it below 2^64, so the checked arithmetic never refuses one.         *)
EXTENDS Integers, Sequences, SequencesExt

CONSTANTS
    Half,           \* what the continuation bit is worth
    MaxBytes        \* the longest number that is read

UpgradeAssumption == Half \in Nat \ {0} /\ MaxBytes \in Nat \ {0}

-----------------------------------------------------------------------------
(* Numbers *)

Byte == 0 .. (2 * Half - 1)
Continues(byte) == byte >= Half

\* How many of the bytes a number takes, or 0 where it has no end in sight.
LengthOf(bytes) ==
    LET ends == {n \in 1 .. Len(bytes) : n <= MaxBytes /\ ~Continues(bytes[n])}
    IN  IF ends = {} THEN 0 ELSE CHOOSE n \in ends : \A k \in ends : n <= k

\* varint: base Half, most significant first, one more for every continuation.
ValueOf(bytes) ==
    FoldLeft(LAMBDA sum, byte :
                sum * Half + (byte % Half) + (IF Continues(byte) THEN 1 ELSE 0),
             0, bytes)

\* The number read and how far, or no answer.
Varint(bytes) ==
    IF LengthOf(bytes) = 0 THEN <<>>
    ELSE <<ValueOf(SubSeq(bytes, 1, LengthOf(bytes))), LengthOf(bytes)>>

-----------------------------------------------------------------------------
(* Switches *)

\* Worst last.
Severities == <<"clear", "info", "warning", "unknown", "critical">>
Rank(severity) == CHOOSE n \in DOMAIN Severities : Severities[n] = severity
Worse(s, t) == IF Rank(s) >= Rank(t) THEN s ELSE t

\* The table: what each known switch does.  The housekeeping ones are alike.
Switch ==
    [disabledefi  |-> [severity |-> "critical", note |-> "halt-conversions"],
     bridge       |-> [severity |-> "warning", note |-> "halt-bridge"],
     housekeeping |-> [severity |-> "info", note |-> "chain-housekeeping"]]
Known == DOMAIN Switch
HaltsConversion(upgrade) == upgrade = "disabledefi"

\* A published value: a descriptor, of a switch the table has or has not, or
\* bytes that do not parse.
Published(heights) ==
    [upgrade : Known \cup {"unrecognised", "unreadable"}, height : heights]

Status(severity, note, halted, inBlocks) ==
    [severity |-> severity, note |-> note, halted |-> halted, inBlocks |-> inBlocks]
Clear == Status("clear", "none", FALSE, 0)
Unknown == Status("unknown", "halt-unknown", FALSE, 0)

Active(value, tip) == value.height <= tip

InBlocks(value, tip) == IF Active(value, tip) THEN 0 ELSE value.height - tip

\* What one value says by itself: how bad, in which words, and whether it stops
\* conversions now.
Candidate(value, tip) ==
    CASE value.upgrade = "unreadable" -> Status("info", "halt-unreadable", FALSE, 0)
      [] value.upgrade = "unrecognised" ->
            Status("info", "halt-unrecognised", FALSE,
                   InBlocks(value, tip))
      [] value.upgrade \in Known ->
            LET found == Switch[value.upgrade]
                active == Active(value, tip)
            IN  Status(IF active \/ found.severity = "info" THEN found.severity
                       ELSE "warning",
                       found.note,
                       active /\ HaltsConversion(value.upgrade),
                       InBlocks(value, tip))

\* One value more.
WorseOf(worst, next) ==
    IF Rank(next.severity) > Rank(worst.severity) \/ (next.halted /\ ~worst.halted)
    THEN Status(Worse(next.severity, worst.severity), next.note,
                next.halted \/ worst.halted, next.inBlocks)
    ELSE [worst EXCEPT !.halted = @ \/ next.halted]

\* read
Read(values, tip) ==
    FoldLeft(LAMBDA worst, value : WorseOf(worst, Candidate(value, tip)), Clear, values)

-----------------------------------------------------------------------------
(* What reading is to do, of an input. *)

\* The numbers that n bytes can say, if no number is to be said twice.
FirstOf(n) == IF n = 1 THEN 0 ELSE IF n = 2 THEN Half ELSE Half + Half * Half
CountOf(n) == Half ^ n

\* "A set continuation bit also increments the accumulated value, which is what
\* makes every length's encoding unique" (varint): no two strings of bytes say
\* the same number, and a longer one says a larger one.
EncodingUnique(bytes) ==
    LengthOf(bytes) = Len(bytes) /\ bytes # <<>> =>
        /\ ValueOf(bytes) \in FirstOf(Len(bytes)) .. (FirstOf(Len(bytes)) + CountOf(Len(bytes)) - 1)
        /\ \A other \in [1 .. Len(bytes) -> Byte] :
            LengthOf(other) = Len(bytes) /\ ValueOf(other) = ValueOf(bytes) => other = bytes

\* "0x80 0x00 is 1, not 0" (varint).
\* Does not hold: varint reads it as 128, as its test expects.
DocExample(bytes) == bytes = <<Half, 0>> => Varint(bytes)[1] = 1

\* The status does not depend on the order of the values: conversions are halted
\* if some value halts them now, and the severity is the worst of them.
StatusOfAll(values, tip) ==
    LET s == Read(values, tip)
        each == {Candidate(values[n], tip) : n \in DOMAIN values}
    IN  /\ s.halted <=> \E v \in {values[n] : n \in DOMAIN values} :
                            HaltsConversion(v.upgrade) /\ v.height <= tip
        /\ \A c \in each : Rank(c.severity) <= Rank(s.severity)
        /\ s.severity # "clear" => \E c \in each : c.severity = s.severity

\* "Zero means it is in force, and the note says what it stops" (Status): a halt
\* in force is the one that is said, at the top of the scale, and now.
HaltIsSaid(values, tip) ==
    LET s == Read(values, tip)
    IN  s.halted <=> /\ s.note = "halt-conversions"
                     /\ s.severity = "critical"
                     /\ s.inBlocks = 0
=============================================================================
