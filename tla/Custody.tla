------------------------------ MODULE Custody ------------------------------
(* What the wallet promises about the bytes of a signed payment            *)
(* (pending.rs, "Why this is written before the broadcast, not after"):    *)
(* they are kept before any node can have them, and are let go of only     *)
(* once a node has taken them.                                             *)
CONSTANT Tx

VARIABLES
    kept,       \* the transactions whose bytes are on disk
    taken       \* the transactions some node has accepted

Init == kept = {} /\ taken = {}

Keep(t) ==
    /\ t \notin taken
    /\ kept' = kept \cup {t}
    /\ taken' = taken

Take(t) ==
    /\ t \in kept
    /\ taken' = taken \cup {t}
    /\ kept' = kept

LetGo(t) ==
    /\ t \in kept \cap taken
    /\ kept' = kept \ {t}
    /\ taken' = taken

Next == \E t \in Tx : Keep(t) \/ Take(t) \/ LetGo(t)

Spec == Init /\ [][Next]_<<kept, taken>>
=============================================================================
