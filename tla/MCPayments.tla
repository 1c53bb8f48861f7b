----------------------------- MODULE MCPayments -----------------------------
(* Payments on small instances: one chain or two, with their nodes.          *)
EXTENDS Payments, TLC

CONSTANTS t1, t2, n1, n2, c1, c2

\* One chain, one or two endpoints.
OneChain == [n \in Node |-> c1]
OneHome == [t \in Tx |-> c1]

\* Two chains with an endpoint and a transaction each.
TwoChains == (n1 :> c1) @@ (n2 :> c2)
TwoHomes == (t1 :> c1) @@ (t2 :> c2)

SlotSymmetry == Permutations(Slot)
=============================================================================
