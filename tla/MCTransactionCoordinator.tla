---------------------- MODULE MCTransactionCoordinator ----------------------
(* Small instances of the transaction coordinator for TLC. *)
EXTENDS TCProperties, TLC

CONSTANTS x1, x2, b1, b2, b3, r1, a1, h1, h2

Symmetry == Permutations({h1, h2} \cap Handlers)

\* one transaction: a TCC branch b1, an AT branch b2 that locks r1, and maybe a SAGA branch b3
OneTx == [b \in Branches |-> x1]
\* two transactions, an AT branch each, that want the same row
TwoTx == (b1 :> x1) @@ (b2 :> x2)
RowOfB2 == [b \in Branches |-> IF b = b2 THEN {r1} ELSE {}]
SharedRow == (b1 :> {r1}) @@ (b2 :> {r1})
OneTxOneBranch == b2 :> x1
OneRow == b2 :> {r1}
OneApp == [b \in Branches |-> a1]
OneHome == [x \in Xids |-> a1]
=============================================================================
