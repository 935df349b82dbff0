---------------------------- MODULE MCRowLockSQL ----------------------------
(* A small instance of the SQL row locks for TLC. *)
EXTENDS RowLockSQL, TLC

CONSTANTS x1, x2, b1, b2, b3, b4, r1, r2, r3

\* two branches of each transaction; the rows overlap within and between the transactions
Tx == (b1 :> x1) @@ (b2 :> x1) @@ (b3 :> x2) @@ (b4 :> x2)
Keys == (b1 :> {r1, r2}) @@ (b2 :> {r2, r3}) @@ (b3 :> {r1, r3}) @@ (b4 :> {r3})
=============================================================================
