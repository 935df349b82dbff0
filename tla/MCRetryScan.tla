---------------------------- MODULE MCRetryScan -----------------------------
(* A small instance of the retry scan for TLC. *)
EXTENDS RetryScan, TLC

CONSTANTS x1, x2, x3, a1, a2

ThirdElsewhere == (x1 :> a1) @@ (x2 :> a1) @@ (x3 :> a2)
RoomOrRetryLimit == {[queryLimit |-> 2, retryLimit |-> FALSE], [queryLimit |-> 1, retryLimit |-> TRUE]}
=============================================================================
