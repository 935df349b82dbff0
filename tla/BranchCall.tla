------------------------------ MODULE BranchCall ------------------------------
(***************************************************************************)
(* What branchCommit and branchRollback promise to the goroutine that      *)
(* calls them, whatever streams, channels and processes do meanwhile: the  *)
(* call is refused before anything was sent, or it is answered with what   *)
(* the resource manager has done for this very call, or it fails and       *)
(* nothing is known.  A call is carried out at most once, also late.       *)
(***************************************************************************)
CONSTANTS Calls, Results, NoResult   \* NoResult is none of the Results

VARIABLES phase, ran, got   \* of each call: where it is, what the RM did, what the caller was told
vars == <<phase, ran, got>>

Phases == {"idle", "pending", "refused", "answered", "failed"}

TypeOK == /\ phase \in [Calls -> Phases]
          /\ ran \in [Calls -> Results \cup {NoResult}]
          /\ got \in [Calls -> Results \cup {NoResult}]

Init == /\ phase = [k \in Calls |-> "idle"]
        /\ ran = [k \in Calls |-> NoResult]
        /\ got = [k \in Calls |-> NoResult]

Send(k) == /\ phase[k] = "idle"
           /\ phase' = [phase EXCEPT ![k] = "pending"] /\ UNCHANGED <<ran, got>>

Refuse(k) == /\ phase[k] = "idle"
             /\ phase' = [phase EXCEPT ![k] = "refused"] /\ UNCHANGED <<ran, got>>

\* the call may have failed by the time the resource manager works on it
Execute(k, r) == /\ phase[k] \in {"pending", "failed"} /\ ran[k] = NoResult
                 /\ ran' = [ran EXCEPT ![k] = r] /\ UNCHANGED <<phase, got>>

Answer(k) == /\ phase[k] = "pending" /\ ran[k] # NoResult
             /\ phase' = [phase EXCEPT ![k] = "answered"]
             /\ got' = [got EXCEPT ![k] = ran[k]] /\ UNCHANGED ran

\* the timer of one call, or a crash of the coordinator for all of them
Fail(K) == /\ K # {} /\ \A k \in K : phase[k] = "pending"
           /\ phase' = [k \in Calls |-> IF k \in K THEN "failed" ELSE phase[k]]
           /\ UNCHANGED <<ran, got>>

Next == \/ \E k \in Calls : Send(k) \/ Refuse(k) \/ Answer(k)
        \/ \E k \in Calls, r \in Results : Execute(k, r)
        \/ \E K \in SUBSET Calls : Fail(K)

Spec == Init /\ [][Next]_vars

=============================================================================
