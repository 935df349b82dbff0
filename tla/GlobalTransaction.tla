--------------------------- MODULE GlobalTransaction ---------------------------
(***************************************************************************)
(* What the coordinator promises of a global transaction, whatever         *)
(* handlers, workers, retries and crashes do meanwhile: its TM decides     *)
(* once, its branches carry out that decision and no other, and it ends    *)
(* when they all have, unless it is given up: its retries have run out or  *)
(* an RM has refused for good.                                             *)
(***************************************************************************)
CONSTANTS Xids, Branches, TxOf

VARIABLES
  decision,  \* of each transaction: "none", "active", or what its TM has decided
  branch,    \* of each branch: "none", "entered", or "failed" in phase one
  done,      \* the decisions carried out, and by which branch
  pardoned,  \* the transactions that may be given up
  ended,     \* the transactions the coordinator knows no more
  finished   \* the transactions whose TM was told so
vars == <<decision, branch, done, pardoned, ended, finished>>

Decisions == {"commit", "rollback"}
Decided(x) == decision[x] \in Decisions
BranchesOf(x) == {b \in Branches : TxOf[b] = x}

\* phase two of b is done, or there is nothing to be done
Settled(b) == branch[b] # "entered" \/ <<decision[TxOf[b]], b>> \in done

Init ==
  /\ decision = [x \in Xids |-> "none"] /\ branch = [b \in Branches |-> "none"]
  /\ done = {} /\ pardoned = {} /\ ended = {} /\ finished = {}

Begin(x) ==
  /\ decision[x] = "none" /\ decision' = [decision EXCEPT ![x] = "active"]
  /\ UNCHANGED <<branch, done, pardoned, ended, finished>>

Decide(x, d) ==
  /\ decision[x] = "active" /\ decision' = [decision EXCEPT ![x] = d]
  /\ UNCHANGED <<branch, done, pardoned, ended, finished>>

\* a branch joins, or fails in phase one, before the decision only
Advance(b, from, to) ==
  /\ decision[TxOf[b]] = "active" /\ branch[b] = from
  /\ branch' = [branch EXCEPT ![b] = to]
  /\ UNCHANGED <<decision, done, pardoned, ended, finished>>

Enter(b) == Advance(b, "none", "entered")
FailPhaseOne(b) == Advance(b, "entered", "failed")

\* the RM has done as it was asked; a goroutine with an old copy may ask again, also after the end
CarryOut(b) ==
  /\ Decided(TxOf[b]) /\ branch[b] # "none"
  /\ done' = done \cup {<<decision[TxOf[b]], b>>}
  /\ UNCHANGED <<decision, branch, pardoned, ended, finished>>

Pardon(x) ==
  /\ decision[x] # "none" /\ pardoned' = pardoned \cup {x}
  /\ UNCHANGED <<decision, branch, done, ended, finished>>

End(x) ==
  /\ Decided(x) /\ (x \in pardoned \/ \A b \in BranchesOf(x) : Settled(b))
  /\ ended' = ended \cup {x}
  /\ UNCHANGED <<decision, branch, done, pardoned, finished>>

TellFinished(x) ==
  /\ x \in ended /\ finished' = finished \cup {x}
  /\ UNCHANGED <<decision, branch, done, pardoned, ended>>

Next ==
  \/ \E x \in Xids : Begin(x) \/ Pardon(x) \/ End(x) \/ TellFinished(x)
  \/ \E x \in Xids, d \in Decisions : Decide(x, d)
  \/ \E b \in Branches : Enter(b) \/ FailPhaseOne(b) \/ CarryOut(b)

Spec == Init /\ [][Next]_vars

-----------------------------------------------------------------------------

\* What follows: no transaction is committed by one branch and rolled back by another, and one
\* that has ended and was not given up is done in all its branches, also for a TM told Finished.
AllOrNothing ==
  /\ \A b, c \in Branches : TxOf[b] = TxOf[c] => ~(<<"commit", b>> \in done /\ <<"rollback", c>> \in done)
  /\ \A x \in ended \cup finished : x \in pardoned \/ \A b \in BranchesOf(x) : Settled(b)

=============================================================================
