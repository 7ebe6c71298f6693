------------------------------ MODULE Settlement ------------------------------
(***************************************************************************)
(* What the saga orchestrator promises of each transaction, as a client    *)
(* who polls it can see: the transaction is registered, may time out, gets *)
(* one verdict and keeps it, and is settled only behind its verdict.  A    *)
(* timeout is not a verdict: a late outcome may still complete or fail the *)
(* transaction, but not compensate it.                                     *)
(***************************************************************************)
CONSTANT Txn

VARIABLES
  verdict,  \* what GET /transactions/{id} answers
  settled   \* the transactions whose workflow is over

settlementVars == << verdict, settled >>

Init ==
  /\ verdict = [t \in Txn |-> "absent"]
  /\ settled = {}

Register(t) ==
  /\ verdict[t] = "absent"
  /\ verdict' = [verdict EXCEPT ![t] = "pending"]
  /\ UNCHANGED settled

TimeOut(t) ==
  /\ verdict[t] = "pending"
  /\ verdict' = [verdict EXCEPT ![t] = "timed_out"]
  /\ UNCHANGED settled

Decide(t, v) ==
  /\ t \notin settled
  /\ \/ verdict[t] = "pending"
     \/ verdict[t] = "timed_out" /\ v # "compensated"
  /\ verdict' = [verdict EXCEPT ![t] = v]
  /\ UNCHANGED settled

Settle(t) ==
  /\ verdict[t] \in { "completed", "failed", "compensated" }
  /\ settled' = settled \cup { t }
  /\ UNCHANGED verdict

Next ==
  \E t \in Txn :
    \/ Register(t)
    \/ TimeOut(t)
    \/ \E v \in { "completed", "failed", "compensated" } : Decide(t, v)
    \/ Settle(t)

Spec == Init /\ [][Next]_settlementVars
===============================================================================
