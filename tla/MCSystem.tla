------------------------------- MODULE MCSystem -------------------------------
(* Small instances of SagaSystem for TLC: one user, one offering.         *)
EXTENDS SagaSystem

CONSTANTS d1, d2, p1, p2, r1, r2, alice, book, OpeningBalance

MCTypes ==
  [t \in { d1, d2, p1, p2, r1, r2 } |->
     CASE t \in { d1, d2 } -> "deposit"
       [] t \in { p1, p2 } -> "purchase"
       [] t \in { r1, r2 } -> "refund"]

MCTypeOf == [t \in Txn |-> MCTypes[t]]

MCUserOf == [t \in Txn |-> alice]

MCOfferingOf == [t \in Txn |-> book]

MCAmountOf == [t \in Txn |-> 1]

MCOriginalOf == [t \in Txn |-> p1]

MCOpening == [u \in { alice } |-> OpeningBalance]
===============================================================================
