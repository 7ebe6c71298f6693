---------------------------- MODULE MCOrchestrator ----------------------------
(* Small instances of SagaOrchestrator for TLC.                           *)
EXTENDS SagaOrchestrator

CONSTANTS d1, p1, r1

MCTypes ==
  [t \in { d1, p1, r1 } |->
     CASE t = d1 -> "deposit" [] t = p1 -> "purchase" [] t = r1 -> "refund"]

MCTypeOf == [t \in Txn |-> MCTypes[t]]
===============================================================================
