----------------------------- MODULE Transactions -----------------------------
(* What every service knows of a transaction from its commands.           *)

CONSTANTS
  Txn,    \* transaction ids
  UserOf  \* the user of each transaction
===============================================================================
