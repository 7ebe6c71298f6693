-------------------------------- MODULE Wallets --------------------------------
(***************************************************************************)
(* The wallets service: internal/services/wallets.  A wallet is a balance  *)
(* and a journal of movements; a movement is named by the transaction and  *)
(* the source step of the command that asked for it, and a unique index    *)
(* keeps one movement per name.                                            *)
(*                                                                         *)
(* Debit and Credit run in one database transaction that locks the wallet  *)
(* row, so each is one step.  What the handler then publishes is the       *)
(* second argument of the action: the action holds of every outcome that   *)
(* the handler may answer, and of no other.                                *)
(***************************************************************************)
EXTENDS Transactions, Integers, FiniteSetsExt

CONSTANTS
  AmountOf,  \* the amount of each transaction
  Opening,   \* the opening balance of each user who has a wallet
  Steps      \* source steps

ASSUME WalletsAssumption ==
  /\ AmountOf \in [Txn -> Nat \ { 0 }]
  /\ Opening \in [DOMAIN Opening -> Nat]

VARIABLES
  balance,   \* wallets.wallets, by user
  movements  \* wallets.wallet_movements

vars == << balance, movements >>

HasWallet(t) == UserOf[t] \in DOMAIN balance

Movements(t, step) == { m \in movements : m.txn = t /\ m.step = step }

(* Mutant: a movement is looked up by the transaction alone.              *)
ExistsForTxn(t, step) == \E m \in movements : m.txn = t

(* findExistingMovement.                                                  *)
Exists(t, step) == Movements(t, step) # {}

Init ==
  /\ balance = Opening
  /\ movements = {}

(* Mutant: only the journal is written.                                   *)
MoveJournalOnly(t, step, type, after) ==
  /\ movements' = movements \cup
       { [txn |-> t, step |-> step, type |-> type,
          before |-> balance[UserOf[t]], after |-> after] }
  /\ UNCHANGED balance

(* Both statements of the database transaction.                           *)
Move(t, step, type, after) ==
  /\ movements' = movements \cup
       { [txn |-> t, step |-> step, type |-> type,
          before |-> balance[UserOf[t]], after |-> after] }
  /\ balance' = [balance EXCEPT ![UserOf[t]] = after]

(* Mutant: the movement is not looked up first.                           *)
DebitedAgain(t, step) ==
  /\ HasWallet(t)
  /\ balance[UserOf[t]] >= AmountOf[t]
  /\ Move(t, step, "debit", balance[UserOf[t]] - AmountOf[t])

(* Mutant: the funds are not checked.                                     *)
DebitedOnCredit(t, step) ==
  /\ HasWallet(t)
  /\ IF Exists(t, step)
     THEN UNCHANGED vars
     ELSE Move(t, step, "debit", balance[UserOf[t]] - AmountOf[t])

(* A debit moves money once; a repetition answers the stored movement.    *)
Debited(t, step) ==
  /\ HasWallet(t)
  /\ IF Exists(t, step)
     THEN UNCHANGED vars
     ELSE /\ balance[UserOf[t]] >= AmountOf[t]
          /\ Move(t, step, "debit", balance[UserOf[t]] - AmountOf[t])

(* Mutant: the funds are checked before the movement is looked up.        *)
DebitRejectedByBalance(t, step) ==
  /\ HasWallet(t) => balance[UserOf[t]] < AmountOf[t]
  /\ UNCHANGED vars

(* A rejection is stored nowhere.                                         *)
DebitRejected(t, step) ==
  /\ HasWallet(t) => ~ Exists(t, step) /\ balance[UserOf[t]] < AmountOf[t]
  /\ UNCHANGED vars

(* Mutant: the movement is not looked up first.                           *)
CreditedAgain(t, step) ==
  /\ HasWallet(t)
  /\ Move(t, step, "credit", balance[UserOf[t]] + AmountOf[t])

(* A credit to a user without a wallet is an error: it has no outcome.    *)
Credited(t, step) ==
  /\ HasWallet(t)
  /\ IF Exists(t, step)
     THEN UNCHANGED vars
     ELSE Move(t, step, "credit", balance[UserOf[t]] + AmountOf[t])

Handle(msg, answer) ==
  \/ /\ msg.key = "wallet.debit.requested"
     /\ answer = "wallet.debited"
     /\ Debited(msg.txn, msg.step)
  \/ /\ msg.key = "wallet.debit.requested"
     /\ answer = "wallet.debit.rejected"
     /\ DebitRejected(msg.txn, msg.step)
  \/ /\ msg.key = "wallet.credit.requested"
     /\ answer = "wallet.credited"
     /\ Credited(msg.txn, msg.step)

------------------------------------------------------------------------------
(* The service on its own, under every sequence of commands.              *)

Next ==
  \E t \in Txn, step \in Steps :
    Debited(t, step) \/ DebitRejected(t, step) \/ Credited(t, step)

Spec == Init /\ [][Next]_vars

------------------------------------------------------------------------------
(* Properties.                                                            *)

(* Typing; a balance is never negative, as the table's CHECK demands.     *)
TypeOK ==
  /\ balance \in [DOMAIN Opening -> Nat]
  /\ movements \subseteq
       [txn : Txn, step : Steps, type : { "debit", "credit" },
        before : Nat, after : Nat]

(* A command moves money once, however often it is delivered.             *)
MovedOnce ==
  \A m, n \in movements : m.txn = n.txn /\ m.step = n.step => m = n

Added(m) == m.after - m.before

Journal(u) == { m \in movements : UserOf[m.txn] = u }

(* A wallet holds its opening balance and what its movements added up to. *)
JournalExplainsBalance ==
  \A u \in DOMAIN Opening :
    balance[u] = Opening[u] + MapThenSumSet(Added, Journal(u))
===============================================================================
