------------------------------ MODULE SagaSystem ------------------------------
(***************************************************************************)
(* The orchestrator of module SagaOrchestrator with the real services in   *)
(* place of its open participants: wallets, catalog-access and the deposit *)
(* command of payments with its provider.  Every step is a step of the     *)
(* orchestrator's specification, or leaves the orchestrator alone, so what *)
(* is proved of it holds here.                                             *)
(***************************************************************************)
EXTENDS SagaOrchestrator, Integers, FiniteSetsExt

CONSTANTS
  UserOf, AmountOf, Opening, OfferingOf, OriginalOf,
  ProviderFails  \* deposits that the provider refuses

ASSUME SystemAssumption ==
  /\ AmountOf \in [Txn -> Nat \ { 0 }]
  /\ Opening \in [DOMAIN Opening -> Nat]
  /\ \A t \in Txn : TypeOf[t] = "refund" => t \in DOMAIN OriginalOf

VARIABLES balance, movements, access

Wallet == INSTANCE Wallets WITH Steps <- SourceSteps

Catalog == INSTANCE CatalogAccess

serviceVars == << balance, movements, access >>

systemVars == << vars, serviceVars >>

(* The provider's answer is a function of the command.                    *)
Charge(msg, answer) ==
  /\ msg.key = "payments.deposit.requested"
  /\ answer = IF msg.txn \in ProviderFails THEN "provider.charge.failed"
                                           ELSE "provider.charge.succeeded"

(* The state change that goes with answering a command.                   *)
Effect(msg, answer) ==
  \/ Charge(msg, answer) /\ UNCHANGED serviceVars
  \/ Wallet!Handle(msg, answer) /\ UNCHANGED access
  \/ Catalog!CatalogHandle(msg, answer) /\ UNCHANGED << balance, movements >>

SystemInit == Init /\ Wallet!Init /\ Catalog!CatalogInit

(* The eligibility checks read catalog-access as it is at that moment.    *)
Eligible(t) ==
  CASE TypeOf[t] = "deposit" -> TRUE
    [] TypeOf[t] = "purchase" -> Catalog!PurchaseAllowed(t)
    [] TypeOf[t] = "refund" -> Catalog!RefundAllowed(t)

StartSystem(t) ==
  \/ Precheck(t, Eligible(t))
  \/ RegisterTransaction(t)
  \/ CreateSaga(t)
  \/ Dispatch(t)
  \/ Finalize(t)
  \/ \E applied \in BOOLEAN : StartFails(t, applied)

ServiceAnswers(q) ==
  \E key \in OutcomeKeys :
    Answer(q, key) /\ Effect(Head(queues[q]), key)

(* The service dies or loses the broker after its outcome was published.  *)
ServiceAnswersTwice(q) ==
  \E key \in OutcomeKeys :
    AnswerUnacked(q, key) /\ Effect(Head(queues[q]), key)

(***************************************************************************)
(* It commits to its database and dies before the outcome is published.    *)
(* Repeating this changes nothing, so it is not counted as a fault.        *)
(***************************************************************************)
ServiceCommitsOnly(q) ==
  /\ queues[q] # << >>
  /\ "redelivery" \in Faults
  /\ \E key \in OutcomeKeys : Effect(Head(queues[q]), key)
  /\ UNCHANGED vars

(***************************************************************************)
(* The command is rejected after the last attempt; an earlier attempt may  *)
(* have committed, so this follows ServiceCommitsOnly or nothing.          *)
(***************************************************************************)
ServiceGivesUp(q) == GiveUp(q) /\ UNCHANGED serviceVars

OrchestratorStep ==
  /\ \/ \E t \in Txn : StartSystem(t)
     \/ ConsumerNext
     \/ PollerNext
     \/ Crash
  /\ UNCHANGED serviceVars

ServiceStep ==
  \E q \in CommandQueues :
    \/ ServiceAnswers(q)
    \/ ServiceAnswersTwice(q)
    \/ ServiceCommitsOnly(q)
    \/ ServiceGivesUp(q)

SystemNext == OrchestratorStep \/ ServiceStep

SystemSpec == SystemInit /\ [][SystemNext]_systemVars

FairSystemSpec ==
  /\ SystemSpec
  /\ WF_systemVars(ConsumerProgress /\ UNCHANGED serviceVars)
  /\ WF_systemVars(PollerProgress /\ UNCHANGED serviceVars)
  /\ \A q \in CommandQueues : WF_systemVars(ServiceAnswers(q))

------------------------------------------------------------------------------
(* Properties.                                                            *)

Moved(t, step) == Wallet!Exists(t, step)

(* A completed purchase was paid for and granted and not paid back.       *)
CompletedPurchaseIsTrue ==
  \A t \in Txn :
    TypeOf[t] = "purchase" /\ ledger[t].status = "completed" =>
      /\ Moved(t, "purchase_debit")
      /\ access[t] # "none"
      /\ ~ Moved(t, "purchase_compensation")

(* A compensated one was paid for and paid back.                          *)
CompensatedPurchaseIsTrue ==
  \A t \in Txn :
    TypeOf[t] = "purchase" /\ ledger[t].status = "compensated" =>
      /\ Moved(t, "purchase_debit")
      /\ Moved(t, "purchase_compensation")

(***************************************************************************)
(* A purchase that the ledger reports as failed took no money: the debit   *)
(* command, however often it is delivered, keeps its first answer.         *)
(***************************************************************************)
FailedPurchaseKeepsMoney ==
  \A t \in Txn :
    TypeOf[t] = "purchase" /\ ledger[t].status = "failed" =>
      ~ Moved(t, "purchase_debit")

(* A purchase that failed or was compensated gives no access.             *)
EndedPurchaseGivesNoAccess ==
  \A t \in Txn :
    /\ TypeOf[t] = "purchase"
    /\ ledger[t].status \in { "failed", "compensated" }
    => access[t] = "none"

(***************************************************************************)
(* What the ledger says of a purchase is what happened to the money and to *)
(* the access.                                                             *)
(***************************************************************************)
PurchaseVerdictIsTrue ==
  /\ CompletedPurchaseIsTrue
  /\ CompensatedPurchaseIsTrue
  /\ FailedPurchaseKeepsMoney
  /\ EndedPurchaseGivesNoAccess

(* A completed deposit or refund was credited, a failed one was not.      *)
CreditVerdictIsTrue ==
  \A t \in Txn :
    LET step == IF TypeOf[t] = "deposit" THEN "deposit_credit"
                                         ELSE "refund_credit"
    IN TypeOf[t] # "purchase" =>
         /\ ledger[t].status = "completed" => Moved(t, step)
         /\ ledger[t].status = "failed" => ~ Moved(t, step)

(* A purchase whose price was handed back by compensation has no access.  *)
CompensationGivesNoAccess ==
  \A t \in Txn :
    TypeOf[t] = "purchase" /\ Moved(t, "purchase_compensation") =>
      access[t] = "none"

(* A purchase whose price was handed back by a refund has none any more.  *)
RefundEndsAccess ==
  \A t \in Txn :
    TypeOf[t] = "refund" /\ Moved(t, "refund_credit") =>
      access[OriginalOf[t]] = "revoked"

(* Money and access are never both the user's.                            *)
PaidBackGivesNoAccess == CompensationGivesNoAccess /\ RefundEndsAccess

(* A purchase is refunded at most once.                                   *)
RefundedOnce ==
  \A t, u \in Txn :
    /\ { TypeOf[t], TypeOf[u] } = { "refund" }
    /\ OriginalOf[t] = OriginalOf[u]
    /\ Moved(t, "refund_credit")
    /\ Moved(u, "refund_credit")
    => t = u

(* The amount by which a settled transaction changes its user's balance.  *)
Delta(t) ==
  IF ledger[t].status # "completed" THEN 0
  ELSE IF TypeOf[t] = "purchase" THEN - AmountOf[t] ELSE AmountOf[t]

Idle == \A q \in Queues : queues[q] = << >>

AllSettled ==
  /\ Idle
  /\ \A t \in Txn : saga[t].status \in TerminalStatuses \cup { "absent" }

(***************************************************************************)
(* When all is settled the wallets hold what the ledger says: the opening  *)
(* balance, plus completed deposits and refunds, less completed purchases. *)
(***************************************************************************)
BalanceMatchesLedger ==
  AllSettled =>
    \A u \in DOMAIN Opening :
      balance[u] =
        Opening[u] + MapThenSumSet(Delta, { t \in Txn : UserOf[t] = u })
===============================================================================
