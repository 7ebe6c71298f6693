------------------------------ MODULE Workflows ------------------------------
(***************************************************************************)
(* The saga state machine and what the orchestrator does with each outcome *)
(* event: internal/services/saga/domain, saga/workflows and the handlers   *)
(* of saga/usecases/handleoutcome.                                         *)
(*                                                                         *)
(* A handler reads the saga row once, decides, and then makes calls that   *)
(* other processes can interleave with: a PATCH to the payments service, a *)
(* publish, an update of the saga row.  It is written here as the sequence *)
(* of those calls, a function of the row it read; the sequence is empty    *)
(* when the handler ignores the event and lets it be acknowledged.         *)
(***************************************************************************)
EXTENDS Messaging

SagaTypes == { "deposit", "purchase", "refund" }

SagaStatuses ==
  { "created", "running", "timed_out", "compensating", "completed", "failed",
    "reconciliation_required" }

TerminalStatuses == { "completed", "failed", "reconciliation_required" }

SagaOutcomes == { "none", "succeeded", "failed", "compensated" }

SagaSteps ==
  { "deposit_charge", "deposit_credit", "deposit_completed",
    "deposit_charge_failed", "purchase_debit", "purchase_grant",
    "purchase_completed", "purchase_debit_rejected",
    "purchase_compensation_credit", "purchase_compensation_credited",
    "refund_revoke_access", "refund_credit", "refund_completed",
    "refund_revoke_rejected" }

(* Mutant: a timed-out saga accepts no late outcome.                      *)
LegalUntilTimeout(from, to) ==
  \/ from = "running" /\ to # "running"
  \/ from = "compensating" /\ to \in TerminalStatuses

(* Mutant: any change is legal.                                           *)
LegalAnytime(from, to) == from # to

(* Mutant: the timeout is missing from the table.                         *)
LegalByOutcome(from, to) ==
  /\ from \in { "running", "compensating" }
  /\ to \in (TerminalStatuses \cup { "compensating" }) \ { from }

(* No row is ever written with the status "created".                      *)
LegalSagaTransition(from, to) ==
  \/ from = "created" /\ to = "running"
  \/ /\ from = "running"
     /\ to \in { "completed", "failed", "timed_out", "compensating",
                 "reconciliation_required" }
  \/ /\ from = "timed_out"
     /\ to \in { "completed", "failed", "compensating",
                 "reconciliation_required" }
  \/ /\ from = "compensating"
     /\ to \in { "completed", "failed", "reconciliation_required" }

(* The step a saga is created at, and the command its start publishes.    *)
FirstStep(type) ==
  CASE type = "deposit" -> "deposit_charge"
    [] type = "purchase" -> "purchase_debit"
    [] type = "refund" -> "refund_revoke_access"

FirstCommand(type, t) ==
  CASE type = "deposit" -> Message("payments.deposit.requested", t, NoStep)
    [] type = "purchase" ->
         Message("wallet.debit.requested", t, "purchase_debit")
    [] type = "refund" -> Message("access.revoke.requested", t, NoStep)

------------------------------------------------------------------------------
(* The calls a handler makes, all records with the same fields.           *)

Call(op, status, detail, step) ==
  [op |-> op, status |-> status, detail |-> detail, step |-> step]

(* PATCH the ledger; detail is the reason, step the provider reference.   *)
PatchLedger(status, reason, ref) == Call("patch", status, reason, ref)

(* Publish a command for the saga's own transaction.                      *)
PublishCommand(key, step) == Call("publish", key, "none", step)

(* UpdateSagaStatus: validated against the row as it is then.             *)
SetStatus(status, outcome, step) == Call("status", status, outcome, step)

(* UpdateSagaStep: unconditional.                                         *)
SetStep(step) == Call("step", "none", "none", step)

Ignore == << >>

(* Every handler's first checks: the saga is not over and is at the step  *)
(* the event answers.                                                     *)
Expects(seen, step) ==
  /\ seen.status \notin TerminalStatuses
  /\ seen.step = step

------------------------------------------------------------------------------
(* Purchase.                                                              *)

(* Mutant: the saga moves on before the grant is published.               *)
StepThenPublishGrant(seen) ==
  IF Expects(seen, "purchase_debit") /\ seen.status # "compensating"
  THEN << SetStep("purchase_grant"),
          PublishCommand("access.grant.requested", NoStep) >>
  ELSE Ignore

PublishAccessGrant(seen) ==
  IF Expects(seen, "purchase_debit") /\ seen.status # "compensating"
  THEN << PublishCommand("access.grant.requested", NoStep),
          SetStep("purchase_grant") >>
  ELSE Ignore

FailPurchaseDebit(seen) ==
  IF Expects(seen, "purchase_debit")
  THEN << PatchLedger("failed", "rejected", "none"),
          SetStatus("failed", "failed", "purchase_debit_rejected") >>
  ELSE Ignore

(* Mutant: the saga is completed before the ledger.                       *)
CompleteSagaFirst(seen) ==
  IF Expects(seen, "purchase_grant")
  THEN << SetStatus("completed", "succeeded", "purchase_completed"),
          PatchLedger("completed", "none", "none") >>
  ELSE Ignore

CompletePurchase(seen) ==
  IF Expects(seen, "purchase_grant")
  THEN << PatchLedger("completed", "none", "none"),
          SetStatus("completed", "succeeded", "purchase_completed") >>
  ELSE Ignore

(* Mutant: the credit is published before the saga says so.               *)
CompensateThenRecord(seen) ==
  IF Expects(seen, "purchase_grant") /\ seen.status # "compensating"
  THEN << PublishCommand("wallet.credit.requested", "purchase_compensation"),
          SetStatus("compensating", "none", "purchase_compensation_credit") >>
  ELSE Ignore

(* The only handler that writes the saga before it publishes.             *)
StartPurchaseCompensation(seen) ==
  IF Expects(seen, "purchase_grant") /\ seen.status # "compensating"
  THEN << SetStatus("compensating", "none", "purchase_compensation_credit"),
          PublishCommand("wallet.credit.requested", "purchase_compensation") >>
  ELSE Ignore

CompletePurchaseCompensation(seen) ==
  IF /\ Expects(seen, "purchase_compensation_credit")
     /\ seen.status = "compensating"
  THEN << PatchLedger("compensated", "owned", "none"),
          SetStatus("completed", "compensated",
                    "purchase_compensation_credited") >>
  ELSE Ignore

------------------------------------------------------------------------------
(* Refund.                                                                *)

(* Mutant: the credit is requested under the deposit's name.              *)
PublishDepositCredit(seen) ==
  IF Expects(seen, "refund_revoke_access")
  THEN << PublishCommand("wallet.credit.requested", "deposit_credit"),
          SetStep("refund_credit") >>
  ELSE Ignore

PublishRefundCredit(seen) ==
  IF Expects(seen, "refund_revoke_access")
  THEN << PublishCommand("wallet.credit.requested", "refund_credit"),
          SetStep("refund_credit") >>
  ELSE Ignore

FailRefundRevoke(seen) ==
  IF Expects(seen, "refund_revoke_access")
  THEN << PatchLedger("failed", "rejected", "none"),
          SetStatus("failed", "failed", "refund_revoke_rejected") >>
  ELSE Ignore

CompleteRefund(seen) ==
  IF Expects(seen, "refund_credit") /\ seen.status = "running"
  THEN << PatchLedger("completed", "none", "none"),
          SetStatus("completed", "succeeded", "refund_completed") >>
  ELSE Ignore

------------------------------------------------------------------------------
(* Deposit.                                                               *)

(* Mutant: the deposit is completed when the provider has charged.        *)
CompleteOnCharge(seen) ==
  IF Expects(seen, "deposit_charge")
  THEN << PatchLedger("completed", "none", "sim"),
          PublishCommand("wallet.credit.requested", "deposit_credit"),
          SetStep("deposit_credit") >>
  ELSE Ignore

RecordProviderSuccess(seen) ==
  IF Expects(seen, "deposit_charge")
  THEN << PatchLedger(IF seen.status = "timed_out" THEN "timed_out"
                                                   ELSE "pending",
                      "none", "sim"),
          PublishCommand("wallet.credit.requested", "deposit_credit"),
          SetStep("deposit_credit") >>
  ELSE Ignore

FailProviderCharge(seen) ==
  IF Expects(seen, "deposit_charge")
  THEN << PatchLedger("failed", "rejected", "none"),
          SetStatus("failed", "failed", "deposit_charge_failed") >>
  ELSE Ignore

CompleteDeposit(seen) ==
  IF /\ Expects(seen, "deposit_credit")
     /\ seen.status \in { "running", "timed_out" }
  THEN << PatchLedger("completed", "none", "none"),
          SetStatus("completed", "succeeded", "deposit_completed") >>
  ELSE Ignore

------------------------------------------------------------------------------
(* The workflow definitions: the handler of each event, by saga type.  An *)
(* event that the type does not list is ignored.                          *)
HandlerCalls(type, key, seen) ==
  CASE type = "purchase" /\ key = "wallet.debited" -> PublishAccessGrant(seen)
    [] type = "purchase" /\ key = "wallet.debit.rejected" ->
         FailPurchaseDebit(seen)
    [] type = "purchase" /\ key = "access.granted" -> CompletePurchase(seen)
    [] type = "purchase" /\ key = "access.grant.conflicted" ->
         StartPurchaseCompensation(seen)
    [] type = "purchase" /\ key = "wallet.credited" ->
         CompletePurchaseCompensation(seen)
    [] type = "refund" /\ key = "access.revoked" -> PublishRefundCredit(seen)
    [] type = "refund" /\ key = "access.revoke.rejected" ->
         FailRefundRevoke(seen)
    [] type = "refund" /\ key = "wallet.credited" -> CompleteRefund(seen)
    [] type = "deposit" /\ key = "provider.charge.succeeded" ->
         RecordProviderSuccess(seen)
    [] type = "deposit" /\ key = "provider.charge.failed" ->
         FailProviderCharge(seen)
    [] type = "deposit" /\ key = "wallet.credited" -> CompleteDeposit(seen)
    [] OTHER -> Ignore
==============================================================================
