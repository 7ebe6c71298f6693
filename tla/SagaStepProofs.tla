---------------------------- MODULE SagaStepProofs ----------------------------
(***************************************************************************)
(* What a saga's step, the messages on their way and the place of a        *)
(* handler say about each other.                                           *)
(***************************************************************************)
EXTENDS SagaVerdictProofs

(***************************************************************************)
(* The workflow definitions as a table: the n-th call c that the handler   *)
(* of an event makes, by the saga's type and the row that was read.        *)
(***************************************************************************)
CallOf(type, key, seen, n, c) ==
  \/ /\ type = "purchase" /\ key = "wallet.debited"
     /\ seen.step = "purchase_debit" /\ seen.status # "compensating"
     /\ \/ n = 1 /\ c = PublishCommand("access.grant.requested", NoStep)
        \/ n = 2 /\ c = SetStep("purchase_grant")
  \/ /\ type = "purchase" /\ key = "wallet.debit.rejected"
     /\ seen.step = "purchase_debit"
     /\ \/ n = 1 /\ c = PatchLedger("failed", "rejected", "none")
        \/ n = 2 /\ c = SetStatus("failed", "failed", "purchase_debit_rejected")
  \/ /\ type = "purchase" /\ key = "access.granted"
     /\ seen.step = "purchase_grant"
     /\ \/ n = 1 /\ c = PatchLedger("completed", "none", "none")
        \/ n = 2 /\ c = SetStatus("completed", "succeeded", "purchase_completed")
  \/ /\ type = "purchase" /\ key = "access.grant.conflicted"
     /\ seen.step = "purchase_grant" /\ seen.status # "compensating"
     /\ \/ n = 1 /\ c = SetStatus("compensating", "none",
                                  "purchase_compensation_credit")
        \/ n = 2 /\ c = PublishCommand("wallet.credit.requested",
                                       "purchase_compensation")
  \/ /\ type = "purchase" /\ key = "wallet.credited"
     /\ seen.step = "purchase_compensation_credit"
     /\ seen.status = "compensating"
     /\ \/ n = 1 /\ c = PatchLedger("compensated", "owned", "none")
        \/ n = 2 /\ c = SetStatus("completed", "compensated",
                                  "purchase_compensation_credited")
  \/ /\ type = "refund" /\ key = "access.revoked"
     /\ seen.step = "refund_revoke_access"
     /\ \/ n = 1 /\ c = PublishCommand("wallet.credit.requested", "refund_credit")
        \/ n = 2 /\ c = SetStep("refund_credit")
  \/ /\ type = "refund" /\ key = "access.revoke.rejected"
     /\ seen.step = "refund_revoke_access"
     /\ \/ n = 1 /\ c = PatchLedger("failed", "rejected", "none")
        \/ n = 2 /\ c = SetStatus("failed", "failed", "refund_revoke_rejected")
  \/ /\ type = "refund" /\ key = "wallet.credited"
     /\ seen.step = "refund_credit" /\ seen.status = "running"
     /\ \/ n = 1 /\ c = PatchLedger("completed", "none", "none")
        \/ n = 2 /\ c = SetStatus("completed", "succeeded", "refund_completed")
  \/ /\ type = "deposit" /\ key = "provider.charge.succeeded"
     /\ seen.step = "deposit_charge"
     /\ \/ n = 1 /\ c = PatchLedger(IF seen.status = "timed_out"
                                    THEN "timed_out" ELSE "pending",
                                    "none", "sim")
        \/ n = 2 /\ c = PublishCommand("wallet.credit.requested", "deposit_credit")
        \/ n = 3 /\ c = SetStep("deposit_credit")
  \/ /\ type = "deposit" /\ key = "provider.charge.failed"
     /\ seen.step = "deposit_charge"
     /\ \/ n = 1 /\ c = PatchLedger("failed", "rejected", "none")
        \/ n = 2 /\ c = SetStatus("failed", "failed", "deposit_charge_failed")
  \/ /\ type = "deposit" /\ key = "wallet.credited"
     /\ seen.step = "deposit_credit"
     /\ seen.status \in { "running", "timed_out" }
     /\ \/ n = 1 /\ c = PatchLedger("completed", "none", "none")
        \/ n = 2 /\ c = SetStatus("completed", "succeeded", "deposit_completed")

(* The table is the workflows.                                            *)
LEMMA HandlerTable ==
  ASSUME NEW type \in SagaTypes, NEW key, NEW seen,
         NEW n \in 1..Len(HandlerCalls(type, key, seen))
  PROVE  /\ CallOf(type, key, seen, n, HandlerCalls(type, key, seen)[n])
         /\ Len(HandlerCalls(type, key, seen)) =
              IF key = "provider.charge.succeeded" THEN 3 ELSE 2
<1> DEFINE calls == HandlerCalls(type, key, seen)
<1>1. calls = << >> => FALSE
  OBVIOUS
<1>n. /\ \A m \in 1..2 : m = 1 \/ m = 2
      /\ \A m \in 1..3 : m = 1 \/ m = 2 \/ m = 3
  OBVIOUS
<1> USE DEF Ignore, Expects, NoStep
<1>2. CASE type = "purchase"
  <2>1. CASE key = "wallet.debited"
    BY <1>1, <1>n, <1>2, <2>1 DEF HandlerCalls, PublishAccessGrant, CallOf
  <2>2. CASE key = "wallet.debit.rejected"
    BY <1>1, <1>n, <1>2, <2>2 DEF HandlerCalls, FailPurchaseDebit, CallOf
  <2>3. CASE key = "access.granted"
    BY <1>1, <1>n, <1>2, <2>3 DEF HandlerCalls, CompletePurchase, CallOf
  <2>4. CASE key = "access.grant.conflicted"
    BY <1>1, <1>n, <1>2, <2>4 DEF HandlerCalls, StartPurchaseCompensation, CallOf
  <2>5. CASE key = "wallet.credited"
    BY <1>1, <1>n, <1>2, <2>5
    DEF HandlerCalls, CompletePurchaseCompensation, CallOf
  <2> QED BY <1>1, <1>2, <2>1, <2>2, <2>3, <2>4, <2>5 DEF HandlerCalls
<1>3. CASE type = "refund"
  <2>1. CASE key = "access.revoked"
    BY <1>1, <1>n, <1>3, <2>1 DEF HandlerCalls, PublishRefundCredit, CallOf
  <2>2. CASE key = "access.revoke.rejected"
    BY <1>1, <1>n, <1>3, <2>2 DEF HandlerCalls, FailRefundRevoke, CallOf
  <2>3. CASE key = "wallet.credited"
    BY <1>1, <1>n, <1>3, <2>3 DEF HandlerCalls, CompleteRefund, CallOf
  <2> QED BY <1>1, <1>3, <2>1, <2>2, <2>3 DEF HandlerCalls
<1>4. CASE type = "deposit"
  <2>1. CASE key = "provider.charge.succeeded"
    BY <1>1, <1>n, <1>4, <2>1 DEF HandlerCalls, RecordProviderSuccess, CallOf
  <2>2. CASE key = "provider.charge.failed"
    BY <1>1, <1>n, <1>4, <2>2 DEF HandlerCalls, FailProviderCharge, CallOf
  <2>3. CASE key = "wallet.credited"
    BY <1>1, <1>n, <1>4, <2>3 DEF HandlerCalls, CompleteDeposit, CallOf
  <2> QED BY <1>1, <1>4, <2>1, <2>2, <2>3 DEF HandlerCalls
<1> QED BY <1>2, <1>3, <1>4 DEF SagaTypes

(* The call the handler is about to make, looked up in the table.         *)
LEMMA CurrentCall ==
  ASSUME OrchestratorAssumption, TypeOK, Handling,
         delivery.at \in 1..Len(Calls)
  PROVE  /\ Current.txn \in Txn
         /\ TypeOf[Current.txn] \in SagaTypes
         /\ CallOf(TypeOf[Current.txn], Current.key, delivery.seen, delivery.at,
                   NextCall)
         /\ Len(Calls) =
              IF Current.key = "provider.charge.succeeded" THEN 3 ELSE 2
         /\ NextCall.op \in { "patch", "publish", "status", "step" }
<1>1. Current.txn \in Txn
  BY CallIsTyped
<1>2. TypeOf[Current.txn] \in SagaTypes
  BY <1>1 DEF OrchestratorAssumption
<1>3. /\ CallOf(TypeOf[Current.txn], Current.key, delivery.seen, delivery.at,
                NextCall)
      /\ Len(Calls) = IF Current.key = "provider.charge.succeeded" THEN 3 ELSE 2
  BY <1>2, HandlerTable DEF Calls, NextCall
<1>4. NextCall.op \in { "patch", "publish", "status", "step" }
  BY <1>3 DEF CallOf, PatchLedger, PublishCommand, SetStatus, SetStep, Call
<1> QED BY <1>1, <1>2, <1>3, <1>4

------------------------------------------------------------------------------
(* The frame: how one row, the delivery, a queue can change in a step.    *)

(* The ways a step can write to the saga row of a transaction.            *)
SagaCreated(t) ==
  /\ saga[t].status = "absent"
  /\ start[t] = "create"
  /\ saga'[t] = [status |-> "running", outcome |-> "none",
                 step |-> FirstStep(TypeOf[t])]

SagaTimedOut(t) ==
  /\ saga[t].status = "running"
  /\ \E e \in poller.mark :
       /\ e.txn = t
       /\ saga'[t] = [status |-> "timed_out", outcome |-> "none",
                      step |-> e.step]

SagaRestatused(t) ==
  /\ About("status")
  /\ Current.txn = t
  /\ LegalSagaTransition(saga[t].status, NextCall.status)
  /\ saga'[t] = [status |-> NextCall.status, outcome |-> NextCall.detail,
                 step |-> NextCall.step]

SagaStepped(t) ==
  /\ About("step")
  /\ Current.txn = t
  /\ saga'[t] = [saga[t] EXCEPT !.step = NextCall.step]

(* And to its ledger row.                                                 *)
LedgerRegistered(t) ==
  /\ ledger[t].status = "absent"
  /\ start[t] = "register"
  /\ ledger'[t] = [ledger[t] EXCEPT !.status = "pending"]

LedgerTimedOut(t) ==
  /\ \E e \in poller.todo : e.txn = t
  /\ AcceptsStatus(ledger[t], "timed_out")
  /\ ledger'[t] = WithStatus(ledger[t], "timed_out", "expired", "none")

LedgerPatched(t) ==
  /\ About("patch")
  /\ Current.txn = t
  /\ AcceptsStatus(ledger[t], NextCall.status)
  /\ ledger'[t] = WithStatus(ledger[t], NextCall.status, NextCall.detail,
                             NextCall.step)

(* The saga row of a transaction as the other threads write it: created,   *)
(* or marked timed out by a poller that has an entry for it.              *)
LEMMA OthersSagaRow ==
  ASSUME OrchestratorAssumption, TypeOK, OtherThreads, NEW t \in Txn
  PROVE  \/ saga'[t] = saga[t]
         \/ SagaCreated(t)
         \/ SagaTimedOut(t)
<1>t. saga \in [Txn -> SagaRows]
  BY DEF TypeOK
<1>1. CASE StartNext
  <2>1. PICK u \in Txn :
          \/ saga' = saga
          \/ /\ start[u] = "create"
             /\ saga' = [saga EXCEPT ![u] = Created(@, u)]
    BY <1>1 DEF StartNext, Precheck, RegisterTransaction, CreateSaga, Dispatch,
                Finalize, StartFails
  <2> QED BY <1>t, <2>1 DEF Created, SagaCreated
<1>2. CASE PollerNext
  <2>1. CASE saga' = saga
    BY <2>1
  <2>2. ASSUME NEW e \in PollEntries, MarkTimedOut(e)
        PROVE  saga'[t] = saga[t] \/ SagaTimedOut(t)
    BY <1>t, <2>2 DEF MarkTimedOut, Restatused, SetStatus, Call,
                      LegalSagaTransition, SagaTimedOut
  <2> QED BY <1>2, <2>1, <2>2
          DEF PollerNext, Expire, ListTimedOut, PatchTimedOut, PollerCallFails
<1>3. CASE ParticipantNext \/ UNCHANGED vars
  BY <1>3 DEF ParticipantNext, Answer, AnswerUnacked, GiveUp, vars
<1> QED BY <1>1, <1>2, <1>3 DEF OtherThreads

(* Or it is written by the handler of an outcome about it.                *)
LEMMA SagaRowStep ==
  ASSUME OrchestratorAssumption, TypeOK, [Next]_vars, NEW t \in Txn
  PROVE  \/ saga'[t] = saga[t]
         \/ SagaCreated(t)
         \/ SagaTimedOut(t)
         \/ SagaRestatused(t)
         \/ SagaStepped(t)
<1>t. saga \in [Txn -> SagaRows]
  BY DEF TypeOK
<1>3. ASSUME About("status"), saga' = [saga EXCEPT ![Current.txn] =
                                         Restatused(@, NextCall)]
      PROVE  saga'[t] = saga[t] \/ SagaRestatused(t)
  BY <1>t, <1>3 DEF Restatused, SagaRestatused
<1>4. ASSUME About("step"), saga' = [saga EXCEPT ![Current.txn].step =
                                       NextCall.step]
      PROVE  saga'[t] = saga[t] \/ SagaStepped(t)
  BY <1>t, <1>4 DEF SagaStepped
<1>5. CASE ConsumerNext
  <2>1. \/ saga' = saga
        \/ About("status") /\ saga' = [saga EXCEPT ![Current.txn] =
                                          Restatused(@, NextCall)]
        \/ About("step") /\ saga' = [saga EXCEPT ![Current.txn].step =
                                        NextCall.step]
    <3>1. CASE \E applied \in BOOLEAN : CallFails(applied)
      BY <3>1 DEF CallFails, About, NextCall
    <3>2. CASE ~ \E applied \in BOOLEAN : CallFails(applied)
      BY <1>5, <3>2 DEF ConsumerNext, ReadSaga, PatchTransaction, PublishNext,
                  UpdateSagaStatus, UpdateSagaStep, AckOutcome, PatchRefused,
                  LookupFails
    <3> QED BY <3>1, <3>2
  <2> QED BY <1>3, <1>4, <2>1
<1>6. CASE Crash
  BY <1>6 DEF Crash
<1> QED BY <1>5, <1>6, OthersSagaRow DEF Next, OtherThreads

(* The ledger row of a transaction as the other threads write it:         *)
(* registered, or timed out by a poller that has an entry for it.         *)
LEMMA OthersLedgerRow ==
  ASSUME OrchestratorAssumption, TypeOK, OtherThreads, NEW t \in Txn
  PROVE  \/ ledger'[t] = ledger[t]
         \/ LedgerRegistered(t)
         \/ LedgerTimedOut(t)
<1>t. ledger \in [Txn -> LedgerRows]
  BY DEF TypeOK
<1>1. CASE StartNext
  <2>1. PICK u \in Txn :
          \/ ledger' = ledger
          \/ /\ start[u] = "register"
             /\ ledger' = [ledger EXCEPT ![u] = Registered(@)]
    BY <1>1 DEF StartNext, Precheck, RegisterTransaction, CreateSaga, Dispatch,
                Finalize, StartFails
  <2> QED BY <1>t, <2>1 DEF Registered, LedgerRegistered
<1>2. CASE PollerNext
  <2>1. \/ ledger' = ledger
        \/ \E e \in poller.todo :
             ledger' = [ledger EXCEPT ![e.txn] = Patched(@, TimeoutCall)]
    BY <1>2 DEF PollerNext, Expire, ListTimedOut, PatchTimedOut, MarkTimedOut,
                PollerCallFails
  <2> QED BY <1>t, <2>1 DEF Patched, TimeoutCall, PatchLedger, Call, LedgerTimedOut
<1>3. CASE ParticipantNext \/ UNCHANGED vars
  BY <1>3 DEF ParticipantNext, Answer, AnswerUnacked, GiveUp, vars
<1> QED BY <1>1, <1>2, <1>3 DEF OtherThreads

(* Or it is patched by the handler of an outcome about it.                *)
LEMMA LedgerRowStep ==
  ASSUME OrchestratorAssumption, TypeOK, [Next]_vars, NEW t \in Txn
  PROVE  \/ ledger'[t] = ledger[t]
         \/ LedgerRegistered(t)
         \/ LedgerTimedOut(t)
         \/ LedgerPatched(t)
<1>t. ledger \in [Txn -> LedgerRows]
  BY DEF TypeOK
<1>3. ASSUME About("patch"), ledger' = [ledger EXCEPT ![Current.txn] =
                                          Patched(@, NextCall)]
      PROVE  ledger'[t] = ledger[t] \/ LedgerPatched(t)
  BY <1>t, <1>3 DEF Patched, LedgerPatched
<1>5. CASE ConsumerNext
  <2>1. \/ ledger' = ledger
        \/ About("patch") /\ ledger' = [ledger EXCEPT ![Current.txn] =
                                           Patched(@, NextCall)]
    <3>1. CASE \E applied \in BOOLEAN : CallFails(applied)
      BY <3>1 DEF CallFails, About, NextCall
    <3>2. CASE ~ \E applied \in BOOLEAN : CallFails(applied)
      BY <1>5, <3>2 DEF ConsumerNext, ReadSaga, PatchTransaction, PublishNext,
                  UpdateSagaStatus, UpdateSagaStep, AckOutcome, PatchRefused,
                  LookupFails
    <3> QED BY <3>1, <3>2
  <2> QED BY <1>3, <2>1
<1>6. CASE Crash
  BY <1>6 DEF Crash
<1> QED BY <1>5, <1>6, OthersLedgerRow DEF Next, OtherThreads

(* The outcome being handled stays where it is.                           *)
Keeps ==
  /\ queues'[OutcomesQueue] # << >>
  /\ Current' = Current

(* Why a consumer loses its place: a fault, a refusal, or the work is done.*)
Ends ==
  /\ delivery'.at = 0
  /\ \/ faults' = faults + 1
     \/ /\ About("patch")
        /\ ~ AcceptsStatus(ledger[Current.txn], NextCall.status)
        /\ UNCHANGED << saga, ledger >>
     \/ /\ Handling
        /\ delivery.at = Len(Calls) + 1
        /\ UNCHANGED << saga, ledger >>

(* It keeps its place while others act.                                   *)
Stands ==
  /\ OtherThreads
  /\ delivery' = delivery
  /\ queues[OutcomesQueue] # << >> => Keeps

(* It reads the saga row.                                                 *)
Reads ==
  /\ Keeps
  /\ queues[OutcomesQueue] # << >>
  /\ delivery.at = 0
  /\ delivery'.at = 1
  /\ delivery'.seen = saga[Current.txn]
  /\ UNCHANGED << saga, ledger >>

(* It makes its next call and goes on to the one after it.                *)
Advances(op) ==
  /\ Keeps
  /\ About(op)
  /\ delivery'.at = delivery.at + 1
  /\ delivery'.seen = delivery.seen

Patches ==
  /\ Advances("patch")
  /\ AcceptsStatus(ledger[Current.txn], NextCall.status)
  /\ ledger' = [ledger EXCEPT ![Current.txn] =
                  WithStatus(@, NextCall.status, NextCall.detail,
                             NextCall.step)]
  /\ UNCHANGED saga

Publishes ==
  /\ Advances("publish")
  /\ UNCHANGED << saga, ledger >>

Restatuses ==
  /\ Advances("status")
  /\ LegalSagaTransition(saga[Current.txn].status, NextCall.status)
  /\ saga' = [saga EXCEPT ![Current.txn] =
                [status |-> NextCall.status, outcome |-> NextCall.detail,
                 step |-> NextCall.step]]
  /\ UNCHANGED ledger

Steps ==
  /\ Advances("step")
  /\ saga' = [saga EXCEPT ![Current.txn].step = NextCall.step]
  /\ UNCHANGED ledger

(* A status that is no longer legal ends the handler.                     *)
Stops ==
  /\ Keeps
  /\ About("status")
  /\ ~ LegalSagaTransition(saga[Current.txn].status, NextCall.status)
  /\ delivery'.at = Len(Calls) + 1
  /\ delivery'.seen = delivery.seen
  /\ UNCHANGED << saga, ledger >>

(* A step of the system is one of these for the consumer.                 *)
LEMMA DeliveryStep ==
  ASSUME OrchestratorAssumption, IInv, [Next]_vars
  PROVE  \/ Ends
         \/ Stands
         \/ Reads
         \/ Patches
         \/ Publishes
         \/ Restatuses
         \/ Steps
         \/ Stops
<1>t. /\ TypeOK
      /\ queues \in QueueStates
      /\ OutcomesQueue \in Queues
      /\ saga \in [Txn -> SagaRows]
      /\ ledger \in [Txn -> LedgerRows]
      /\ delivery \in [attempt : 0..MaxRetries, at : 0..4, seen : SagaRows]
  BY DEF IInv, TypeOK, QueueStates, Queues, OutcomesQueue
<1>a. ASSUME Advance
      PROVE  /\ delivery'.at = delivery.at + 1
             /\ delivery'.seen = delivery.seen
  BY <1>a, <1>t DEF Advance
<1>k. ASSUME queues' = queues, queues[OutcomesQueue] # << >>
      PROVE  Keeps
  BY <1>k DEF Keeps, Current
<1>1. CASE OtherThreads
  BY <1>t, <1>1, DeliveryUndisturbed DEF Keeps, Stands
<1>2. CASE Crash
  BY <1>2 DEF Crash, Fault, Waiting, Ends
<1>3. CASE ReadSaga
  <2>1. /\ delivery.at = 0
        /\ queues[OutcomesQueue] # << >>
        /\ delivery'.at = 1
        /\ delivery'.seen = saga[Current.txn]
        /\ UNCHANGED << saga, ledger >>
        /\ queues' = queues
    BY <1>3, <1>t DEF ReadSaga
  <2> QED BY <1>k, <2>1 DEF Reads
<1>4. CASE PatchTransaction
  <2>1. /\ About("patch")
        /\ AcceptsStatus(ledger[Current.txn], NextCall.status)
        /\ ledger' = [ledger EXCEPT ![Current.txn] = Patched(@, NextCall)]
        /\ UNCHANGED << saga, queues >>
        /\ Advance
    BY <1>4 DEF PatchTransaction
  <2>2. Keeps
    BY <1>k, <2>1 DEF About, Handling
  <2>3. ledger' = [ledger EXCEPT ![Current.txn] =
                     WithStatus(@, NextCall.status, NextCall.detail,
                                NextCall.step)]
    BY <2>1 DEF Patched
  <2> QED BY <1>a, <2>1, <2>2, <2>3 DEF Patches, Advances
<1>5. CASE PublishNext
  <2> DEFINE msg == Message(NextCall.status, Current.txn, NextCall.step)
  <2>1. /\ About("publish")
        /\ queues' = Publish(queues, msg)
        /\ UNCHANGED << saga, ledger >>
        /\ Advance
    BY <1>5 DEF PublishNext
  <2>2. msg \in Messages
    BY <1>t, <2>1, CallIsTyped, CallKinds DEF Message, Messages, About, NextCall
  <2>3. Keeps
    <3> HIDE DEF msg
    <3> QED BY <1>t, <2>1, <2>2, PublishedQueues
            DEF Keeps, Current, About, Handling
  <2> QED BY <1>a, <2>1, <2>3 DEF Publishes, Advances
<1>6. CASE UpdateSagaStep
  <2>1. /\ About("step")
        /\ saga' = [saga EXCEPT ![Current.txn].step = NextCall.step]
        /\ UNCHANGED << ledger, queues >>
        /\ Advance
    BY <1>6 DEF UpdateSagaStep
  <2>2. Keeps
    BY <1>k, <2>1 DEF About, Handling
  <2> QED BY <1>a, <2>1, <2>2 DEF Steps, Advances
<1>7. CASE UpdateSagaStatus
  <2>1. /\ About("status")
        /\ saga' = [saga EXCEPT ![Current.txn] = Restatused(@, NextCall)]
        /\ UNCHANGED << ledger, queues >>
    BY <1>7 DEF UpdateSagaStatus
  <2>2. /\ Keeps
        /\ Current.txn \in Txn
    BY <1>k, <1>t, <2>1, CurrentCall DEF About, Handling
  <2>3. CASE LegalSagaTransition(saga[Current.txn].status, NextCall.status)
    BY <1>7, <1>a, <2>1, <2>2, <2>3
    DEF UpdateSagaStatus, Restatused, Restatuses, Advances
  <2>4. CASE ~ LegalSagaTransition(saga[Current.txn].status, NextCall.status)
    <3>1. saga' = saga
      BY <1>t, <2>1, <2>2, <2>4 DEF Restatused
    <3>2. /\ delivery'.at = Len(Calls) + 1
          /\ delivery'.seen = delivery.seen
      BY <1>t, <1>7, <2>4 DEF UpdateSagaStatus
    <3> QED BY <2>1, <2>2, <2>4, <3>1, <3>2 DEF Stops
  <2> QED BY <2>3, <2>4
<1>8. CASE AckOutcome
  BY <1>8 DEF AckOutcome, Waiting, Ends
<1>9. CASE PatchRefused \/ LookupFails \/ \E applied \in BOOLEAN : CallFails(applied)
  BY <1>9 DEF PatchRefused, LookupFails, CallFails, Fault, RetryOrReject, Waiting,
              Ends
<1> QED BY <1>1, <1>2, <1>3, <1>4, <1>5, <1>6, <1>7, <1>8, <1>9
        DEF Next, OtherThreads, ConsumerNext

(* The poller's entries: those it had, or copies of rows that are expired. *)
LEMMA PollerStep ==
  ASSUME OrchestratorAssumption, TypeOK, [Next]_vars,
         NEW e \in poller'.todo \cup poller'.mark
  PROVE  \/ e \in poller.todo \cup poller.mark
         \/ e.txn \in expired /\ e.step = saga[e.txn].step
<1>t. /\ expired \subseteq Txn
      /\ poller \in [todo : SUBSET PollEntries, mark : SUBSET PollEntries]
  BY DEF TypeOK
<1>1. CASE PollerNext
  BY <1>t, <1>1
  DEF PollerNext, Expire, ListTimedOut, PatchTimedOut, MarkTimedOut,
      PollerCallFails, IdlePoller
<1>2. CASE Crash
  BY <1>2 DEF Crash, IdlePoller
<1>3. CASE poller' = poller
  BY <1>3
<1>4. StartNext \/ ConsumerNext \/ ParticipantNext \/ UNCHANGED vars =>
        poller' = poller
  BY DEF StartNext, Precheck, RegisterTransaction, CreateSaga, Dispatch,
         Finalize, StartFails, ConsumerNext, ReadSaga, PatchTransaction,
         PublishNext, UpdateSagaStatus, UpdateSagaStep, AckOutcome,
         PatchRefused, LookupFails, CallFails, ParticipantNext, Answer,
         AnswerUnacked, GiveUp, vars
<1> QED BY <1>1, <1>2, <1>3, <1>4 DEF Next

(* Nothing that is past its timeout comes back within it.                 *)
LEMMA ExpiredGrows ==
  ASSUME [Next]_vars
  PROVE  expired \subseteq expired'
BY DEF Next, StartNext, Precheck, RegisterTransaction, CreateSaga, Dispatch,
       Finalize, StartFails, ConsumerNext, ReadSaga, PatchTransaction,
       PublishNext, UpdateSagaStatus, UpdateSagaStep, AckOutcome,
       PatchRefused, LookupFails, CallFails, PollerNext, Expire, ListTimedOut,
       PatchTimedOut, MarkTimedOut, PollerCallFails, Crash, ParticipantNext,
       Answer, AnswerUnacked, GiveUp, vars

(* Faults are only added.                                                 *)
LEMMA FaultsGrow ==
  ASSUME [Next]_vars
  PROVE  faults' = faults \/ faults' = faults + 1
BY DEF Next, StartNext, Precheck, RegisterTransaction, CreateSaga, Dispatch,
       Finalize, StartFails, ConsumerNext, ReadSaga, PatchTransaction,
       PublishNext, UpdateSagaStatus, UpdateSagaStep, AckOutcome,
       PatchRefused, LookupFails, CallFails, PollerNext, Expire,
       ListTimedOut, PatchTimedOut, MarkTimedOut, PollerCallFails, Crash,
       ParticipantNext, Answer, AnswerUnacked, GiveUp, vars, Fault

(* What a queue holds.                                                    *)
Held(qs, q) == { qs[q][i] : i \in DOMAIN qs[q] }

(* Publishing adds the message where its key is bound.                    *)
LEMMA PublishedHeld ==
  ASSUME NEW qs \in QueueStates, NEW msg \in Messages, NEW q \in Queues,
         NEW m \in Held(Publish(qs, msg), q)
  PROVE  \/ m \in Held(qs, q)
         \/ m = msg /\ msg.key \in RoutingKeys(q)
<1>1. qs[q] \in Seq(Messages)
  BY DEF QueueStates
<1>2. CASE msg.key \in RoutingKeys(q)
  <2>1. Publish(qs, msg)[q] = Append(qs[q], msg)
    BY <1>2 DEF Publish
  <2>2. PICK i \in DOMAIN Append(qs[q], msg) : m = Append(qs[q], msg)[i]
    BY <2>1 DEF Held
  <2>3. \/ i \in DOMAIN qs[q] /\ m = qs[q][i]
        \/ m = msg
    BY <1>1, <2>2
  <2> QED BY <1>2, <2>3 DEF Held
<1>3. CASE msg.key \notin RoutingKeys(q)
  <2>1. Publish(qs, msg)[q] = qs[q]
    BY <1>3 DEF Publish
  <2> QED BY <2>1 DEF Held
<1> QED BY <1>2, <1>3

(* What is behind the head was in the queue.                              *)
LEMMA TailHeld ==
  ASSUME NEW s \in Seq(Messages), s # << >>, NEW i \in DOMAIN Tail(s)
  PROVE  i + 1 \in DOMAIN s /\ Tail(s)[i] = s[i + 1]
OBVIOUS

(* Acknowledging adds nothing.                                            *)
LEMMA AckedHeld ==
  ASSUME NEW qs \in QueueStates, NEW p \in Queues, qs[p] # << >>,
         NEW q \in Queues, NEW m \in Held(Ack(qs, p), q)
  PROVE  m \in Held(qs, q)
<1>1. qs[p] \in Seq(Messages)
  BY DEF QueueStates
<1>2. CASE p = q
  <2>1. Ack(qs, p)[q] = Tail(qs[q])
    BY <1>2 DEF Ack, QueueStates
  <2> QED BY <1>1, <1>2, <2>1, TailHeld DEF Held
<1>3. CASE p # q
  BY <1>3 DEF Ack, Held, QueueStates
<1> QED BY <1>2, <1>3

(* Nor does rejecting: no queue is bound to the dead-letter exchange.     *)
LEMMA RejectedHeld ==
  ASSUME NEW qs \in QueueStates, NEW p \in Queues, qs[p] # << >>,
         NEW q \in Queues, NEW m \in Held(Reject(qs, p), q)
  PROVE  m \in Held(qs, q)
<1>1. qs[p] \in Seq(Messages)
  BY DEF QueueStates
<1>2. ~ IsBound(DeadLetterQueue)
  BY DEF IsBound, RoutingKeys, DeadLetterQueue
<1>3. CASE p = q
  <2>1. Reject(qs, p)[q] = Tail(qs[q])
    BY <1>3 DEF Reject
  <2> QED BY <1>1, <1>3, <2>1, TailHeld DEF Held
<1>4. CASE p # q
  <2>1. Reject(qs, p)[q] = qs[q]
    BY <1>2, <1>4 DEF Reject
  <2> QED BY <2>1 DEF Held
<1> QED BY <1>3, <1>4

(* The messages that the orchestrator may publish now, and with those of  *)
(* the participants all that somebody may publish.                        *)
Commanded(m) ==
  \/ \E t \in Txn : start[t] = "dispatch" /\ m = FirstCommand(TypeOf[t], t)
  \/ /\ About("publish")
     /\ m = Message(NextCall.status, Current.txn, NextCall.step)

Sent(m) ==
  \/ Commanded(m)
  \/ \E p \in CommandQueues :
       /\ queues[p] # << >>
       /\ \E key \in OutcomeKeys \cap Answers(Head(queues[p]).key) :
            m = Message(key, Head(queues[p]).txn, NoStep)

(* They are messages.                                                     *)
LEMMA SentIsTyped ==
  ASSUME OrchestratorAssumption, TypeOK, NEW m, Sent(m)
  PROVE  m \in Messages
<1>1. ASSUME NEW t \in Txn, m = FirstCommand(TypeOf[t], t)
      PROVE  m \in Messages
  BY <1>1, FirstCommandIsTyped
<1>2. CASE About("publish") /\ m = Message(NextCall.status, Current.txn, NextCall.step)
  BY <1>2, CallIsTyped, CallKinds DEF Message, Messages, About, NextCall
<1>3. ASSUME NEW p \in CommandQueues, queues[p] # << >>, NEW key \in OutcomeKeys,
             m = Message(key, Head(queues[p]).txn, NoStep)
      PROVE  m \in Messages
  <2>1. queues[p] \in Seq(Messages)
    BY DEF TypeOK, Queues
  <2>2. Head(queues[p]) \in Messages
    BY <1>3, <2>1
  <2> QED BY <1>3, <2>2 DEF Message, Messages, NoStep, SourceSteps
<1> QED BY <1>1, <1>2, <1>3 DEF Sent, Commanded

(* In a step of the orchestrator a queue holds what it held, or what the   *)
(* orchestrator may publish to it.                                        *)
LEMMA CommandStep ==
  ASSUME OrchestratorAssumption, TypeOK,
         \/ StartNext
         \/ ConsumerNext
         \/ PollerNext
         \/ Crash
         \/ UNCHANGED vars,
         NEW q \in Queues, NEW m \in Held(queues', q)
  PROVE  \/ m \in Held(queues, q)
         \/ Commanded(m) /\ m.key \in RoutingKeys(q)
<1> DEFINE Goal == \/ m \in Held(queues, q)
                   \/ Commanded(m) /\ m.key \in RoutingKeys(q)
<1>t. /\ queues \in QueueStates
      /\ OutcomesQueue \in Queues
  BY DEF TypeOK, QueueStates, Queues, OutcomesQueue
<1>c. ASSUME NEW msg, Commanded(msg)
      PROVE  msg \in Messages
  BY <1>c, SentIsTyped DEF Sent
<1>s. ASSUME queues' = queues
      PROVE  Goal
  BY <1>s
<1>p. ASSUME NEW msg, Commanded(msg), m \in Held(Publish(queues, msg), q)
      PROVE  Goal
  BY <1>t, <1>p, <1>c, PublishedHeld
<1>a. ASSUME NEW p \in Queues, queues[p] # << >>, queues' = Ack(queues, p)
      PROVE  Goal
  BY <1>t, <1>a, AckedHeld
<1>v. ASSUME RetryOrReject(queues), queues[OutcomesQueue] # << >>
      PROVE  Goal
  BY <1>t, <1>s, <1>v, RejectedHeld DEF RetryOrReject
<1>w. ASSUME NEW msg, Commanded(msg), RetryOrReject(Publish(queues, msg)),
             queues[OutcomesQueue] # << >>
      PROVE  Goal
  <2> DEFINE sent == Publish(queues, msg)
  <2>1. sent \in QueueStates /\ sent[OutcomesQueue] # << >>
    BY <1>t, <1>c, <1>w, PublishedQueues
  <2>2. queues' = sent \/ queues' = Reject(sent, OutcomesQueue)
    BY <1>w DEF RetryOrReject
  <2>3. m \in Held(sent, q)
    <3> HIDE DEF sent
    <3> QED BY <1>t, <2>1, <2>2, RejectedHeld
  <2> QED BY <1>w, <1>p, <2>3
<1> SUFFICES Goal
  OBVIOUS
<1> HIDE DEF Goal
<1>1. CASE StartNext
  <2>1. \/ queues' = queues
        \/ \E t \in Txn : /\ start[t] = "dispatch"
                           /\ queues' = Publish(queues, FirstCommand(TypeOf[t], t))
    BY <1>1 DEF StartNext, Precheck, RegisterTransaction, CreateSaga, Dispatch,
                Finalize, StartFails
  <2> QED BY <1>s, <1>p, <2>1 DEF Commanded
<1>2. CASE PollerNext \/ Crash \/ UNCHANGED vars
  BY <1>2, <1>s DEF PollerNext, Expire, ListTimedOut, PatchTimedOut,
                    MarkTimedOut, PollerCallFails, Crash, vars
<1>3. CASE ConsumerNext
  <2>1. CASE ReadSaga \/ PatchTransaction \/ UpdateSagaStatus \/ UpdateSagaStep
    BY <1>s, <2>1 DEF ReadSaga, PatchTransaction, UpdateSagaStatus,
                      UpdateSagaStep
  <2>2. CASE PublishNext
    BY <1>p, <2>2 DEF PublishNext, Commanded
  <2>3. CASE AckOutcome
    BY <1>t, <1>a, <2>3 DEF AckOutcome, Handling
  <2>4. CASE PatchRefused \/ LookupFails
    BY <1>v, <2>4 DEF PatchRefused, LookupFails, About, Handling
  <2>5. ASSUME NEW applied \in BOOLEAN, CallFails(applied)
        PROVE  Goal
    <3>1. CASE applied /\ NextCall.op = "publish"
      <4> DEFINE msg == Message(NextCall.status, Current.txn, NextCall.step)
      <4>1. Commanded(msg)
        BY <2>5, <3>1 DEF CallFails, Commanded, About, NextCall
      <4>2. /\ RetryOrReject(Publish(queues, msg))
            /\ queues[OutcomesQueue] # << >>
        BY <2>5, <3>1 DEF CallFails, Handling
      <4> HIDE DEF msg
      <4> QED BY <1>w, <4>1, <4>2
    <3>2. CASE ~ (applied /\ NextCall.op = "publish")
      BY <1>v, <2>5, <3>2 DEF CallFails, Handling
    <3> QED BY <3>1, <3>2
  <2> QED BY <1>3, <2>1, <2>2, <2>3, <2>4, <2>5 DEF ConsumerNext
<1> QED BY <1>1, <1>2, <1>3

(* What a participant leaves in the queues when it answers m to the head   *)
(* of queue p: what they held, and the answer where it is bound.          *)
LEMMA AnswerStep ==
  ASSUME TypeOK, NEW p \in CommandQueues, NEW key \in OutcomeKeys,
         Answer(p, key) \/ AnswerUnacked(p, key),
         NEW q \in Queues, NEW m \in Held(queues', q)
  PROVE  \/ m \in Held(queues, q)
         \/ /\ m = Message(key, Head(queues[p]).txn, NoStep)
            /\ m.key \in RoutingKeys(q)
<1> DEFINE msg == Message(key, Head(queues[p]).txn, NoStep)
           sent == Publish(queues, msg)
<1>1. queues \in QueueStates /\ p \in Queues /\ queues[p] # << >>
  BY DEF TypeOK, QueueStates, Queues, Answer, AnswerUnacked
<1>2. msg \in Messages
  <2>1. queues[p] \in Seq(Messages)
    BY <1>1 DEF QueueStates
  <2>2. Head(queues[p]) \in Messages
    BY <1>1, <2>1
  <2> QED BY <2>2 DEF Message, Messages, NoStep, SourceSteps
<1>3. sent \in QueueStates /\ sent[p] # << >>
  BY <1>1, <1>2, PublishedQueues
<1>4. queues' = Ack(sent, p) \/ queues' = sent
  BY DEF Answer, AnswerUnacked
<1>5. m \in Held(sent, q)
  <2> HIDE DEF sent
  <2> QED BY <1>1, <1>3, <1>4, AckedHeld
<1> QED BY <1>1, <1>2, <1>5, PublishedHeld

(* A queue holds what it held, or what somebody may publish to it.        *)
LEMMA QueueStep ==
  ASSUME OrchestratorAssumption, TypeOK, [Next]_vars,
         NEW q \in Queues, NEW m \in Held(queues', q)
  PROVE  \/ m \in Held(queues, q)
         \/ Sent(m) /\ m.key \in RoutingKeys(q)
<1>1. CASE ParticipantNext
  <2>1. PICK p \in CommandQueues :
          \/ \E key \in OutcomeKeys : Answer(p, key) \/ AnswerUnacked(p, key)
          \/ GiveUp(p)
    BY <1>1 DEF ParticipantNext
  <2>2. ASSUME NEW key \in OutcomeKeys, Answer(p, key) \/ AnswerUnacked(p, key)
        PROVE  \/ m \in Held(queues, q)
               \/ Sent(m) /\ m.key \in RoutingKeys(q)
    <3>1. queues[p] # << >> /\ key \in Answers(Head(queues[p]).key)
      BY <2>2 DEF Answer, AnswerUnacked
    <3> QED BY <2>2, <3>1, AnswerStep DEF Sent
  <2>3. CASE GiveUp(p)
    BY <2>3, RejectedHeld DEF GiveUp, TypeOK, QueueStates, Queues
  <2> QED BY <2>1, <2>2, <2>3
<1>2. CASE ~ ParticipantNext
  BY <1>2, CommandStep DEF Next, Sent
<1> QED BY <1>1, <1>2

(* The handler that starts a transaction: it goes on after its row is     *)
(* there, or starts again.                                                *)
LEMMA StartStep ==
  ASSUME OrchestratorAssumption, TypeOK, [Next]_vars, NEW t \in Txn
  PROVE  \/ start'[t] = start[t]
         \/ start'[t] \in { "new", "register", "denied" }
         \/ /\ start[t] = "register"
            /\ start'[t] = "create"
            /\ ledger'[t].status # "absent"
         \/ /\ start[t] = "create"
            /\ start'[t] = "dispatch"
            /\ saga'[t].status # "absent"
         \/ start[t] = "dispatch" /\ start'[t] = "answer"
         \/ start[t] = "answer" /\ start'[t] = "accepted"
<1>t. /\ start \in [Txn -> StartStages]
      /\ saga \in [Txn -> SagaRows]
      /\ ledger \in [Txn -> LedgerRows]
  BY DEF TypeOK
<1>1. CASE StartNext
  <2>1. PICK u \in Txn :
          \/ \E allowed \in BOOLEAN : Precheck(u, allowed)
          \/ RegisterTransaction(u)
          \/ CreateSaga(u)
          \/ Dispatch(u)
          \/ Finalize(u)
          \/ \E applied \in BOOLEAN : StartFails(u, applied)
    BY <1>1 DEF StartNext
  <2>2. CASE u # t
    <3>1. \E stage : start' = [start EXCEPT ![u] = stage]
      BY <2>1 DEF Precheck, RegisterTransaction, CreateSaga, Dispatch, Finalize,
                  StartFails
    <3> QED BY <1>t, <2>2, <3>1
  <2>3. CASE u = t
    <3>1. CASE RegisterTransaction(u)
      BY <1>t, <2>3, <3>1 DEF RegisterTransaction, Registered
    <3>2. CASE CreateSaga(u)
      BY <1>t, <2>3, <3>2 DEF CreateSaga, Created
    <3>3. CASE ~ RegisterTransaction(u) /\ ~ CreateSaga(u)
      BY <1>t, <2>1, <2>3, <3>3 DEF Precheck, Dispatch, Finalize, StartFails
    <3> QED BY <3>1, <3>2, <3>3
  <2> QED BY <2>2, <2>3
<1>2. CASE ~ StartNext
  BY <1>t, <1>2
  DEF Next, ConsumerNext, ReadSaga, PatchTransaction, PublishNext,
      UpdateSagaStatus, UpdateSagaStep, AckOutcome, PatchRefused, LookupFails,
      CallFails, PollerNext, Expire, ListTimedOut, PatchTimedOut, MarkTimedOut,
      PollerCallFails, Crash, ParticipantNext, Answer, AnswerUnacked, GiveUp,
      vars
<1> QED BY <1>1, <1>2

------------------------------------------------------------------------------
(***************************************************************************)
(* What the steps, the messages and the place of the handler say about     *)
(* each other.                                                             *)
(***************************************************************************)

(* The source step of the credit that a workflow may publish.             *)
CreditStep(type) ==
  CASE type = "purchase" -> "purchase_compensation"
    [] type = "deposit" -> "deposit_credit"
    [] type = "refund" -> "refund_credit"

(* The outcome that moves a saga on from its first step.                  *)
Trigger(type) ==
  CASE type = "purchase" -> "wallet.debited"
    [] type = "deposit" -> "provider.charge.succeeded"
    [] type = "refund" -> "access.revoked"

(* A row's step fits its status; within the timeout a saga at its first    *)
(* step is running.                                                       *)
RowFits(t, row) ==
  /\ row.status # "created"
  /\ row.status = "absent" => row.step = "none"
  /\ row.status = "compensating" =>
       /\ TypeOf[t] = "purchase"
       /\ row.step = "purchase_compensation_credit"
  /\ row.outcome = "compensated" =>
       /\ row.status = "completed"
       /\ row.step = "purchase_compensation_credited"
  /\ row.step = FirstStep(TypeOf[t]) /\ t \notin expired =>
       row.status = "running"

RowsFit ==
  /\ \A t \in Txn : RowFits(t, saga[t])
  /\ delivery.at > 0 => RowFits(Current.txn, delivery.seen)

(* The poller's copies are of sagas past their timeout.                   *)
PollerKnowsExpired ==
  \A e \in poller.todo \cup poller.mark : e.txn \in expired

(* A message is about a transaction whose rows exist, in a queue bound     *)
(* with its key, and a wallet command carries the step of its workflow.   *)
MessageFits(m) ==
  /\ saga[m.txn].status # "absent"
  /\ ledger[m.txn].status # "absent"
  /\ m.key = "wallet.debit.requested" => m.step = "purchase_debit"
  /\ m.key = "wallet.credit.requested" => m.step = CreditStep(TypeOf[m.txn])

MessagesFit ==
  \A q \in Queues : \A m \in Queued(q) :
    /\ m.key \in RoutingKeys(q)
    /\ MessageFits(m)

(* The rows a start handler has written are there.                        *)
StartsFit ==
  \A t \in Txn :
    /\ start[t] \in { "create", "dispatch", "answer", "accepted" } =>
         ledger[t].status # "absent"
    /\ start[t] \in { "dispatch", "answer", "accepted" } =>
         saga[t].status # "absent"

(* A purchase whose money is handed back, or has been.                    *)
PaysBack(t) ==
  \/ saga[t].status = "compensating"
  \/ saga[t].outcome = "compensated"

(* A purchase's credit, and its answer, follow the compensation.          *)
CreditsFit ==
  \A q \in Queues : \A m \in Queued(q) :
    /\ m.key \in { "wallet.credit.requested", "wallet.credited" }
    /\ TypeOf[m.txn] = "purchase"
    => PaysBack(m.txn)

(* How far the handler of each event has got shows in the rows.           *)
HandlerFits ==
  Handling /\ Calls # << >> =>
    LET t == Current.txn IN
    /\ saga[t].status = "compensating" =>
         \/ delivery.seen.status = "compensating"
         \/ Current.key = "access.grant.conflicted" /\ delivery.at > 1
    /\ Current.key = "access.grant.conflicted" /\ delivery.at = 2 =>
         saga[t].status = "compensating"
    /\ Current.key = "provider.charge.succeeded" /\ delivery.at > 1 =>
         /\ ledger[t].ref # "none"
         /\ t \notin expired => ledger[t].status = "pending"
    /\ delivery.at = Len(Calls) + 1 /\ Current.key = Trigger(TypeOf[t])
       /\ t \notin expired => saga[t].step # FirstStep(TypeOf[t])

(* Who knows of a step: the saga row, and those who have copied it.       *)
Knows(t, step) ==
  \/ saga[t].step = step
  \/ delivery.at > 0 /\ Current.txn = t /\ delivery.seen.step = step
  \/ \E e \in poller.todo \cup poller.mark : e.txn = t /\ e.step = step

(* A deposit known to be at its credit has the provider's reference.      *)
RefsFit ==
  \A t \in Txn :
    TypeOf[t] = "deposit"
    /\ (Knows(t, "deposit_credit") \/ ledger[t].status = "completed") =>
      ledger[t].ref # "none"

(* Without faults an open saga behind a decided ledger is the one whose    *)
(* handler is about to write it.                                          *)
VerdictsFit ==
  \A t \in Txn :
    /\ ledger[t].status \in Verdicts
    /\ saga[t].status \notin TerminalStatuses
    /\ faults = 0
    => /\ Handling
       /\ Current.txn = t
       /\ Len(Calls) = 2
       /\ Calls[1].op = "patch"
       /\ delivery.at = 2

FInv ==
  /\ IInv
  /\ RowsFit
  /\ PollerKnowsExpired
  /\ MessagesFit
  /\ StartsFit
  /\ CreditsFit
  /\ HandlerFits
  /\ RefsFit
  /\ VerdictsFit

(* The row of a transaction, once there, stays.                           *)
LEMMA RowsStay ==
  ASSUME OrchestratorAssumption, TypeOK, [Next]_vars, NEW t \in Txn
  PROVE  /\ saga[t].status # "absent" => saga'[t].status # "absent"
         /\ ledger[t].status # "absent" => ledger'[t].status # "absent"
<1>1. saga[t].status # "absent" => saga'[t].status # "absent"
  <2> DEFINE new == saga'[t]
  <2>1. ASSUME About("status"), new.status = NextCall.status
        PROVE  new.status # "absent"
    BY <2>1, CallKinds DEF About, NextCall, SagaStatuses
  <2>2. ASSUME About("step"),
               saga'[t] = [saga[t] EXCEPT !.step = NextCall.step]
        PROVE  saga'[t].status = saga[t].status
    <3>1. saga[t] \in SagaRows
      BY DEF TypeOK
    <3> QED BY <2>2, <3>1 DEF SagaRows
  <2>3. \/ new = saga[t]
        \/ new.status \in { "running", "timed_out" }
        \/ About("status") /\ new.status = NextCall.status
        \/ About("step") /\ new = [saga[t] EXCEPT !.step = NextCall.step]
    <3>1. CASE SagaCreated(t)
      BY <3>1 DEF SagaCreated
    <3>2. CASE SagaTimedOut(t)
      BY <3>2 DEF SagaTimedOut
    <3>3. CASE SagaRestatused(t)
      BY <3>3 DEF SagaRestatused
    <3>4. CASE SagaStepped(t)
      BY <3>4 DEF SagaStepped
    <3> QED BY <3>1, <3>2, <3>3, <3>4, SagaRowStep
  <2> QED BY <2>1, <2>2, <2>3
<1>2. ledger[t].status # "absent" => ledger'[t].status # "absent"
  BY LedgerStep DEF LedgerMoves, LegalTransition
<1> QED BY <1>1, <1>2

(* The start handlers keep what they rely on.                             *)
LEMMA StartsFitStep ==
  ASSUME OrchestratorAssumption, TypeOK, StartsFit, [Next]_vars
  PROVE  StartsFit'
BY StartStep, RowsStay DEF StartsFit

(* The poller keeps what it relies on.                                    *)
LEMMA PollerKnowsStep ==
  ASSUME OrchestratorAssumption, TypeOK, PollerKnowsExpired, [Next]_vars
  PROVE  PollerKnowsExpired'
BY PollerStep, ExpiredGrows DEF PollerKnowsExpired

(* What is in a queue is a message.                                       *)
LEMMA HeldIsTyped ==
  ASSUME TypeOK, NEW q \in Queues, NEW m \in Held(queues, q)
  PROVE  m \in Messages /\ m.txn \in Txn
<1>1. queues[q] \in Seq(Messages)
  BY DEF TypeOK
<1>2. m \in Messages
  BY <1>1 DEF Held
<1> QED BY <1>2 DEF Messages

(* The head of a queue is in it.                                          *)
LEMMA HeadIsHeld ==
  ASSUME TypeOK, NEW q \in Queues, queues[q] # << >>
  PROVE  Head(queues[q]) \in Held(queues, q)
<1>1. queues[q] \in Seq(Messages)
  BY DEF TypeOK
<1>2. 1 \in DOMAIN queues[q] /\ Head(queues[q]) = queues[q][1]
  BY <1>1
<1> QED BY <1>2 DEF Held

(* The message being handled fits.                                        *)
LEMMA CurrentFits ==
  ASSUME TypeOK, MessagesFit, queues[OutcomesQueue] # << >>
  PROVE  /\ Current.txn \in Txn
         /\ Current.key \in OutcomeKeys
         /\ Current \in Held(queues, OutcomesQueue)
         /\ MessageFits(Current)
<1>1. OutcomesQueue \in Queues
  BY DEF Queues
<1>2. /\ Current \in Held(queues, OutcomesQueue)
      /\ Current.txn \in Txn
  BY <1>1, HeadIsHeld, HeldIsTyped DEF Current
<1>3. Current.key \in RoutingKeys(OutcomesQueue) /\ MessageFits(Current)
  BY <1>1, <1>2 DEF MessagesFit, Queued, Held
<1> QED BY <1>2, <1>3 DEF RoutingKeys, OutcomesQueue

(* A message fits when it is published.                                   *)
LEMMA SentFits ==
  ASSUME OrchestratorAssumption, TypeOK, MessagesFit, StartsFit, NEW m, Sent(m)
  PROVE  m.txn \in Txn /\ MessageFits(m)
<1>1. ASSUME NEW t \in Txn, start[t] = "dispatch", m = FirstCommand(TypeOf[t], t)
      PROVE  m.txn \in Txn /\ MessageFits(m)
  <2>1. TypeOf[t] \in SagaTypes
    BY DEF OrchestratorAssumption
  <2> QED BY <1>1, <2>1 DEF StartsFit, FirstCommand, Message, MessageFits, SagaTypes
<1>2. ASSUME About("publish"),
             m = Message(NextCall.status, Current.txn, NextCall.step)
      PROVE  m.txn \in Txn /\ MessageFits(m)
  <2>1. /\ CallOf(TypeOf[Current.txn], Current.key, delivery.seen, delivery.at,
                  NextCall)
        /\ NextCall.op = "publish"
    BY <1>2, CurrentCall DEF About, NextCall
  <2>2. Current.txn \in Txn /\ MessageFits(Current)
    BY <1>2, CurrentFits DEF About, Handling
  <2>3. /\ NextCall.status # "wallet.debit.requested"
        /\ NextCall.status = "wallet.credit.requested" =>
             NextCall.step = CreditStep(TypeOf[Current.txn])
    BY <2>1 DEF CallOf, PatchLedger, PublishCommand, SetStatus, SetStep, Call,
                CreditStep
  <2> QED BY <1>2, <2>2, <2>3 DEF Message, MessageFits
<1>3. ASSUME NEW p \in CommandQueues, queues[p] # << >>, NEW key \in OutcomeKeys,
             m = Message(key, Head(queues[p]).txn, NoStep)
      PROVE  m.txn \in Txn /\ MessageFits(m)
  <2>1. p \in Queues
    BY DEF Queues
  <2>2. /\ Head(queues[p]).txn \in Txn
        /\ MessageFits(Head(queues[p]))
    BY <1>3, <2>1, HeadIsHeld, HeldIsTyped DEF MessagesFit, Queued, Held
  <2>3. key # "wallet.debit.requested" /\ key # "wallet.credit.requested"
    BY DEF OutcomeKeys
  <2> QED BY <1>3, <2>2, <2>3 DEF Message, MessageFits
<1> QED BY <1>1, <1>2, <1>3 DEF Sent, Commanded

(* The messages go on fitting.                                            *)
LEMMA MessagesFitStep ==
  ASSUME OrchestratorAssumption, TypeOK, MessagesFit, StartsFit, [Next]_vars
  PROVE  MessagesFit'
<1>1. ASSUME NEW q \in Queues, NEW m \in Held(queues', q)
      PROVE  m.key \in RoutingKeys(q) /\ MessageFits(m)'
  <2>1. m.txn \in Txn /\ m.key \in RoutingKeys(q) /\ MessageFits(m)
    <3>1. CASE m \in Held(queues, q)
      BY <3>1, HeldIsTyped DEF MessagesFit, Queued, Held
    <3>2. CASE Sent(m) /\ m.key \in RoutingKeys(q)
      BY <3>2, SentFits
    <3> QED BY <1>1, <3>1, <3>2, QueueStep
  <2> QED BY <2>1, RowsStay DEF MessageFits
<1> QED BY <1>1 DEF MessagesFit, Queued, Held

(* What a call that is about to be made leaves or requires: the row is     *)
(* there, is not over, and a step update finds it running or timed out.   *)
LEMMA WriteFits ==
  ASSUME OrchestratorAssumption, TypeOK, WritersAreNotOvertaken, RowsFit,
         MessagesFit, HandlerFits, Handling, delivery.at \in 1..Len(Calls)
  PROVE  LET t == Current.txn IN
         /\ t \in Txn
         /\ saga[t].status \in { "running", "timed_out", "compensating" }
         /\ saga[t].outcome # "compensated"
         /\ NextCall.op = "step" => saga[t].status # "compensating"
         /\ /\ NextCall.op = "status"
            /\ saga[t].status = "compensating"
            => NextCall.detail = "compensated"
<1> DEFINE t == Current.txn
<1>1. /\ t \in Txn
      /\ saga[t].status # "absent"
  BY CurrentFits DEF Handling, MessageFits
<1>2. saga[t].status \notin TerminalStatuses
  BY DEF WritersAreNotOvertaken
<1>3. RowFits(t, saga[t]) /\ RowFits(t, delivery.seen)
  BY <1>1 DEF RowsFit, Handling
<1>4. saga[t].status \in { "running", "timed_out", "compensating" }
  <2>1. saga[t].status \in SagaStatuses \cup { "absent" }
    BY <1>1 DEF TypeOK, SagaRows
  <2> QED BY <1>1, <1>2, <1>3, <2>1 DEF RowFits, SagaStatuses, TerminalStatuses
<1>5. saga[t].outcome # "compensated"
  BY <1>3, <1>4 DEF RowFits
<1>6. CallOf(TypeOf[t], Current.key, delivery.seen, delivery.at, NextCall)
  BY CurrentCall
<1>7. ASSUME saga[t].status = "compensating"
      PROVE  /\ NextCall.op # "step"
             /\ NextCall.op = "status" => NextCall.detail = "compensated"
  <2>1. TypeOf[t] = "purchase"
    BY <1>3, <1>7 DEF RowFits
  <2>2. Len(Calls) # 0
    OBVIOUS
  <2>3. \/ delivery.seen.status = "compensating"
        \/ Current.key = "access.grant.conflicted" /\ delivery.at > 1
    BY <1>7, <2>2 DEF HandlerFits
  <2>4. CASE delivery.seen.status = "compensating"
    <3>1. delivery.seen.step = "purchase_compensation_credit"
      BY <1>3, <2>4 DEF RowFits
    <3> QED BY <1>6, <2>1, <2>4, <3>1
            DEF CallOf, PatchLedger, PublishCommand, SetStatus, SetStep, Call
  <2>5. CASE Current.key = "access.grant.conflicted" /\ delivery.at > 1
    BY <1>6, <2>1, <2>5
    DEF CallOf, PatchLedger, PublishCommand, SetStatus, SetStep, Call
  <2> QED BY <2>3, <2>4, <2>5
<1> QED BY <1>1, <1>4, <1>5, <1>7

(* A saga row goes on fitting.                                            *)
LEMMA RowFitsStep ==
  ASSUME OrchestratorAssumption, IInv, RowsFit, PollerKnowsExpired,
         MessagesFit, HandlerFits, [Next]_vars, NEW t \in Txn
  PROVE  RowFits(t, saga[t])'
<1> DEFINE new == saga'[t]
<1>0. /\ TypeOK
      /\ WritersAreNotOvertaken
      /\ RowFits(t, saga[t])
      /\ TypeOf[t] \in SagaTypes
      /\ saga[t] \in SagaRows
  BY DEF IInv, RowsFit, OrchestratorAssumption, TypeOK
<1>e. expired \subseteq expired'
  BY ExpiredGrows
<1>1. CASE saga'[t] = saga[t]
  BY <1>0, <1>1, <1>e DEF RowFits
<1>2. CASE SagaCreated(t)
  <2>1. new.status = "running" /\ new.outcome = "none"
    BY <1>2 DEF SagaCreated
  <2> QED BY <2>1 DEF RowFits
<1>3. CASE SagaTimedOut(t)
  <2>1. /\ new.status = "timed_out"
        /\ new.outcome = "none"
        /\ t \in expired
    BY <1>3 DEF SagaTimedOut, PollerKnowsExpired
  <2> QED BY <1>e, <2>1 DEF RowFits
<1>4. CASE SagaRestatused(t)
  <2>1. /\ new = [status |-> NextCall.status, outcome |-> NextCall.detail,
                  step |-> NextCall.step]
        /\ NextCall.op = "status"
        /\ CallOf(TypeOf[t], Current.key, delivery.seen, delivery.at, NextCall)
    BY <1>0, <1>4, CurrentCall DEF SagaRestatused, About, NextCall
  <2>2. /\ NextCall.status \in { "completed", "failed", "compensating" }
        /\ NextCall.status = "compensating" =>
             /\ TypeOf[t] = "purchase"
             /\ NextCall.step = "purchase_compensation_credit"
        /\ NextCall.detail = "compensated" =>
             /\ NextCall.status = "completed"
             /\ NextCall.step = "purchase_compensation_credited"
        /\ NextCall.step # FirstStep(TypeOf[t])
    BY <1>0, <2>1 DEF CallOf, PatchLedger, PublishCommand, SetStatus, SetStep,
                      Call, FirstStep, SagaTypes
  <2>3. /\ new.status = NextCall.status
        /\ new.outcome = NextCall.detail
        /\ new.step = NextCall.step
    BY <2>1
  <2> QED BY <2>2, <2>3 DEF RowFits
<1>5. CASE SagaStepped(t)
  <2>1. /\ NextCall.op = "step"
        /\ CallOf(TypeOf[t], Current.key, delivery.seen, delivery.at, NextCall)
        /\ saga[t].status \in { "running", "timed_out" }
        /\ saga[t].outcome # "compensated"
    BY <1>0, <1>5, CurrentCall, WriteFits DEF SagaStepped, About, NextCall
  <2>2. NextCall.step # FirstStep(TypeOf[t])
    BY <1>0, <2>1 DEF CallOf, PatchLedger, PublishCommand, SetStatus, SetStep,
                      Call, FirstStep, SagaTypes
  <2>3. /\ new.status = saga[t].status
        /\ new.outcome = saga[t].outcome
        /\ new.step = NextCall.step
    BY <1>0, <1>5 DEF SagaStepped, SagaRows
  <2> QED BY <2>1, <2>2, <2>3 DEF RowFits
<1> QED BY <1>0, <1>1, <1>2, <1>3, <1>4, <1>5, SagaRowStep

(* So does the copy the handler works with.                               *)
LEMMA RowsFitStep ==
  ASSUME OrchestratorAssumption, IInv, RowsFit, PollerKnowsExpired,
         MessagesFit, HandlerFits, [Next]_vars
  PROVE  RowsFit'
<1>1. \A t \in Txn : RowFits(t, saga[t])'
  BY RowFitsStep
<1>2. ASSUME delivery'.at > 0
      PROVE  RowFits(Current.txn, delivery.seen)'
  <2>0. delivery.at > 0 => queues[OutcomesQueue] # << >>
    BY DEF IInv, WritersAreNotOvertaken
  <2>e. expired \subseteq expired'
    BY ExpiredGrows
  <2>1. CASE Reads
    <3>1. RowFits(Current.txn, saga[Current.txn])
      BY <2>1, CurrentFits DEF Reads, RowsFit, IInv
    <3>2. /\ delivery'.seen = saga[Current.txn]
          /\ Current' = Current
      BY <2>1 DEF Reads, Keeps
    <3> QED BY <2>e, <3>1, <3>2 DEF RowFits
  <2>2. CASE /\ delivery.at > 0
             /\ delivery'.seen = delivery.seen
             /\ Current' = Current
    BY <2>e, <2>2 DEF RowFits, RowsFit
  <2>3. CASE Stands
    BY <1>2, <2>0, <2>2, <2>3 DEF Stands, Keeps
  <2>4. ASSUME NEW op, Advances(op)
        PROVE  RowFits(Current.txn, delivery.seen)'
    BY <2>2, <2>4 DEF Advances, Keeps, About, Handling
  <2>5. CASE Stops
    BY <2>2, <2>5 DEF Stops, Keeps, About, Handling
  <2>6. ~ Ends
    BY <1>2 DEF Ends
  <2> QED BY <2>1, <2>3, <2>4, <2>5, <2>6, DeliveryStep
          DEF Patches, Publishes, Restatuses, Steps
<1> QED BY <1>1, <1>2 DEF RowsFit

(* Money that is being handed back goes on being so.                      *)
LEMMA PaysBackStays ==
  ASSUME OrchestratorAssumption, IInv, RowsFit, MessagesFit, HandlerFits,
         [Next]_vars, NEW t \in Txn, PaysBack(t)
  PROVE  PaysBack(t)'
<1> DEFINE new == saga'[t]
<1>0. /\ TypeOK
      /\ WritersAreNotOvertaken
      /\ RowFits(t, saga[t])
      /\ saga[t] \in SagaRows
  BY DEF IInv, RowsFit, TypeOK
<1>1. CASE saga'[t] = saga[t]
  BY <1>1 DEF PaysBack
<1>2. ~ SagaCreated(t) /\ ~ SagaTimedOut(t)
  BY <1>0 DEF SagaCreated, SagaTimedOut, PaysBack, RowFits
<1>3. CASE SagaRestatused(t)
  <2>1. /\ new = [status |-> NextCall.status, outcome |-> NextCall.detail,
                  step |-> NextCall.step]
        /\ NextCall.op = "status"
        /\ NextCall.detail = "compensated"
    BY <1>0, <1>3, WriteFits DEF SagaRestatused, About, NextCall, PaysBack
  <2> QED BY <2>1 DEF PaysBack
<1>4. ~ SagaStepped(t)
  BY <1>0, WriteFits DEF SagaStepped, About, NextCall, PaysBack
<1> QED BY <1>0, <1>1, <1>2, <1>3, <1>4, SagaRowStep

(* A credit for a purchase is published when its saga says so.            *)
LEMMA SentCreditFits ==
  ASSUME OrchestratorAssumption, TypeOK, MessagesFit, CreditsFit, HandlerFits,
         NEW m, Sent(m), TypeOf[m.txn] = "purchase",
         m.key \in { "wallet.credit.requested", "wallet.credited" }
  PROVE  PaysBack(m.txn)
<1>1. ASSUME NEW t \in Txn, m = FirstCommand(TypeOf[t], t)
      PROVE  FALSE
  BY <1>1 DEF FirstCommand, Message, OrchestratorAssumption, SagaTypes
<1>2. ASSUME About("publish"),
             m = Message(NextCall.status, Current.txn, NextCall.step)
      PROVE  PaysBack(m.txn)
  <2>1. /\ CallOf(TypeOf[Current.txn], Current.key, delivery.seen, delivery.at,
                  NextCall)
        /\ NextCall.op = "publish"
        /\ Len(Calls) # 0
    BY <1>2, CurrentCall DEF About, NextCall
  <2>2. /\ m.txn = Current.txn
        /\ m.key = NextCall.status
    BY <1>2 DEF Message
  <2>3. NextCall.status # "wallet.credited"
    BY <2>1 DEF CallOf, PatchLedger, PublishCommand, SetStatus, SetStep, Call
  <2>4. Current.key = "access.grant.conflicted" /\ delivery.at = 2
    BY <2>1, <2>2, <2>3
    DEF CallOf, PatchLedger, PublishCommand, SetStatus, SetStep, Call
  <2> QED BY <1>2, <2>1, <2>2, <2>4 DEF HandlerFits, About, PaysBack
<1>3. ASSUME NEW p \in CommandQueues, queues[p] # << >>,
             NEW key \in OutcomeKeys \cap Answers(Head(queues[p]).key),
             m = Message(key, Head(queues[p]).txn, NoStep)
      PROVE  PaysBack(m.txn)
  <2>1. /\ p \in Queues
        /\ Head(queues[p]) \in Held(queues, p)
    BY <1>3, HeadIsHeld DEF Queues
  <2>2. key = "wallet.credited" /\ m.txn = Head(queues[p]).txn
    BY <1>3 DEF Message, OutcomeKeys
  <2>3. Head(queues[p]).key \in CommandKeys
    <3>1. Head(queues[p]).key \in RoutingKeys(p)
      BY <2>1 DEF MessagesFit, Queued, Held
    <3> QED BY <3>1 DEF RoutingKeys, CommandKeys, CommandQueues
  <2>4. Head(queues[p]).key = "wallet.credit.requested"
    BY <1>3, <2>2, <2>3 DEF Answers, CommandKeys
  <2> QED BY <2>1, <2>2, <2>4 DEF CreditsFit, Queued, Held
<1> QED BY <1>1, <1>2, <1>3 DEF Sent, Commanded

(* The credits go on following the compensations.                         *)
LEMMA CreditsFitStep ==
  ASSUME OrchestratorAssumption, IInv, RowsFit, MessagesFit, CreditsFit,
         HandlerFits, [Next]_vars
  PROVE  CreditsFit'
<1>0. TypeOK
  BY DEF IInv
<1>1. ASSUME NEW q \in Queues, NEW m \in Held(queues', q),
             m.key \in { "wallet.credit.requested", "wallet.credited" },
             TypeOf[m.txn] = "purchase"
      PROVE  PaysBack(m.txn)'
  <2>1. CASE m \in Held(queues, q)
    <3>1. m.txn \in Txn
      BY <1>0, <2>1, HeldIsTyped
    <3>2. PaysBack(m.txn)
      BY <1>1, <2>1 DEF CreditsFit, Queued, Held
    <3> QED BY <3>1, <3>2, PaysBackStays
  <2>2. CASE Sent(m)
    <3>1. m.txn \in Txn
      BY <1>0, <2>2, SentIsTyped DEF Messages
    <3>2. PaysBack(m.txn)
      BY <1>0, <1>1, <2>2, SentCreditFits
    <3> QED BY <3>1, <3>2, PaysBackStays
  <2> QED BY <1>0, <1>1, <2>1, <2>2, QueueStep
<1> QED BY <1>1 DEF CreditsFit, Queued, Held

(* Nothing but its own handler moves a saga's step within its timeout, nor *)
(* makes it compensating, nor takes a deposit's reference away.           *)
LEMMA OthersLeaveRows ==
  ASSUME OrchestratorAssumption, TypeOK, PollerKnowsExpired, OtherThreads,
         NEW t \in Txn, saga[t].status # "absent", ledger[t].status # "absent"
  PROVE  /\ saga'[t].status = "compensating" <=>
              saga[t].status = "compensating"
         /\ t \notin expired => saga'[t] = saga[t] /\ ledger'[t] = ledger[t]
         /\ ledger[t].ref # "none" => ledger'[t].ref # "none"
<1>1. ASSUME saga'[t] # saga[t]
      PROVE  /\ saga[t].status = "running"
             /\ saga'[t].status = "timed_out"
             /\ t \in expired
  <2>1. SagaTimedOut(t)
    BY <1>1, OthersSagaRow DEF SagaCreated
  <2> QED BY <2>1 DEF SagaTimedOut, PollerKnowsExpired
<1>2. ASSUME ledger'[t] # ledger[t]
      PROVE  /\ t \in expired
             /\ ledger[t].ref # "none" => ledger'[t].ref # "none"
  <2>1. LedgerTimedOut(t)
    BY <1>2, OthersLedgerRow DEF LedgerRegistered
  <2> QED BY <2>1 DEF LedgerTimedOut, PollerKnowsExpired, WithStatus
<1> QED BY <1>1, <1>2

(* The place of the handler goes on showing in the rows.                  *)
LEMMA HandlerFitsStep ==
  ASSUME OrchestratorAssumption, IInv, RowsFit, PollerKnowsExpired,
         MessagesFit, HandlerFits, [Next]_vars
  PROVE  HandlerFits'
<1> DEFINE t == Current.txn
           key == Current.key
           type == TypeOf[t]
<1> USE DEF PatchLedger, PublishCommand, SetStatus, SetStep, Call
<1>0. /\ TypeOK
      /\ WritersAreNotOvertaken
      /\ saga \in [Txn -> SagaRows]
      /\ ledger \in [Txn -> LedgerRows]
      /\ delivery.at \in 0..4
  BY DEF IInv, TypeOK
<1>e. expired \subseteq expired'
  BY ExpiredGrows
<1>c. ASSUME Current' = Current, delivery'.seen = delivery.seen
      PROVE  Calls' = Calls
  BY <1>c DEF Calls
<1>1. CASE Ends
  BY <1>1 DEF Ends, HandlerFits, Handling
<1>2. CASE Stands
  <2> SUFFICES ASSUME Handling', (Calls # << >>)'
               PROVE  HandlerFits'
    BY DEF HandlerFits
  <2>1. /\ delivery' = delivery
        /\ delivery.at > 0
        /\ queues[OutcomesQueue] # << >>
        /\ Current' = Current
    BY <1>0, <1>2 DEF Stands, Handling, WritersAreNotOvertaken, Keeps
  <2>2. /\ Handling
        /\ Calls' = Calls
    BY <1>c, <2>1 DEF Handling
  <2>3. /\ t \in Txn
        /\ saga[t].status # "absent"
        /\ ledger[t].status # "absent"
    BY <1>0, <2>1, CurrentFits DEF MessageFits
  <2>4. /\ saga'[t].status = "compensating" <=> saga[t].status = "compensating"
        /\ t \notin expired => saga'[t] = saga[t] /\ ledger'[t] = ledger[t]
        /\ ledger[t].ref # "none" => ledger'[t].ref # "none"
    BY <1>0, <1>2, <2>3, OthersLeaveRows DEF Stands
  <2> HIDE DEF t, key, type
  <2> QED BY <1>e, <2>1, <2>2, <2>4 DEF HandlerFits, t
<1>3. CASE Reads
  <2>1. /\ delivery'.at = 1
        /\ delivery'.seen = saga'[t]
        /\ Current' = Current
    BY <1>3 DEF Reads, Keeps
  <2>2. ASSUME (Calls # << >>)'
        PROVE  (delivery.at # Len(Calls) + 1)'
    <3>1. t \in Txn /\ type \in SagaTypes
      BY <1>0, <1>3, CurrentFits DEF Reads, OrchestratorAssumption
    <3>2. (Calls # << >> => Len(Calls) # 0)'
      <4>1. /\ Calls' = HandlerCalls(type, key, saga'[t])
            /\ Calls' # << >>
        BY <2>1, <2>2 DEF Calls
      <4>2. LET cs == HandlerCalls(type, key, saga'[t]) IN
              Decides(cs) \/ Continues(cs) \/ Compensates(cs) \/ Records(cs)
        BY <3>1, <4>1, HandlerShape
      <4>3. LET cs == HandlerCalls(type, key, saga'[t]) IN
              Len(cs) = 2 \/ Len(cs) = 3
        BY <4>2 DEF Decides, Continues, Compensates, Records
      <4>4. Len(Calls') = 2 \/ Len(Calls') = 3
        BY <4>1, <4>3
      <4> QED BY <4>4
    <3>3. Len(Calls)' # 0
      BY <2>2, <3>2
    <3> HIDE DEF t, key, type
    <3> QED BY <2>1, <3>3
  <2> QED BY <2>1, <2>2 DEF HandlerFits
<1>a. ASSUME NEW op, Advances(op)
      PROVE  /\ Handling
             /\ t \in Txn
             /\ type \in SagaTypes
             /\ Calls # << >>
             /\ delivery.at \in 1..Len(Calls)
             /\ NextCall.op = op
             /\ CallOf(type, key, delivery.seen, delivery.at, NextCall)
             /\ Len(Calls) = IF key = "provider.charge.succeeded" THEN 3 ELSE 2
             /\ delivery'.at = delivery.at + 1
             /\ delivery'.seen = delivery.seen
             /\ Current' = Current
             /\ Calls' = Calls
  <2>1. /\ Handling
        /\ delivery.at \in 1..Len(Calls)
        /\ NextCall.op = op
    BY <1>a DEF Advances, About, NextCall
  <2>2. Calls # << >>
    <3>1. Len(<< >>) = 0
      OBVIOUS
    <3> QED BY <2>1, <3>1
  <2> QED BY <1>0, <1>a, <1>c, <2>1, <2>2, CurrentCall DEF Advances, Keeps
<1>4. CASE Patches
  <2> HIDE DEF t, key, type
  <2>1. Advances("patch")
    BY <1>4 DEF Patches
  <2>2. /\ saga' = saga
        /\ ledger'[t] = WithStatus(ledger[t], NextCall.status, NextCall.detail,
                                   NextCall.step)
    BY <1>0, <1>4, <1>a, <2>1 DEF Patches, t
  <2>3. /\ delivery.at = 1
        /\ key # "access.grant.conflicted"
        /\ key # Trigger(type) \/ key = "provider.charge.succeeded"
    BY <1>a, <2>1 DEF CallOf, Trigger
  <2>4. ASSUME key = "provider.charge.succeeded"
        PROVE  /\ ledger'[t].ref # "none"
               /\ t \notin expired => ledger'[t].status = "pending"
    <3>1. /\ type = "deposit"
          /\ delivery.seen.step = "deposit_charge"
          /\ NextCall.step = "sim"
          /\ NextCall.status = IF delivery.seen.status = "timed_out"
                               THEN "timed_out" ELSE "pending"
      BY <1>a, <2>1, <2>4 DEF CallOf
    <3>2. t \notin expired => delivery.seen.status = "running"
      BY <1>a, <2>1, <3>1 DEF RowsFit, RowFits, FirstStep, Handling, t, type
    <3> QED BY <2>2, <3>1, <3>2 DEF WithStatus
  <2> QED BY <1>a, <1>e, <2>1, <2>2, <2>3, <2>4 DEF HandlerFits, t, key, type
<1>5. CASE Publishes
  <2> HIDE DEF t, key, type
  <2>1. Advances("publish") /\ saga' = saga /\ ledger' = ledger
    BY <1>5 DEF Publishes
  <2>2. /\ key = "access.grant.conflicted" => delivery.at = 2
        /\ key = "provider.charge.succeeded" => delivery.at = 2
        /\ key = Trigger(type) => delivery.at # Len(Calls)
    <3>1. /\ key = "access.grant.conflicted" => delivery.at = 2
          /\ key = "provider.charge.succeeded" => delivery.at = 2
          /\ key = Trigger(type) => delivery.at = 1
                                    \/ key = "provider.charge.succeeded"
      BY <1>a, <2>1 DEF CallOf, Trigger
    <3>2. Len(Calls) = IF key = "provider.charge.succeeded" THEN 3 ELSE 2
      BY <1>a, <2>1
    <3> QED BY <3>1, <3>2
  <2> QED BY <1>a, <1>e, <2>1, <2>2 DEF HandlerFits, t, key, type
<1>6. CASE Restatuses
  <2> HIDE DEF t, key, type
  <2>1. /\ Advances("status")
        /\ ledger' = ledger
        /\ saga'[t].status = NextCall.status
    BY <1>0, <1>6, <1>a DEF Restatuses, t
  <2>2. /\ key = "access.grant.conflicted" =>
             delivery.at = 1 /\ NextCall.status = "compensating"
        /\ key # "access.grant.conflicted" => NextCall.status # "compensating"
        /\ key # "provider.charge.succeeded"
        /\ key # Trigger(type)
    BY <1>a, <2>1 DEF CallOf, Trigger
  <2> QED BY <1>a, <2>1, <2>2 DEF HandlerFits, t, key, type
<1>7. CASE Steps
  <2> HIDE DEF t, key, type
  <2>1. /\ Advances("step")
        /\ ledger' = ledger
        /\ saga'[t].status = saga[t].status
        /\ saga'[t].step = NextCall.step
    <3>1. Advances("step")
      BY <1>7 DEF Steps
    <3>2. t \in Txn
      BY <1>a, <3>1
    <3>3. saga[t] \in SagaRows
      BY <1>0, <3>2
    <3> QED BY <1>0, <1>7, <3>1, <3>2, <3>3 DEF Steps, SagaRows, t
  <2>2. /\ key # "access.grant.conflicted"
        /\ NextCall.step # FirstStep(type)
        /\ key = "provider.charge.succeeded" => delivery.at = 3
    BY <1>a, <2>1 DEF CallOf, FirstStep
  <2> QED BY <1>a, <1>e, <2>1, <2>2 DEF HandlerFits, t, key, type
<1>8. CASE Stops
  <2> HIDE DEF t, key, type
  <2>1. /\ saga' = saga /\ ledger' = ledger
        /\ Handling
        /\ delivery.at \in 1..Len(Calls)
        /\ NextCall.op = "status"
        /\ delivery'.at = Len(Calls) + 1
        /\ delivery'.seen = delivery.seen
        /\ Current' = Current
        /\ Calls' = Calls
    BY <1>8, <1>c DEF Stops, Keeps, About, NextCall
  <2>2. /\ CallOf(type, key, delivery.seen, delivery.at, NextCall)
        /\ Len(Calls) = IF key = "provider.charge.succeeded" THEN 3 ELSE 2
    BY <1>0, <2>1, CurrentCall DEF t, key, type
  <2>3. key # "provider.charge.succeeded" /\ key # Trigger(type)
    BY <2>1, <2>2 DEF CallOf, Trigger
  <2> QED BY <2>1, <2>2, <2>3 DEF HandlerFits, t, key, type
<1> QED BY <1>0, <1>1, <1>2, <1>3, <1>4, <1>5, <1>6, <1>7, <1>8, DeliveryStep

(* The handler is about to write a step.                                  *)
Writes(t, step) ==
  /\ Handling
  /\ Current.txn = t
  /\ delivery.at \in 1..Len(Calls)
  /\ NextCall.op \in { "step", "status" }
  /\ NextCall.step = step

(* A step becomes known when the saga is created at it, or its handler     *)
(* writes it; the poller and the handler only copy it.                    *)
LEMMA KnowsStep ==
  ASSUME OrchestratorAssumption, IInv, [Next]_vars, NEW t \in Txn, NEW step,
         Knows(t, step)'
  PROVE  \/ Knows(t, step)
         \/ step = FirstStep(TypeOf[t])
         \/ Writes(t, step)
<1>0. /\ TypeOK
      /\ WritersAreNotOvertaken
      /\ delivery.at > 0 => queues[OutcomesQueue] # << >>
  BY DEF IInv, WritersAreNotOvertaken
<1>1. CASE saga'[t].step = step
  <2>1. CASE saga'[t] = saga[t]
    BY <1>1, <2>1 DEF Knows
  <2>2. CASE SagaCreated(t)
    BY <1>1, <2>2 DEF SagaCreated
  <2>3. CASE SagaTimedOut(t)
    BY <1>1, <2>3 DEF SagaTimedOut, Knows
  <2>4. CASE SagaRestatused(t)
    BY <1>1, <2>4 DEF SagaRestatused, Writes, About, NextCall
  <2>5. CASE SagaStepped(t)
    <3>1. saga[t] \in SagaRows
      BY <1>0 DEF TypeOK
    <3> QED BY <1>1, <2>5, <3>1 DEF SagaStepped, SagaRows, Writes, About, NextCall
  <2> QED BY <1>0, <2>1, <2>2, <2>3, <2>4, <2>5, SagaRowStep
<1>2. CASE (/\ delivery.at > 0
            /\ Current.txn = t
            /\ delivery.seen.step = step)'
  <2>1. CASE Reads
    BY <1>2, <2>1 DEF Reads, Keeps, Knows
  <2>2. ASSUME delivery.at > 0, delivery'.seen = delivery.seen,
               Current' = Current
        PROVE  Knows(t, step)
    BY <1>2, <2>2 DEF Knows
  <2>3. CASE Stands
    BY <1>0, <1>2, <2>2, <2>3 DEF Stands, Keeps
  <2>4. ASSUME NEW op, Advances(op)
        PROVE  Knows(t, step)
    <3>1. /\ delivery.at > 0
          /\ delivery'.seen = delivery.seen
          /\ Current' = Current
      BY <2>4 DEF Advances, Keeps, About, Handling
    <3> QED BY <2>2, <3>1
  <2>5. CASE Stops
    BY <2>2, <2>5 DEF Stops, Keeps, About, Handling
  <2>6. ~ Ends
    BY <1>2 DEF Ends
  <2> QED BY <2>1, <2>3, <2>4, <2>5, <2>6, DeliveryStep
          DEF Patches, Publishes, Restatuses, Steps
<1>3. ASSUME NEW e \in poller'.todo \cup poller'.mark, e.txn = t, e.step = step
      PROVE  Knows(t, step)
  <2>1. \/ e \in poller.todo \cup poller.mark
        \/ e.step = saga[e.txn].step
    BY <1>0, PollerStep
  <2> QED BY <1>3, <2>1 DEF Knows
<1> QED BY <1>1, <1>2, <1>3 DEF Knows

(* A deposit's reference stays, and one is there before its credit.       *)
LEMMA RefsFitStep ==
  ASSUME OrchestratorAssumption, IInv, RowsFit, PollerKnowsExpired,
         MessagesFit, HandlerFits, RefsFit, [Next]_vars
  PROVE  RefsFit'
<1> USE DEF PatchLedger, PublishCommand, SetStatus, SetStep, Call
<1>0. /\ TypeOK
      /\ WritersAreNotOvertaken
      /\ delivery.at > 0 => queues[OutcomesQueue] # << >>
  BY DEF IInv, WritersAreNotOvertaken
<1> SUFFICES ASSUME NEW t \in Txn, TypeOf[t] = "deposit",
                    Knows(t, "deposit_credit")' \/ ledger'[t].status = "completed"
             PROVE  ledger'[t].ref # "none"
  BY DEF RefsFit
<1>r. ASSUME ledger[t].ref # "none"
      PROVE  ledger'[t].ref # "none"
  <2>1. ledger[t] \in LedgerRows
    BY <1>0 DEF TypeOK
  <2>2. CASE LedgerRegistered(t)
    BY <1>r, <2>1, <2>2 DEF LedgerRegistered, LedgerRows
  <2>3. CASE LedgerTimedOut(t)
    BY <1>r, <2>3 DEF LedgerTimedOut, WithStatus
  <2>4. CASE LedgerPatched(t)
    BY <1>r, <2>4 DEF LedgerPatched, WithStatus
  <2> QED BY <1>0, <1>r, <2>2, <2>3, <2>4, LedgerRowStep
<1>k. Knows(t, "deposit_credit") \/ ledger[t].status = "completed" =>
        ledger[t].ref # "none"
  BY DEF RefsFit
<1>1. CASE Knows(t, "deposit_credit")'
  <2>1. CASE Knows(t, "deposit_credit")
    BY <1>k, <1>r, <2>1
  <2>2. CASE Writes(t, "deposit_credit")
    <3>1. /\ CallOf(TypeOf[t], Current.key, delivery.seen, delivery.at, NextCall)
          /\ NextCall.op \in { "step", "status" }
          /\ NextCall.step = "deposit_credit"
          /\ Handling
          /\ Calls # << >>
          /\ Current.txn = t
      <4>1. Len(<< >>) = 0
        OBVIOUS
      <4> QED BY <1>0, <2>2, <4>1, CurrentCall DEF Writes
    <3>2. delivery.at = 3 /\ Current.key = "provider.charge.succeeded"
      BY <3>1 DEF CallOf
    <3> QED BY <1>r, <3>1, <3>2 DEF HandlerFits
  <2>3. FirstStep(TypeOf[t]) # "deposit_credit"
    BY DEF FirstStep
  <2> QED BY <1>1, <2>1, <2>2, <2>3, KnowsStep
<1>4. CASE ledger'[t].status = "completed"
  <2>1. CASE ledger'[t] = ledger[t]
    BY <1>4, <1>k, <2>1
  <2>2. CASE LedgerRegistered(t)
    <3>1. ledger[t] \in LedgerRows
      BY <1>0 DEF TypeOK
    <3> QED BY <1>4, <2>2, <3>1 DEF LedgerRegistered, LedgerRows
  <2>3. CASE LedgerTimedOut(t)
    BY <1>4, <2>3 DEF LedgerTimedOut, WithStatus
  <2>4. CASE LedgerPatched(t)
    <3>1. /\ NextCall.op = "patch"
          /\ NextCall.status = "completed"
          /\ Handling
          /\ Current.txn = t
          /\ CallOf(TypeOf[t], Current.key, delivery.seen, delivery.at, NextCall)
      BY <1>0, <1>4, <2>4, CurrentCall
      DEF LedgerPatched, WithStatus, About, NextCall
    <3>2. delivery.seen.step = "deposit_credit"
      BY <3>1 DEF CallOf
    <3> QED BY <1>k, <1>r, <3>1, <3>2 DEF Knows, Handling
  <2> QED BY <1>0, <2>1, <2>2, <2>3, <2>4, LedgerRowStep
<1> QED BY <1>1, <1>4

(* Without faults the handler that has written a verdict to the ledger     *)
(* writes it to the saga next, and is not refused.                        *)
LEMMA VerdictsFitStep ==
  ASSUME OrchestratorAssumption, IInv, RowsFit, MessagesFit, HandlerFits,
         VerdictsFit, [Next]_vars
  PROVE  VerdictsFit'
<1> USE DEF PatchLedger, PublishCommand, SetStatus, SetStep, Call
<1>0. /\ TypeOK
      /\ TypeOK'
      /\ WritersAreNotOvertaken
      /\ delivery.at > 0 => queues[OutcomesQueue] # << >>
  BY TypeStep DEF IInv, WritersAreNotOvertaken
<1> SUFFICES ASSUME NEW t \in Txn, ledger'[t].status \in Verdicts,
                    saga'[t].status \notin TerminalStatuses, faults' = 0
             PROVE  (/\ Handling
                     /\ Current.txn = t
                     /\ Len(Calls) = 2
                     /\ Calls[1].op = "patch"
                     /\ delivery.at = 2)'
  BY DEF VerdictsFit
<1>1. /\ faults = 0
      /\ faults' # faults + 1
  <2>1. faults' = faults \/ faults' = faults + 1
    BY FaultsGrow
  <2>2. faults \in Nat
    BY <1>0 DEF TypeOK, OrchestratorAssumption
  <2> QED BY <2>1, <2>2
<1>2. saga[t].status \notin TerminalStatuses
  BY SettledStep
<1>3. CASE ledger[t].status \in Verdicts
  <2>1. /\ Handling
        /\ Current.txn = t
        /\ Len(Calls) = 2
        /\ Calls[1].op = "patch"
        /\ delivery.at = 2
        /\ delivery.at \in 1..Len(Calls)
    BY <1>1, <1>2, <1>3 DEF VerdictsFit
  <2>2. /\ NextCall.op = "status"
        /\ NextCall.status \in { "completed", "failed" }
    <3>1. \/ Decides(Calls) \/ Continues(Calls) \/ Compensates(Calls)
          \/ Records(Calls)
      BY <1>0, <2>1, CallIsTyped
    <3> QED BY <2>1, <3>1
            DEF Decides, Continues, Compensates, Records, NextCall
  <2>3. LegalSagaTransition(saga[t].status, NextCall.status)
    BY <1>0, <2>1, <2>2, WriteFits DEF LegalSagaTransition
  <2>4. ~ Ends /\ ~ Reads /\ ~ Stops
    BY <1>1, <2>1, <2>2, <2>3 DEF Ends, Reads, Stops, About, NextCall
  <2>5. ~ Patches /\ ~ Publishes /\ ~ Steps
    BY <2>2 DEF Patches, Publishes, Steps, Advances, About, NextCall
  <2>6. ~ Restatuses
    <3>1. saga \in [Txn -> SagaRows]
      BY <1>0 DEF TypeOK
    <3>2. Restatuses => saga'[t].status = NextCall.status
      BY <2>1, <3>1 DEF Restatuses
    <3> QED BY <2>2, <3>2 DEF TerminalStatuses
  <2>7. Stands
    BY <2>4, <2>5, <2>6, DeliveryStep
  <2>8. delivery' = delivery /\ Current' = Current /\ Handling'
    BY <2>1, <2>7 DEF Stands, Keeps, Handling
  <2> QED BY <2>1, <2>8 DEF Calls
<1>4. CASE ledger[t].status \notin Verdicts
  <2>1. ~ LedgerRegistered(t) /\ ~ LedgerTimedOut(t) /\ ledger'[t] # ledger[t]
    <3>1. ledger[t] \in LedgerRows
      BY <1>0 DEF TypeOK
    <3> QED BY <1>4, <3>1 DEF LedgerRegistered, LedgerTimedOut, WithStatus,
                              Verdicts, LedgerRows
  <2>2. LedgerPatched(t)
    BY <1>0, <2>1, LedgerRowStep
  <2>3. /\ Handling
        /\ Current.txn = t
        /\ delivery.at \in 1..Len(Calls)
        /\ NextCall.op = "patch"
        /\ NextCall.status \in Verdicts
    BY <2>2 DEF LedgerPatched, WithStatus, About, NextCall
  <2>4. /\ delivery.at = 1
        /\ Decides(Calls)
    BY <1>0, <2>3, CallKinds
  <2>5. Patches
    <3>1. ~ Ends /\ ~ Reads /\ ~ Stops /\ ~ Publishes /\ ~ Restatuses /\ ~ Steps
      BY <1>1, <2>1, <2>3, <2>4
      DEF Ends, Reads, Stops, Publishes, Restatuses, Steps, Decides
    <3>2. ~ Stands
      BY <1>0, <2>1, OthersLedgerRow DEF Stands
    <3> QED BY <3>1, <3>2, DeliveryStep
  <2>6. /\ delivery'.at = 2
        /\ Current' = Current
        /\ Calls' = Calls
        /\ Handling'
    BY <2>4, <2>5 DEF Patches, Advances, Keeps, Handling, Calls
  <2> QED BY <2>3, <2>4, <2>6 DEF Decides
<1> QED BY <1>3, <1>4

------------------------------------------------------------------------------
(* The invariant and the theorems.                                        *)

(* The strengthened invariant holds before anything has happened.         *)
LEMMA FitsInit ==
  ASSUME OrchestratorAssumption, Init
  PROVE  FInv
<1>1. IInv
  BY InvariantInit
<1>2. \A q \in Queues : Queued(q) = {}
  BY DEF Init, NoQueuedMessages, Queued
<1>3. MessagesFit /\ CreditsFit
  BY <1>2 DEF MessagesFit, CreditsFit
<1>4. RowsFit
  BY DEF Init, RowsFit, RowFits, NoSaga, Waiting, FirstStep,
         OrchestratorAssumption, SagaTypes
<1>5. PollerKnowsExpired /\ StartsFit /\ HandlerFits
  BY DEF Init, PollerKnowsExpired, StartsFit, HandlerFits, IdlePoller, Waiting,
         Handling
<1>6. RefsFit /\ VerdictsFit
  BY DEF Init, RefsFit, Knows, VerdictsFit, NoSaga, NoRow, Waiting, IdlePoller,
         Verdicts
<1> QED BY <1>1, <1>3, <1>4, <1>5, <1>6 DEF FInv

(* And every step keeps it.                                               *)
LEMMA FitsStep ==
  ASSUME OrchestratorAssumption, FInv, [Next]_vars
  PROVE  FInv'
<1>1. /\ IInv /\ RowsFit /\ PollerKnowsExpired /\ MessagesFit /\ StartsFit
      /\ CreditsFit /\ HandlerFits /\ RefsFit /\ VerdictsFit
      /\ TypeOK
  BY DEF FInv, IInv
<1>2. IInv' /\ PollerKnowsExpired' /\ StartsFit'
  BY <1>1, InvariantStep, PollerKnowsStep, StartsFitStep
<1>3. RowsFit' /\ MessagesFit' /\ CreditsFit'
  BY <1>1, RowsFitStep, MessagesFitStep, CreditsFitStep
<1>4. HandlerFits' /\ RefsFit' /\ VerdictsFit'
  BY <1>1, HandlerFitsStep, RefsFitStep, VerdictsFitStep
<1> QED BY <1>2, <1>3, <1>4 DEF FInv

(* The strengthened invariant holds in every reachable state.             *)
THEOREM FInvHolds == Spec => []FInv
<1>1. Init => FInv
  BY OrchestratorAssumption, FitsInit
<1>2. FInv /\ [Next]_vars => FInv'
  BY OrchestratorAssumption, FitsStep
<1> QED BY <1>1, <1>2, PTL DEF Spec

(* A deposit is completed in the ledger only with the provider's reference,*)
(* whatever the poller does to its step in between.                       *)
THEOREM DepositsKeepTheirReference == Spec => []CompletedDepositHasProviderRef
<1>1. FInv => CompletedDepositHasProviderRef
  BY DEF FInv, RefsFit, CompletedDepositHasProviderRef
<1> QED BY <1>1, FInvHolds, PTL

(* Every compensation credit in the wallets' queue is one its saga expects.*)
THEOREM CompensationsAreRecorded == Spec => []CompensationIsRecorded
<1>1. FInv => CompensationIsRecorded
  <2> SUFFICES ASSUME FInv, NEW m \in Queued("wallets.commands"),
                      m.step = "purchase_compensation"
               PROVE  \/ saga[m.txn].status = "compensating"
                      \/ saga[m.txn].outcome = "compensated"
    BY DEF CompensationIsRecorded
  <2>1. /\ TypeOK
        /\ "wallets.commands" \in Queues
    BY DEF FInv, IInv, Queues, CommandQueues
  <2>2. /\ m.txn \in Txn
        /\ m.key \in RoutingKeys("wallets.commands")
        /\ MessageFits(m)
    BY <2>1, HeldIsTyped DEF FInv, MessagesFit, Queued, Held
  <2>3. m.key = "wallet.credit.requested"
    BY <2>2 DEF RoutingKeys, MessageFits
  <2>4. TypeOf[m.txn] = "purchase"
    BY <2>2, <2>3, OrchestratorAssumption
    DEF MessageFits, CreditStep, SagaTypes, OrchestratorAssumption
  <2> QED BY <2>1, <2>3, <2>4 DEF FInv, CreditsFit, PaysBack
<1> QED BY <1>1, FInvHolds, PTL

(* As long as no call has failed, a verdict in the ledger is one whose     *)
(* handler is still at work, or the saga has it too.                      *)
THEOREM VerdictsReachTheirSaga == Spec => []VerdictReachesSaga
<1>1. FInv => VerdictReachesSaga
  BY DEF FInv, VerdictsFit, VerdictReachesSaga
<1> QED BY <1>1, FInvHolds, PTL

------------------------------------------------------------------------------
(***************************************************************************)
(* No answer is handled too early.  The consumer is serial, so while the   *)
(* saga of an answered follow-up command is still at its first step the    *)
(* outcome that leads to the second is at the head of the queue; it stays  *)
(* there as long as it is not rejected, that is, as long as there are no   *)
(* more faults than retries.                                               *)
(***************************************************************************)

(* The second command of a workflow and what answers it.                  *)
FollowUps(type) ==
  IF type = "purchase"
  THEN { "access.grant.requested", "access.granted", "access.grant.conflicted" }
  ELSE { "wallet.credit.requested", "wallet.credited" }

Followed(t) ==
  \E q \in Queues : \E m \in Queued(q) :
    m.txn = t /\ m.key \in FollowUps(TypeOf[t])

(* The outcome that moves the saga on is the one being handled.           *)
TriggerIsFirst(t) ==
  /\ queues[OutcomesQueue] # << >>
  /\ Current.txn = t
  /\ Current.key = Trigger(TypeOf[t])
  /\ TypeOf[t] = "deposit" => ledger[t].status = "pending"
  /\ delivery.at > 0 => delivery.seen.step = FirstStep(TypeOf[t])

AnswersWait ==
  \A t \in Txn \ expired :
    saga[t].step = FirstStep(TypeOf[t]) /\ Followed(t) => TriggerIsFirst(t)

(* Such an outcome has been tried again for faults only.                  *)
AttemptsAreFaults ==
  /\ queues[OutcomesQueue] = << >> => delivery.attempt = 0
  /\ /\ queues[OutcomesQueue] # << >>
     /\ \/ ledger[Current.txn].status = "pending"
        \/ Current.key \in { "wallet.debited", "access.revoked" }
     => delivery.attempt <= faults

(* Until its first write the handler's copy is the row, within the timeout.*)
SeenIsCurrent ==
  /\ delivery.at > 0
  /\ Current.txn \notin expired
  /\ delivery.at = 1 \/ Calls = << >>
  => delivery.seen = saga[Current.txn]

WInv ==
  /\ FInv
  /\ AnswersWait
  /\ AttemptsAreFaults
  /\ SeenIsCurrent

(* The outcome being handled, if there is one, stays.                     *)
Stays == queues[OutcomesQueue] # << >> => Keeps

(* A failed attempt: a fault, or a refusal of the ledger.                 *)
Failed ==
  \/ faults < MaxFaults /\ faults' = faults + 1
  \/ /\ About("patch")
     /\ ~ AcceptsStatus(ledger[Current.txn], NextCall.status)
     /\ UNCHANGED ledger

GoesOn ==
  /\ Stays
  /\ delivery'.attempt \in { 0, delivery.attempt }

Retries ==
  /\ queues[OutcomesQueue] # << >>
  /\ Keeps
  /\ Failed
  /\ delivery'.attempt = delivery.attempt + 1

Acks ==
  /\ Handling
  /\ delivery.at = Len(Calls) + 1
  /\ delivery'.attempt = 0

Rejects ==
  /\ queues[OutcomesQueue] # << >>
  /\ ~ (delivery.attempt < MaxRetries)
  /\ Failed
  /\ delivery'.attempt = 0

(* A step of the system is one of these for the outcome at the head.      *)
LEMMA AttemptStep ==
  ASSUME OrchestratorAssumption, TypeOK, [Next]_vars
  PROVE  GoesOn \/ Retries \/ Acks \/ Rejects
<1>t. /\ queues \in QueueStates
      /\ OutcomesQueue \in Queues
      /\ delivery \in [attempt : 0..MaxRetries, at : 0..4, seen : SagaRows]
  BY DEF TypeOK, QueueStates, Queues, OutcomesQueue
<1>s. ASSUME queues' = queues
      PROVE  Stays
  BY <1>s DEF Stays, Keeps, Current
<1>p. ASSUME NEW msg \in Messages, queues' = Publish(queues, msg)
      PROVE  Stays
  BY <1>t, <1>p, PublishedQueues DEF Stays, Keeps, Current
<1>a. ASSUME Advance
      PROVE  delivery'.attempt = delivery.attempt
  BY <1>a, <1>t DEF Advance
<1>f. ASSUME RetryOrReject(queues), Failed, queues[OutcomesQueue] # << >>
      PROVE  Retries \/ Rejects
  BY <1>f, <1>s DEF RetryOrReject, Retries, Rejects, Stays, Waiting
<1>g. ASSUME NEW msg \in Messages, RetryOrReject(Publish(queues, msg)), Failed,
             queues[OutcomesQueue] # << >>
      PROVE  Retries \/ Rejects
  BY <1>g, <1>p DEF RetryOrReject, Retries, Rejects, Stays, Waiting
<1>1. CASE OtherThreads
  BY <1>1, DeliveryUndisturbed DEF GoesOn, Stays, Keeps
<1>2. CASE Crash
  BY <1>2, <1>s DEF Crash, Waiting, GoesOn
<1>3. CASE ReadSaga \/ PatchTransaction \/ UpdateSagaStep \/ UpdateSagaStatus
  <2>1. queues' = queues
    BY <1>3 DEF ReadSaga, PatchTransaction, UpdateSagaStep, UpdateSagaStatus
  <2>2. delivery'.attempt = delivery.attempt
    BY <1>3, <1>a, <1>t
    DEF ReadSaga, PatchTransaction, UpdateSagaStep, UpdateSagaStatus
  <2> QED BY <1>s, <2>1, <2>2 DEF GoesOn
<1>4. CASE PublishNext
  <2> DEFINE msg == Message(NextCall.status, Current.txn, NextCall.step)
  <2>1. /\ About("publish")
        /\ queues' = Publish(queues, msg)
        /\ Advance
    BY <1>4 DEF PublishNext
  <2>2. msg \in Messages
    BY <2>1, CallIsTyped, CallKinds DEF Message, Messages, About, NextCall
  <2> HIDE DEF msg
  <2> QED BY <1>p, <1>a, <2>1, <2>2 DEF GoesOn
<1>5. CASE AckOutcome
  BY <1>5 DEF AckOutcome, Acks, Waiting
<1>6. CASE PatchRefused \/ LookupFails
  BY <1>6, <1>f DEF PatchRefused, LookupFails, Failed, Fault, About, Handling
<1>7. ASSUME NEW applied \in BOOLEAN, CallFails(applied)
      PROVE  GoesOn \/ Retries \/ Acks \/ Rejects
  <2>1. Failed /\ queues[OutcomesQueue] # << >>
    BY <1>7 DEF CallFails, Failed, Fault, Handling
  <2>2. CASE applied /\ NextCall.op = "publish"
    <3> DEFINE msg == Message(NextCall.status, Current.txn, NextCall.step)
    <3>1. RetryOrReject(Publish(queues, msg))
      BY <1>7, <2>2 DEF CallFails
    <3>2. msg \in Messages
      BY <1>7, <2>2, CallIsTyped, CallKinds DEF CallFails, Message, Messages
    <3> HIDE DEF msg
    <3> QED BY <1>g, <2>1, <3>1, <3>2
  <2>3. CASE ~ (applied /\ NextCall.op = "publish")
    BY <1>7, <1>f, <2>1, <2>3 DEF CallFails
  <2> QED BY <2>2, <2>3
<1> QED BY <1>1, <1>2, <1>3, <1>4, <1>5, <1>6, <1>7
        DEF Next, OtherThreads, ConsumerNext

(* An outcome is not refused before the ledger has a verdict.             *)
LEMMA PendingIsNotRefused ==
  ASSUME OrchestratorAssumption, TypeOK, About("patch"),
         ~ AcceptsStatus(ledger[Current.txn], NextCall.status)
  PROVE  /\ ledger[Current.txn].status # "pending"
         /\ Current.key \notin { "wallet.debited", "access.revoked" }
<1>1. /\ CallOf(TypeOf[Current.txn], Current.key, delivery.seen, delivery.at,
                NextCall)
      /\ NextCall.op = "patch"
  BY CurrentCall DEF About, NextCall
<1>2. Current.key \notin { "wallet.debited", "access.revoked" }
  BY <1>1 DEF CallOf, PatchLedger, PublishCommand, SetStatus, SetStep, Call
<1>3. NextCall.status \in
        { "pending", "timed_out", "completed", "failed", "compensated" }
  BY <1>1 DEF CallOf, PatchLedger, PublishCommand, SetStatus, SetStep, Call
<1>4. ledger[Current.txn].status # "pending"
  BY <1>3 DEF AcceptsStatus, LegalTransition
<1> QED BY <1>2, <1>4

(* The attempts go on being counted by faults.                            *)
LEMMA AttemptsStep ==
  ASSUME OrchestratorAssumption, TypeOK, MessagesFit, AttemptsAreFaults,
         [Next]_vars
  PROVE  AttemptsAreFaults'
<1>0. /\ faults \in Nat
      /\ delivery.attempt \in Nat
      /\ faults' = faults \/ faults' = faults + 1
  BY FaultsGrow DEF TypeOK, OrchestratorAssumption
<1>p. ASSUME queues[OutcomesQueue] # << >>, Keeps,
             \/ ledger'[Current'.txn].status = "pending"
             \/ Current'.key \in { "wallet.debited", "access.revoked" }
      PROVE  /\ \/ ledger[Current.txn].status = "pending"
                \/ Current.key \in { "wallet.debited", "access.revoked" }
             /\ delivery.attempt <= faults
  <2>1. /\ Current.txn \in Txn
        /\ ledger[Current.txn].status # "absent"
    BY <1>p, CurrentFits DEF MessageFits
  <2>2. LedgerMoves(ledger[Current.txn].status, ledger'[Current.txn].status)
    BY <2>1, LedgerStep
  <2>3. \/ ledger[Current.txn].status = "pending"
        \/ Current.key \in { "wallet.debited", "access.revoked" }
    BY <1>p, <2>1, <2>2 DEF Keeps, LedgerMoves, LegalTransition
  <2> QED BY <1>p, <2>3 DEF AttemptsAreFaults
<1>1. CASE delivery'.attempt = 0
  BY <1>0, <1>1 DEF AttemptsAreFaults
<1>2. CASE Stays /\ delivery'.attempt = delivery.attempt
  BY <1>0, <1>p, <1>2 DEF AttemptsAreFaults, Stays, Keeps
<1>3. CASE Retries
  <2>1. CASE faults' = faults + 1
    BY <1>0, <1>p, <1>3, <2>1 DEF AttemptsAreFaults, Retries, Keeps
  <2>2. CASE faults' # faults + 1
    <3>1. /\ About("patch")
          /\ ~ AcceptsStatus(ledger[Current.txn], NextCall.status)
      BY <1>3, <2>2 DEF Retries, Failed
    <3> QED BY <1>p, <1>3, <3>1, PendingIsNotRefused
            DEF AttemptsAreFaults, Retries, Keeps
  <2> QED BY <2>1, <2>2
<1> QED BY <1>1, <1>2, <1>3, AttemptStep DEF GoesOn, Acks, Rejects

(* The copy goes on being the row until the handler's first write.        *)
LEMMA SeenStep ==
  ASSUME OrchestratorAssumption, IInv, PollerKnowsExpired, MessagesFit,
         SeenIsCurrent, [Next]_vars
  PROVE  SeenIsCurrent'
<1>0. /\ TypeOK
      /\ expired \subseteq expired'
      /\ delivery.at > 0 => queues[OutcomesQueue] # << >>
      /\ delivery.at \in 0..4
  BY ExpiredGrows DEF IInv, WritersAreNotOvertaken, TypeOK
<1>1. CASE Ends
  BY <1>1 DEF Ends, SeenIsCurrent
<1>2. CASE Reads
  <2>1. /\ delivery'.seen = saga'[Current.txn]
        /\ Current' = Current
    BY <1>2 DEF Reads, Keeps
  <2> QED BY <2>1 DEF SeenIsCurrent
<1>3. CASE Stands
  <2> SUFFICES ASSUME delivery'.at > 0, (Current.txn \notin expired)',
                      (delivery.at = 1 \/ Calls = << >>)'
               PROVE  (delivery.seen = saga[Current.txn])'
    BY DEF SeenIsCurrent
  <2>1. /\ delivery' = delivery
        /\ delivery.at > 0
        /\ queues[OutcomesQueue] # << >>
        /\ Current' = Current
        /\ Current.txn \notin expired
    BY <1>0, <1>3 DEF Stands, Keeps
  <2>2. Calls' = Calls
    BY <2>1 DEF Calls
  <2>3. delivery.seen = saga[Current.txn]
    BY <2>1, <2>2 DEF SeenIsCurrent
  <2>4. saga'[Current.txn] = saga[Current.txn]
    BY <1>0, <1>3, <2>1, CurrentFits, OthersLeaveRows DEF Stands, MessageFits
  <2> QED BY <2>1, <2>3, <2>4
<1>4. ASSUME About("patch") \/ About("publish") \/ About("status") \/ About("step"),
             delivery'.seen = delivery.seen, Current' = Current,
             delivery'.at # 1
      PROVE  SeenIsCurrent'
  <2>1. Calls' = Calls
    BY <1>4 DEF Calls
  <2>2. Calls # << >>
    <3>1. Len(<< >>) = 0
      OBVIOUS
    <3> QED BY <1>4, <3>1 DEF About
  <2> QED BY <1>4, <2>1, <2>2 DEF SeenIsCurrent
<1>5. CASE Patches \/ Publishes \/ Restatuses \/ Steps
  BY <1>0, <1>4, <1>5
  DEF Patches, Publishes, Restatuses, Steps, Advances, Keeps, About, Handling
<1>6. CASE Stops
  <2>1. Len(Calls) = 2 \/ Len(Calls) = 3
    <3>1. Len(Calls) \in 2..3
      BY <1>0, <1>6, CallIsTyped DEF Stops, About
    <3> QED BY <3>1
  <2>2. /\ About("status")
        /\ delivery'.seen = delivery.seen
        /\ Current' = Current
        /\ delivery'.at = Len(Calls) + 1
    BY <1>6 DEF Stops, Keeps
  <2>3. delivery'.at # 1
    BY <2>1, <2>2
  <2> HIDE DEF Stops
  <2> QED BY <1>4, <2>2, <2>3
<1> QED BY <1>1, <1>2, <1>3, <1>5, <1>6, DeliveryStep

(* The trigger's handler within the timeout, read at the first step: it     *)
(* has calls to make and is not refused.                                  *)
LEMMA TriggerIsHandled ==
  ASSUME OrchestratorAssumption, TypeOK, RowsFit, Handling,
         NEW t \in Txn \ expired, TriggerIsFirst(t)
  PROVE  /\ Len(Calls) \in 2..3
         /\ About("patch") =>
              /\ TypeOf[t] = "deposit"
              /\ NextCall.status = "pending"
<1>1. /\ Current.txn = t
      /\ Current.key = Trigger(TypeOf[t])
      /\ TypeOf[t] \in SagaTypes
      /\ delivery.seen.step = FirstStep(TypeOf[t])
      /\ delivery.seen.status = "running"
  BY DEF TriggerIsFirst, Handling, OrchestratorAssumption, RowsFit, RowFits
<1>2. /\ Len(Calls) \in 2..3
      /\ Calls[1].op = "patch" =>
           TypeOf[t] = "deposit" /\ Calls[1].status = "pending"
      /\ \A n \in 2..Len(Calls) : Calls[n].op # "patch"
  <2> USE DEF Calls, Trigger, FirstStep, HandlerCalls, Expects, PatchLedger,
              PublishCommand, SetStatus, SetStep, Call, TerminalStatuses
  <2>n. /\ \A n \in 2..2 : n = 2
        /\ \A n \in 2..3 : n = 2 \/ n = 3
    OBVIOUS
  <2>1. CASE TypeOf[t] = "purchase"
    BY <1>1, <2>1, <2>n DEF PublishAccessGrant
  <2>2. CASE TypeOf[t] = "refund"
    BY <1>1, <2>2, <2>n DEF PublishRefundCredit
  <2>3. CASE TypeOf[t] = "deposit"
    BY <1>1, <2>3, <2>n DEF RecordProviderSuccess
  <2> QED BY <1>1, <2>1, <2>2, <2>3 DEF SagaTypes
<1>3. About("patch") => delivery.at = 1
  BY <1>2 DEF About
<1> QED BY <1>2, <1>3 DEF About, NextCall

(* A follow-up on its way, or published now, has the trigger at the head. *)
LEMMA FollowUpWaits ==
  ASSUME OrchestratorAssumption, TypeOK, MessagesFit, HandlerFits,
         AnswersWait, [Next]_vars, NEW t \in Txn \ expired,
         saga[t].step = FirstStep(TypeOf[t]), Followed(t)'
  PROVE  TriggerIsFirst(t)
<1>1. PICK q \in Queues : \E m \in Held(queues', q) :
        m.txn = t /\ m.key \in FollowUps(TypeOf[t])
  BY DEF Followed, Queued, Held
<1>2. PICK m \in Held(queues', q) : m.txn = t /\ m.key \in FollowUps(TypeOf[t])
  BY <1>1
<1>f. Followed(t) => TriggerIsFirst(t)
  BY DEF AnswersWait
<1>3. CASE m \in Held(queues, q)
  BY <1>2, <1>3, <1>f DEF Followed, Queued, Held
<1>4. ASSUME NEW u \in Txn, m = FirstCommand(TypeOf[u], u)
      PROVE  FALSE
  <2>1. TypeOf[u] \in SagaTypes
    BY DEF OrchestratorAssumption
  <2> QED BY <1>2, <1>4, <2>1 DEF FirstCommand, Message, FollowUps, SagaTypes
<1>5. ASSUME About("publish"),
             m = Message(NextCall.status, Current.txn, NextCall.step)
      PROVE  TriggerIsFirst(t)
  <2>1. /\ CallOf(TypeOf[Current.txn], Current.key, delivery.seen, delivery.at,
                  NextCall)
        /\ NextCall.op = "publish"
        /\ Handling
        /\ Calls # << >>
    <3>1. Len(<< >>) = 0
      OBVIOUS
    <3> QED BY <1>5, <3>1, CurrentCall DEF About, NextCall
  <2>2. /\ Current.txn = t
        /\ NextCall.status \in FollowUps(TypeOf[t])
    BY <1>2, <1>5 DEF Message
  <2>3. /\ Current.key = Trigger(TypeOf[t])
        /\ delivery.seen.step = FirstStep(TypeOf[t])
        /\ TypeOf[t] = "deposit" =>
             Current.key = "provider.charge.succeeded" /\ delivery.at > 1
    BY <2>1, <2>2 DEF CallOf, PatchLedger, PublishCommand, SetStatus, SetStep,
                      Call, FollowUps, Trigger, FirstStep
  <2>4. TypeOf[t] = "deposit" => ledger[t].status = "pending"
    BY <2>1, <2>2, <2>3 DEF HandlerFits
  <2> QED BY <2>1, <2>2, <2>3, <2>4 DEF TriggerIsFirst, Handling
<1>6. ASSUME NEW p \in CommandQueues, queues[p] # << >>,
             NEW key \in OutcomeKeys \cap Answers(Head(queues[p]).key),
             m = Message(key, Head(queues[p]).txn, NoStep)
      PROVE  TriggerIsFirst(t)
  <2>1. /\ p \in Queues
        /\ Head(queues[p]) \in Held(queues, p)
    BY <1>6, HeadIsHeld DEF Queues
  <2>2. key \in FollowUps(TypeOf[t]) /\ Head(queues[p]).txn = t
    BY <1>2, <1>6 DEF Message
  <2>3. Head(queues[p]).key \in CommandKeys
    <3>1. Head(queues[p]).key \in RoutingKeys(p)
      BY <2>1 DEF MessagesFit, Queued, Held
    <3> QED BY <3>1 DEF RoutingKeys, CommandKeys, CommandQueues
  <2>4. Head(queues[p]).key \in FollowUps(TypeOf[t])
    BY <1>6, <2>2, <2>3 DEF Answers, CommandKeys, FollowUps, OutcomeKeys
  <2> QED BY <1>f, <2>1, <2>2, <2>4 DEF Followed, Queued, Held
<1> QED BY <1>2, <1>3, <1>4, <1>5, <1>6, QueueStep DEF Sent, Commanded

(* The trigger stays at the head until the saga has left its first step.  *)
LEMMA TriggerStays ==
  ASSUME MaxFaults <= MaxRetries, OrchestratorAssumption, IInv, RowsFit,
         PollerKnowsExpired, MessagesFit, HandlerFits, AttemptsAreFaults,
         [Next]_vars, NEW t \in Txn \ expired,
         saga[t].step = FirstStep(TypeOf[t]), TriggerIsFirst(t)
  PROVE  TriggerIsFirst(t)'
<1>0. /\ TypeOK
      /\ faults \in Nat
      /\ delivery.attempt \in Nat
      /\ MaxRetries \in Nat
      /\ MaxFaults \in Nat
  BY DEF IInv, TypeOK, OrchestratorAssumption
<1>1. /\ queues[OutcomesQueue] # << >>
      /\ Current.txn = t
      /\ Current.key = Trigger(TypeOf[t])
      /\ TypeOf[t] \in SagaTypes
  BY DEF TriggerIsFirst, OrchestratorAssumption
<1>2. delivery.attempt <= faults
  <2>1. \/ ledger[Current.txn].status = "pending"
        \/ Current.key \in { "wallet.debited", "access.revoked" }
    BY <1>1 DEF TriggerIsFirst, Trigger, SagaTypes
  <2> QED BY <1>1, <2>1 DEF AttemptsAreFaults
<1>3. ~ Acks
  <2> SUFFICES ASSUME Acks
               PROVE  FALSE
    OBVIOUS
  <2>1. Len(Calls) \in 2..3 /\ Handling /\ delivery.at = Len(Calls) + 1
    BY <1>0, TriggerIsHandled DEF Acks
  <2>2. Calls # << >>
    <3>1. Len(<< >>) = 0
      OBVIOUS
    <3>2. \A n \in 2..3 : n # 0
      OBVIOUS
    <3> QED BY <2>1, <3>1, <3>2
  <2> QED BY <1>1, <2>1, <2>2 DEF HandlerFits
<1>4. ~ (About("patch") /\ ~ AcceptsStatus(ledger[Current.txn], NextCall.status))
  <2> SUFFICES ASSUME About("patch")
               PROVE  AcceptsStatus(ledger[Current.txn], NextCall.status)
    OBVIOUS
  <2>1. TypeOf[t] = "deposit" /\ NextCall.status = "pending"
    BY <1>0, TriggerIsHandled DEF About
  <2> QED BY <1>1, <2>1 DEF TriggerIsFirst, AcceptsStatus
<1>5. ~ Rejects
  BY <1>0, <1>2, <1>4 DEF Rejects, Failed
<1>6. Keeps
  BY <1>1, <1>3, <1>5, AttemptStep, <1>0 DEF GoesOn, Retries, Stays
<1>7. TypeOf[t] = "deposit" => ledger'[t].status = "pending"
  <2> SUFFICES ASSUME TypeOf[t] = "deposit"
               PROVE  ledger'[t].status = "pending"
    OBVIOUS
  <2>1. ledger[t].status = "pending"
    BY DEF TriggerIsFirst
  <2>2. ~ LedgerRegistered(t) /\ ~ LedgerTimedOut(t)
    BY <2>1 DEF LedgerRegistered, LedgerTimedOut, PollerKnowsExpired
  <2>3. CASE LedgerPatched(t)
    <3>1. NextCall.status = "pending"
      BY <1>0, <2>3, TriggerIsHandled DEF LedgerPatched, About
    <3> QED BY <2>3, <3>1 DEF LedgerPatched, WithStatus
  <2> QED BY <1>0, <2>1, <2>2, <2>3, LedgerRowStep
<1>8. delivery'.at > 0 => delivery'.seen.step = FirstStep(TypeOf[t])
  <2>1. CASE Ends
    BY <2>1 DEF Ends
  <2>2. CASE Reads
    BY <1>1, <2>2 DEF Reads
  <2>3. CASE Stands
    BY <2>3 DEF Stands, TriggerIsFirst
  <2>4. CASE /\ delivery.at > 0
             /\ delivery'.seen = delivery.seen
    BY <2>4 DEF TriggerIsFirst
  <2> QED BY <2>1, <2>2, <2>3, <2>4, DeliveryStep
          DEF Patches, Publishes, Restatuses, Steps, Stops, Advances, About,
              Handling
<1> QED BY <1>1, <1>6, <1>7, <1>8 DEF Keeps, TriggerIsFirst

(* So the answers go on waiting for it.                                   *)
LEMMA AnswersWaitStep ==
  ASSUME MaxFaults <= MaxRetries, OrchestratorAssumption, FInv, AnswersWait,
         AttemptsAreFaults, [Next]_vars
  PROVE  AnswersWait'
<1>0. /\ IInv /\ RowsFit /\ PollerKnowsExpired /\ MessagesFit /\ StartsFit
      /\ HandlerFits /\ TypeOK /\ WritersAreNotOvertaken
  BY DEF FInv, IInv
<1> SUFFICES ASSUME NEW t \in Txn, t \notin expired',
                    saga'[t].step = FirstStep(TypeOf[t]), Followed(t)'
             PROVE  TriggerIsFirst(t)'
  BY DEF AnswersWait
<1>1. t \in Txn \ expired /\ TypeOf[t] \in SagaTypes
  BY ExpiredGrows DEF OrchestratorAssumption
<1>2. saga'[t] = saga[t]
  <2>1. ~ SagaCreated(t)
    <3>1. PICK q \in Queues : \E m \in Held(queues', q) : m.txn = t
      BY DEF Followed, Queued, Held
    <3>2. PICK m \in Held(queues', q) : m.txn = t
      BY <3>1
    <3>3. saga[t].status # "absent"
      <4>1. CASE m \in Held(queues, q)
        BY <1>0, <3>2, <4>1 DEF MessagesFit, MessageFits, Queued, Held
      <4>2. CASE Sent(m)
        BY <1>0, <3>2, <4>2, SentFits DEF MessageFits
      <4> QED BY <1>0, <3>2, <4>1, <4>2, QueueStep
    <3> QED BY <3>3 DEF SagaCreated
  <2>2. ~ SagaTimedOut(t)
    BY <1>0, <1>1 DEF SagaTimedOut, PollerKnowsExpired
  <2>3. ~ SagaRestatused(t)
    <3> SUFFICES ASSUME SagaRestatused(t)
                 PROVE  saga'[t].step # FirstStep(TypeOf[t])
      OBVIOUS
    <3>1. /\ saga'[t].step = NextCall.step
          /\ NextCall.op = "status"
          /\ CallOf(TypeOf[t], Current.key, delivery.seen, delivery.at, NextCall)
      BY <1>0, CurrentCall DEF SagaRestatused, About, NextCall
    <3> QED BY <1>1, <3>1
            DEF CallOf, PatchLedger, PublishCommand, SetStatus, SetStep, Call,
                FirstStep, SagaTypes
  <2>4. ~ SagaStepped(t)
    <3> SUFFICES ASSUME SagaStepped(t)
                 PROVE  saga'[t].step # FirstStep(TypeOf[t])
      OBVIOUS
    <3>1. /\ saga[t] \in SagaRows
          /\ NextCall.op = "step"
          /\ CallOf(TypeOf[t], Current.key, delivery.seen, delivery.at, NextCall)
      BY <1>0, CurrentCall DEF TypeOK, SagaStepped, About, NextCall
    <3>2. saga'[t].step = NextCall.step
      BY <3>1 DEF SagaStepped, SagaRows
    <3> QED BY <1>1, <3>1, <3>2
            DEF CallOf, PatchLedger, PublishCommand, SetStatus, SetStep, Call,
                FirstStep, SagaTypes
  <2> QED BY <1>0, <2>1, <2>2, <2>3, <2>4, SagaRowStep
<1>3. TriggerIsFirst(t)
  BY <1>0, <1>1, <1>2, FollowUpWaits
<1> QED BY <1>0, <1>1, <1>2, <1>3, TriggerStays

(* The invariant for at most as many faults as retries.                   *)
LEMMA WaitInit ==
  ASSUME OrchestratorAssumption, Init
  PROVE  WInv
<1>1. FInv
  BY FitsInit
<1>2. \A q \in Queues : Queued(q) = {}
  BY DEF Init, NoQueuedMessages, Queued
<1>3. AnswersWait
  BY <1>2 DEF AnswersWait, Followed
<1>4. AttemptsAreFaults /\ SeenIsCurrent
  BY DEF Init, AttemptsAreFaults, SeenIsCurrent, Waiting, NoQueuedMessages
<1> QED BY <1>1, <1>3, <1>4 DEF WInv

(* And every step keeps it.                                               *)
LEMMA WaitStep ==
  ASSUME MaxFaults <= MaxRetries, OrchestratorAssumption, WInv, [Next]_vars
  PROVE  WInv'
BY FitsStep, AnswersWaitStep, AttemptsStep, SeenStep DEF WInv, FInv, IInv

(* No answer is handled before the step that expects it is in the row, for *)
(* any number of transactions, when there are no more faults than retries.*)
THEOREM AnswersFindTheirStep ==
  MaxFaults <= MaxRetries /\ Spec => []AnswerFindsItsStep
<1>1. MaxFaults <= MaxRetries /\ Init => WInv
  BY OrchestratorAssumption, WaitInit
<1>2. MaxFaults <= MaxRetries /\ WInv /\ [Next]_vars => WInv'
  BY OrchestratorAssumption, WaitStep
<1>3. WInv => AnswerFindsItsStep
  <2> SUFFICES ASSUME WInv, Handling, Current.txn \notin expired,
                      delivery.seen.step \in
                        LeftBehind(TypeOf[Current.txn], Current.key)
               PROVE  FALSE
    BY DEF AnswerFindsItsStep
  <2> DEFINE t == Current.txn
  <2>0. /\ TypeOK /\ MessagesFit /\ CreditsFit /\ SeenIsCurrent /\ AnswersWait
        /\ RowsFit
    BY DEF WInv, FInv, IInv
  <2>1. /\ t \in Txn
        /\ TypeOf[t] \in SagaTypes
        /\ Current \in Held(queues, OutcomesQueue)
        /\ OutcomesQueue \in Queues
    BY <2>0, OrchestratorAssumption, CurrentFits
    DEF Handling, OrchestratorAssumption, Queues
  <2>2. Calls = << >>
    <3> SUFFICES ASSUME Calls # << >>
                 PROVE  FALSE
      OBVIOUS
    <3>1. 1 \in 1..Len(Calls)
      <4>1. \/ Decides(Calls) \/ Continues(Calls) \/ Compensates(Calls)
            \/ Records(Calls)
        BY <2>1, HandlerShape DEF Calls
      <4> QED BY <4>1 DEF Decides, Continues, Compensates, Records
    <3>2. CallOf(TypeOf[t], Current.key, delivery.seen, 1, Calls[1])
      BY <2>1, <3>1, HandlerTable DEF Calls
    <3> QED BY <3>2 DEF CallOf, LeftBehind
  <2>3. delivery.seen = saga[t]
    BY <2>0, <2>2 DEF SeenIsCurrent, Handling
  <2>4. CASE TypeOf[t] = "purchase" /\ Current.key = "wallet.credited"
    <3>1. PaysBack(t)
      BY <2>0, <2>1, <2>4 DEF CreditsFit, Queued, Held
    <3>2. RowFits(t, saga[t])
      BY <2>0, <2>1 DEF RowsFit
    <3>3. saga[t].step \in { "purchase_debit", "purchase_grant" }
      BY <2>3, <2>4 DEF LeftBehind
    <3> QED BY <3>1, <3>2, <3>3 DEF PaysBack, RowFits
  <2>5. CASE ~ (TypeOf[t] = "purchase" /\ Current.key = "wallet.credited")
    <3>1. /\ saga[t].step = FirstStep(TypeOf[t])
          /\ Current.key \in FollowUps(TypeOf[t])
          /\ Current.key # Trigger(TypeOf[t])
      BY <2>1, <2>3, <2>5 DEF LeftBehind, FirstStep, FollowUps, Trigger, SagaTypes
    <3>2. Followed(t)
      BY <2>1, <3>1 DEF Followed, Queued, Held
    <3> QED BY <2>0, <2>1, <3>1, <3>2 DEF AnswersWait, TriggerIsFirst
  <2> QED BY <2>4, <2>5
<1>4. MaxFaults <= MaxRetries /\ Spec => []WInv
  <2>1. CASE MaxFaults <= MaxRetries
    <3>1. Init => WInv
      BY <1>1, <2>1
    <3>2. WInv /\ [Next]_vars => WInv'
      BY <1>2, <2>1
    <3> QED BY <3>1, <3>2, PTL DEF Spec
  <2>2. CASE ~ (MaxFaults <= MaxRetries)
    BY <2>2
  <2> QED BY <2>1, <2>2
<1> QED BY <1>3, <1>4, PTL

------------------------------------------------------------------------------
(***************************************************************************)
(* No running saga is stranded.  A message leaves its queue only when it   *)
(* is answered or, for an outcome, handled to the end; what is left to     *)
(* show is that the handler of an awaited outcome does not end before the  *)
(* saga has moved on, and has then published what it is to wait for next.  *)
(***************************************************************************)

(* The second step of a workflow.                                         *)
SecondStep(type) ==
  CASE type = "purchase" -> "purchase_grant"
    [] type = "deposit" -> "deposit_credit"
    [] type = "refund" -> "refund_credit"

RunningSteps ==
  \A t \in Txn :
    saga[t].status = "running" =>
      saga[t].step \in { FirstStep(TypeOf[t]), SecondStep(TypeOf[t]) }

(* The saga, as its row is now, has use for an outcome.                   *)
Wants(t, key) == HandlerCalls(TypeOf[t], key, saga[t]) # << >>

(* The verdict that the handler of an outcome gives to the ledger.        *)
DecidedBy(type, key) ==
  CASE key \in { "wallet.debit.rejected", "access.revoke.rejected",
                 "provider.charge.failed" } -> "failed"
    [] key = "access.granted" -> "completed"
    [] key = "wallet.credited" ->
         IF type = "purchase" THEN "compensated" ELSE "completed"
    [] OTHER -> "none"

(* Within the timeout the ledger does not know of one.                    *)
LedgerInTime ==
  \A t \in Txn \ expired :
    ledger[t].status \notin { "timed_out", "reconciliation_required" }

(* A verdict that the saga does not have yet is being handled, and goes on *)
(* being wanted until it has it.                                          *)
VerdictIsCarried ==
  \A t \in Txn \ expired :
    ledger[t].status \in Verdicts /\ saga[t].status \notin TerminalStatuses =>
      /\ queues[OutcomesQueue] # << >>
      /\ Current.txn = t
      /\ ledger[t].status = DecidedBy(TypeOf[t], Current.key)
      /\ Wants(t, Current.key)

(* A handler that has made its calls is not needed again.                 *)
DoneIsDone ==
  /\ Handling
  /\ Calls # << >>
  /\ delivery.at = Len(Calls) + 1
  /\ Current.txn \notin expired
  => ~ Wants(Current.txn, Current.key)

(* It has published before it makes its last call.                        *)
FollowUpIsOut ==
  /\ Handling
  /\ Calls # << >>
  /\ delivery.at >= Len(Calls)
  /\ Current.txn \notin expired
  /\ Current.key = Trigger(TypeOf[Current.txn])
  => Followed(Current.txn)

(* An outcome of an open saga has been tried again for faults only.       *)
OpenAttemptsAreFaults ==
  /\ queues[OutcomesQueue] # << >>
  /\ Current.txn \notin expired
  /\ saga[Current.txn].status \notin TerminalStatuses
  => delivery.attempt <= faults

OInv ==
  /\ WInv
  /\ RunningSteps
  /\ LedgerInTime
  /\ VerdictIsCarried
  /\ DoneIsDone
  /\ FollowUpIsOut
  /\ OpenAttemptsAreFaults
  /\ OpenSagaIsDriven

------------------------------------------------------------------------------
(* What stays in a queue.                                                 *)

LEMMA PublishedStays ==
  ASSUME NEW qs \in QueueStates, NEW msg \in Messages, NEW q \in Queues
  PROVE  /\ \A m \in Held(qs, q) : m \in Held(Publish(qs, msg), q)
         /\ msg.key \in RoutingKeys(q) => msg \in Held(Publish(qs, msg), q)
<1>1. qs[q] \in Seq(Messages)
  BY DEF QueueStates
<1>2. /\ \A i \in DOMAIN qs[q] : /\ i \in DOMAIN Append(qs[q], msg)
                                 /\ Append(qs[q], msg)[i] = qs[q][i]
      /\ Len(qs[q]) + 1 \in DOMAIN Append(qs[q], msg)
      /\ Append(qs[q], msg)[Len(qs[q]) + 1] = msg
  BY <1>1
<1>3. CASE msg.key \in RoutingKeys(q)
  <2>1. Publish(qs, msg)[q] = Append(qs[q], msg)
    BY <1>3 DEF Publish
  <2> QED BY <1>2, <2>1 DEF Held
<1>4. CASE msg.key \notin RoutingKeys(q)
  <2>1. Publish(qs, msg)[q] = qs[q]
    BY <1>4 DEF Publish
  <2> QED BY <1>4, <2>1 DEF Held
<1> QED BY <1>3, <1>4

(* All but the head is in the tail.                                       *)
LEMMA TailStays ==
  ASSUME NEW s \in Seq(Messages), s # << >>, NEW i \in DOMAIN s, i # 1
  PROVE  i - 1 \in DOMAIN Tail(s) /\ Tail(s)[i - 1] = s[i]
OBVIOUS

(* Acknowledging or rejecting takes the head away and nothing else.       *)
LEMMA RemovedStays ==
  ASSUME NEW qs \in QueueStates, NEW p \in Queues, qs[p] # << >>,
         p # DeadLetterQueue,
         NEW q \in Queues, NEW m \in Held(qs, q), q = p => m # Head(qs[p])
  PROVE  m \in Held(Ack(qs, p), q) /\ m \in Held(Reject(qs, p), q)
<1>1. qs[q] \in Seq(Messages)
  BY DEF QueueStates
<1>2. CASE p = q
  <2>1. Ack(qs, p)[q] = Tail(qs[q]) /\ Reject(qs, p)[q] = Tail(qs[q])
    BY <1>2 DEF Ack, Reject, QueueStates
  <2>2. PICK i \in DOMAIN qs[q] : m = qs[q][i]
    BY DEF Held
  <2>3. i # 1
    BY <1>1, <1>2, <2>2
  <2>4. i - 1 \in DOMAIN Tail(qs[q]) /\ Tail(qs[q])[i - 1] = m
    BY <1>1, <1>2, <2>2, <2>3, TailStays
  <2> QED BY <2>1, <2>4 DEF Held
<1>3. CASE p # q
  <2>1. ~ IsBound(DeadLetterQueue)
    BY DEF IsBound, RoutingKeys, DeadLetterQueue
  <2>2. Ack(qs, p)[q] = qs[q] /\ Reject(qs, p)[q] = qs[q]
    BY <1>3, <2>1 DEF Ack, Reject, QueueStates
  <2> QED BY <2>2 DEF Held
<1> QED BY <1>2, <1>3

(* Unless messages are given up on, a message stays in its queue, or it is *)
(* the outcome at the head, or its answer is there instead.               *)
Remains(q, m) ==
  \/ m \in Held(queues', q)
  \/ q = OutcomesQueue /\ queues[q] # << >> /\ m = Current
  \/ /\ q \in CommandQueues
     /\ \E key \in Answers(m.key) : \E a \in Held(queues', OutcomesQueue) :
          a.txn = m.txn /\ a.key = key

LEMMA MessagesRemain ==
  ASSUME OrchestratorAssumption, TypeOK, "rejection" \notin Faults, [Next]_vars,
         NEW q \in Queues, NEW m \in Held(queues, q)
  PROVE  Remains(q, m)
<1>t. /\ queues \in QueueStates
      /\ OutcomesQueue \in Queues
      /\ OutcomesQueue # DeadLetterQueue
      /\ RoutingKeys(OutcomesQueue) = OutcomeKeys
      /\ \A p \in CommandQueues :
           p \in Queues /\ p # DeadLetterQueue /\ p # OutcomesQueue
  BY DEF TypeOK, QueueStates, Queues, CommandQueues, OutcomesQueue,
         DeadLetterQueue, RoutingKeys
<1>c. ASSUME NEW msg, Sent(msg)
      PROVE  msg \in Messages
  BY <1>c, SentIsTyped
<1>s. ASSUME queues' = queues
      PROVE  Remains(q, m)
  BY <1>s DEF Remains
<1>p. ASSUME NEW msg, Sent(msg), queues' = Publish(queues, msg)
      PROVE  Remains(q, m)
  BY <1>t, <1>p, <1>c, PublishedStays DEF Remains
<1>r. ASSUME NEW qs \in QueueStates, m \in Held(qs, q),
             queues[OutcomesQueue] # << >>,
             qs[OutcomesQueue] # << >>, Head(qs[OutcomesQueue]) = Current,
             queues' \in { qs, Ack(qs, OutcomesQueue), Reject(qs, OutcomesQueue) }
      PROVE  Remains(q, m)
  <2>1. CASE q = OutcomesQueue /\ m = Current
    BY <1>r, <2>1 DEF Remains
  <2>2. CASE ~ (q = OutcomesQueue /\ m = Current)
    BY <1>t, <1>r, <2>2, RemovedStays DEF Remains
  <2> QED BY <2>1, <2>2
<1>v. ASSUME RetryOrReject(queues), queues[OutcomesQueue] # << >>
      PROVE  Remains(q, m)
  BY <1>t, <1>r, <1>v DEF RetryOrReject, Current
<1>w. ASSUME NEW msg, Sent(msg), RetryOrReject(Publish(queues, msg)),
             queues[OutcomesQueue] # << >>
      PROVE  Remains(q, m)
  <2> DEFINE sent == Publish(queues, msg)
  <2>1. /\ sent \in QueueStates
        /\ sent[OutcomesQueue] # << >>
        /\ Head(sent[OutcomesQueue]) = Current
    BY <1>t, <1>c, <1>w, PublishedQueues DEF Current
  <2>2. m \in Held(sent, q)
    BY <1>t, <1>c, <1>w, PublishedStays
  <2>3. queues' = sent \/ queues' = Reject(sent, OutcomesQueue)
    BY <1>w DEF RetryOrReject
  <2> HIDE DEF sent
  <2> QED BY <1>r, <1>w, <2>1, <2>2, <2>3
<1>1. CASE StartNext
  <2>1. \/ queues' = queues
        \/ \E t \in Txn : /\ start[t] = "dispatch"
                          /\ queues' = Publish(queues, FirstCommand(TypeOf[t], t))
    BY <1>1 DEF StartNext, Precheck, RegisterTransaction, CreateSaga, Dispatch,
                Finalize, StartFails
  <2> QED BY <1>s, <1>p, <2>1 DEF Sent, Commanded
<1>2. CASE PollerNext \/ Crash \/ UNCHANGED vars
  BY <1>2, <1>s DEF PollerNext, Expire, ListTimedOut, PatchTimedOut,
                    MarkTimedOut, PollerCallFails, Crash, vars
<1>3. CASE ConsumerNext
  <2>1. CASE ReadSaga \/ PatchTransaction \/ UpdateSagaStatus \/ UpdateSagaStep
    BY <1>s, <2>1 DEF ReadSaga, PatchTransaction, UpdateSagaStatus,
                      UpdateSagaStep
  <2>2. CASE PublishNext
    BY <1>p, <2>2 DEF PublishNext, Sent, Commanded
  <2>3. CASE AckOutcome
    BY <1>t, <1>r, <2>3 DEF AckOutcome, Handling, Current
  <2>4. CASE PatchRefused \/ LookupFails
    BY <1>v, <2>4 DEF PatchRefused, LookupFails, About, Handling
  <2>5. ASSUME NEW applied \in BOOLEAN, CallFails(applied)
        PROVE  Remains(q, m)
    <3>1. CASE applied /\ NextCall.op = "publish"
      <4> DEFINE msg == Message(NextCall.status, Current.txn, NextCall.step)
      <4>1. Sent(msg)
        BY <2>5, <3>1 DEF CallFails, Sent, Commanded, About, NextCall
      <4>2. /\ RetryOrReject(Publish(queues, msg))
            /\ queues[OutcomesQueue] # << >>
        BY <2>5, <3>1 DEF CallFails, Handling
      <4> HIDE DEF msg
      <4> QED BY <1>w, <4>1, <4>2
    <3>2. CASE ~ (applied /\ NextCall.op = "publish")
      BY <1>v, <2>5, <3>2 DEF CallFails, Handling
    <3> QED BY <3>1, <3>2
  <2> QED BY <1>3, <2>1, <2>2, <2>3, <2>4, <2>5 DEF ConsumerNext
<1>4. ASSUME NEW p \in CommandQueues, NEW key \in OutcomeKeys,
             Answer(p, key) \/ AnswerUnacked(p, key)
      PROVE  Remains(q, m)
  <2> DEFINE msg == Message(key, Head(queues[p]).txn, NoStep)
             sent == Publish(queues, msg)
  <2>1. /\ queues[p] # << >>
        /\ key \in Answers(Head(queues[p]).key)
        /\ queues' = Ack(sent, p) \/ queues' = sent
    BY <1>4 DEF Answer, AnswerUnacked
  <2>2. Sent(msg) /\ msg.key = key /\ msg.txn = Head(queues[p]).txn
    BY <2>1 DEF Sent, Message
  <2> HIDE DEF msg
  <2>3. /\ sent \in QueueStates
        /\ sent[p] # << >>
        /\ Head(sent[p]) = Head(queues[p])
    BY <1>t, <1>c, <2>1, <2>2, PublishedQueues
  <2>4. m \in Held(sent, q) /\ msg \in Held(sent, OutcomesQueue)
    BY <1>t, <1>c, <2>2, PublishedStays
  <2> HIDE DEF sent
  <2>5. msg \in Held(queues', OutcomesQueue)
    BY <1>t, <2>1, <2>3, <2>4, RemovedStays
  <2>6. CASE q = p /\ m = Head(queues[p])
    BY <2>1, <2>2, <2>5, <2>6 DEF Remains
  <2>7. CASE ~ (q = p /\ m = Head(queues[p]))
    BY <1>t, <2>1, <2>3, <2>4, <2>7, RemovedStays DEF Remains
  <2> QED BY <2>6, <2>7
<1>5. CASE ParticipantNext
  BY <1>5, <1>4 DEF ParticipantNext, GiveUp, Fault
<1> QED BY <1>1, <1>2, <1>3, <1>5 DEF Next

------------------------------------------------------------------------------
(* What the saga has use for, and what is not refused.                    *)

(* It has use for the answer it waits for.                                *)
LEMMA AnswerIsWanted ==
  ASSUME OrchestratorAssumption, RunningSteps, NEW t \in Txn,
         saga[t].status = "running",
         NEW key \in Answers(StepCommand(saga[t].step))
  PROVE  Wants(t, key)
<1>1. /\ TypeOf[t] \in SagaTypes
      /\ saga[t].step \in { FirstStep(TypeOf[t]), SecondStep(TypeOf[t]) }
  BY DEF OrchestratorAssumption, RunningSteps
<1>2. \A a, b : << a, b >> # << >>
  OBVIOUS
<1>3. \A a, b, c : << a, b, c >> # << >>
  OBVIOUS
<1> USE <1>1, <1>2, <1>3 DEF Wants, HandlerCalls, Expects, TerminalStatuses,
        FirstStep, SecondStep, StepCommand, Answers
<1>4. CASE TypeOf[t] = "purchase"
  BY <1>4 DEF PublishAccessGrant, FailPurchaseDebit, CompletePurchase,
              StartPurchaseCompensation
<1>5. CASE TypeOf[t] = "refund"
  BY <1>5 DEF PublishRefundCredit, FailRefundRevoke, CompleteRefund
<1>6. CASE TypeOf[t] = "deposit"
  BY <1>6 DEF RecordProviderSuccess, FailProviderCharge, CompleteDeposit
<1> QED BY <1>4, <1>5, <1>6 DEF SagaTypes

(* A handler writes the verdict that its event stands for, in its first   *)
(* call, or keeps a deposit pending.                                      *)
LEMMA PatchIsVerdict ==
  ASSUME OrchestratorAssumption, TypeOK, RowsFit, About("patch"),
         Current.txn \notin expired
  PROVE  /\ delivery.at = 1
         /\ \/ NextCall.status = "pending"
            \/ /\ NextCall.status \in Verdicts
               /\ NextCall.status = DecidedBy(TypeOf[Current.txn], Current.key)
         /\ NextCall.status = "pending" =>
              DecidedBy(TypeOf[Current.txn], Current.key) = "none"
<1> DEFINE t == Current.txn
<1>1. /\ CallOf(TypeOf[t], Current.key, delivery.seen, delivery.at, NextCall)
      /\ NextCall.op = "patch"
      /\ Handling
      /\ t \in Txn
      /\ TypeOf[t] \in SagaTypes
  BY CurrentCall DEF About, NextCall
<1>2. delivery.seen.step = FirstStep(TypeOf[t]) => delivery.seen.status = "running"
  BY <1>1 DEF RowsFit, RowFits, Handling
<1> QED BY <1>1, <1>2
        DEF CallOf, PatchLedger, PublishCommand, SetStatus, SetStep, Call,
            DecidedBy, Verdicts, FirstStep

(* Within the timeout no PATCH is refused.                                *)
LEMMA PatchIsAccepted ==
  ASSUME OrchestratorAssumption, TypeOK, RowsFit, MessagesFit,
         WritersAreNotOvertaken, LedgerInTime, VerdictIsCarried,
         About("patch"), Current.txn \notin expired
  PROVE  AcceptsStatus(ledger[Current.txn], NextCall.status)
<1> DEFINE t == Current.txn
<1>1. /\ Handling
      /\ delivery.at \in 1..Len(Calls)
      /\ t \in Txn
      /\ ledger[t].status # "absent"
      /\ ledger[t].status \in LedgerStatuses
      /\ saga[t].status \notin TerminalStatuses
  <2>1. t \in Txn /\ ledger[t].status # "absent"
    BY CurrentFits DEF About, Handling, MessageFits
  <2>2. ledger[t] \in LedgerRows
    BY <2>1 DEF TypeOK
  <2> QED BY <2>1, <2>2 DEF About, WritersAreNotOvertaken, LedgerRows
<1>2. ledger[t].status = "pending" \/ ledger[t].status \in Verdicts
  BY <1>1 DEF LedgerInTime, LedgerStatuses, Verdicts
<1>3. CASE ledger[t].status = "pending"
  BY <1>3, PatchIsVerdict DEF AcceptsStatus, LegalTransition, Verdicts
<1>4. CASE ledger[t].status \in Verdicts
  <2>1. ledger[t].status = DecidedBy(TypeOf[t], Current.key)
    BY <1>1, <1>4 DEF VerdictIsCarried
  <2> QED BY <1>1, <1>4, <2>1, PatchIsVerdict DEF AcceptsStatus, Verdicts
<1> QED BY <1>2, <1>3, <1>4

(* An outcome of an open saga within its timeout is not rejected.         *)
LEMMA OpenIsNotRejected ==
  ASSUME MaxFaults <= MaxRetries, OrchestratorAssumption, OInv,
         queues[OutcomesQueue] # << >>, Current.txn \notin expired,
         saga[Current.txn].status \notin TerminalStatuses
  PROVE  ~ Rejects
<1>1. /\ TypeOK /\ RowsFit /\ MessagesFit /\ WritersAreNotOvertaken
      /\ LedgerInTime /\ VerdictIsCarried
  BY DEF OInv, WInv, FInv, IInv
<1>2. delivery.attempt <= faults
  BY DEF OInv, OpenAttemptsAreFaults
<1>3. ~ (About("patch") /\ ~ AcceptsStatus(ledger[Current.txn], NextCall.status))
  BY <1>1, PatchIsAccepted
<1>4. /\ faults \in Nat
      /\ delivery.attempt \in Nat
      /\ MaxRetries \in Nat
      /\ MaxFaults \in Nat
  BY <1>1 DEF TypeOK, OrchestratorAssumption
<1> QED BY <1>2, <1>3, <1>4 DEF Rejects, Failed

(* Nor acknowledged while the saga has use for it.                        *)
LEMMA WantedIsNotAcked ==
  ASSUME OInv, Handling, Current.txn \notin expired,
         Wants(Current.txn, Current.key)
  PROVE  ~ Acks
<1> SUFFICES ASSUME delivery.at = Len(Calls) + 1
             PROVE  FALSE
  BY DEF Acks
<1>1. CASE Calls = << >>
  <2>1. delivery.seen = saga[Current.txn]
    BY <1>1 DEF OInv, WInv, SeenIsCurrent, Handling
  <2> QED BY <1>1, <2>1 DEF Calls, Wants
<1>2. CASE Calls # << >>
  BY <1>2 DEF OInv, DoneIsDone
<1> QED BY <1>1, <1>2

(* So it stays at the head.                                               *)
LEMMA WantedStays ==
  ASSUME MaxFaults <= MaxRetries, OrchestratorAssumption, OInv, [Next]_vars,
         queues[OutcomesQueue] # << >>, Current.txn \notin expired,
         saga[Current.txn].status \notin TerminalStatuses,
         Wants(Current.txn, Current.key)
  PROVE  Keeps
<1>1. TypeOK
  BY DEF OInv, WInv, FInv, IInv
<1>2. ~ Acks
  BY WantedIsNotAcked DEF Acks
<1> QED BY <1>1, <1>2, OpenIsNotRejected, AttemptStep DEF GoesOn, Retries, Stays

------------------------------------------------------------------------------
(* The parts of the invariant, one by one.                                *)

(* A saga that has ended stays ended.                                     *)
LEMMA OpenWasOpen ==
  ASSUME OrchestratorAssumption, IInv, [Next]_vars, NEW t \in Txn,
         saga'[t].status \notin TerminalStatuses
  PROVE  saga[t].status \notin TerminalStatuses
BY SettledStep

(* What a handler writes to the saga.                                     *)
LEMMA WrittenSteps ==
  ASSUME OrchestratorAssumption, TypeOK, NEW t \in Txn
  PROVE  /\ SagaRestatused(t) =>
              /\ saga'[t].status \in { "completed", "failed", "compensating" }
              /\ saga'[t].status = "compensating" =>
                   Current.key = "access.grant.conflicted"
         /\ SagaStepped(t) =>
              /\ saga'[t].status = saga[t].status
              /\ saga'[t].step = SecondStep(TypeOf[t])
              /\ Current.key = Trigger(TypeOf[t])
              /\ delivery.at = Len(Calls)
              /\ delivery.seen.step = FirstStep(TypeOf[t])
<1>1. TypeOf[t] \in SagaTypes
  BY DEF OrchestratorAssumption
<1>2. ASSUME SagaRestatused(t)
      PROVE  /\ saga'[t].status \in { "completed", "failed", "compensating" }
             /\ saga'[t].status = "compensating" =>
                   Current.key = "access.grant.conflicted"
  <2>1. /\ saga'[t].status = NextCall.status
        /\ NextCall.op = "status"
        /\ CallOf(TypeOf[t], Current.key, delivery.seen, delivery.at, NextCall)
    BY <1>2, CurrentCall DEF SagaRestatused, About, NextCall
  <2> QED BY <2>1
          DEF CallOf, PatchLedger, PublishCommand, SetStatus, SetStep, Call
<1>3. ASSUME SagaStepped(t)
      PROVE  /\ saga'[t].status = saga[t].status
             /\ saga'[t].step = SecondStep(TypeOf[t])
             /\ Current.key = Trigger(TypeOf[t])
             /\ delivery.at = Len(Calls)
             /\ delivery.seen.step = FirstStep(TypeOf[t])
  <2>1. /\ saga[t] \in SagaRows
        /\ NextCall.op = "step"
        /\ CallOf(TypeOf[t], Current.key, delivery.seen, delivery.at, NextCall)
        /\ Len(Calls) = IF Current.key = "provider.charge.succeeded" THEN 3 ELSE 2
    BY <1>3, CurrentCall DEF TypeOK, SagaStepped, About, NextCall
  <2>2. /\ saga'[t].step = NextCall.step
        /\ saga'[t].status = saga[t].status
    BY <1>3, <2>1 DEF SagaStepped, SagaRows
  <2> QED BY <1>1, <2>1, <2>2
          DEF CallOf, PatchLedger, PublishCommand, SetStatus, SetStep, Call,
              FirstStep, SecondStep, Trigger, SagaTypes
<1> QED BY <1>2, <1>3

LEMMA RunningStepsStep ==
  ASSUME OrchestratorAssumption, TypeOK, RunningSteps, [Next]_vars
  PROVE  RunningSteps'
<1> SUFFICES ASSUME NEW t \in Txn, saga'[t].status = "running"
             PROVE  saga'[t].step \in
                      { FirstStep(TypeOf[t]), SecondStep(TypeOf[t]) }
  BY DEF RunningSteps
<1>1. CASE saga'[t] = saga[t]
  BY <1>1 DEF RunningSteps
<1>2. CASE SagaCreated(t)
  BY <1>2 DEF SagaCreated
<1>3. CASE SagaTimedOut(t)
  BY <1>3 DEF SagaTimedOut
<1>5. CASE SagaRestatused(t)
  BY <1>5, WrittenSteps
<1>4. CASE SagaStepped(t)
  BY <1>4, WrittenSteps
<1> QED BY <1>1, <1>2, <1>3, <1>4, <1>5, SagaRowStep

LEMMA LedgerInTimeStep ==
  ASSUME OrchestratorAssumption, TypeOK, RowsFit, PollerKnowsExpired,
         LedgerInTime, [Next]_vars
  PROVE  LedgerInTime'
<1> SUFFICES ASSUME NEW t \in Txn, t \notin expired'
             PROVE  ledger'[t].status \notin
                      { "timed_out", "reconciliation_required" }
  BY DEF LedgerInTime
<1>1. t \notin expired
  BY ExpiredGrows
<1>2. ~ LedgerTimedOut(t)
  BY <1>1 DEF LedgerTimedOut, PollerKnowsExpired
<1>3. CASE LedgerRegistered(t)
  <2>1. ledger[t] \in LedgerRows
    BY DEF TypeOK
  <2> QED BY <1>3, <2>1 DEF LedgerRegistered, LedgerRows
<1>4. CASE LedgerPatched(t)
  <2>1. ledger'[t].status = NextCall.status
    BY <1>4 DEF LedgerPatched, WithStatus
  <2> QED BY <1>1, <1>4, <2>1, PatchIsVerdict DEF LedgerPatched, Verdicts
<1> QED BY <1>1, <1>2, <1>3, <1>4, LedgerRowStep DEF LedgerInTime

LEMMA OpenAttemptsStep ==
  ASSUME MaxFaults <= MaxRetries, OrchestratorAssumption, OInv, [Next]_vars
  PROVE  OpenAttemptsAreFaults'
<1>0. /\ IInv /\ TypeOK /\ RowsFit /\ MessagesFit /\ WritersAreNotOvertaken
      /\ LedgerInTime /\ VerdictIsCarried /\ AttemptsAreFaults
      /\ OpenAttemptsAreFaults
  BY DEF OInv, WInv, FInv, IInv
<1>1. /\ faults \in Nat
      /\ delivery.attempt \in Nat
      /\ faults' = faults \/ faults' = faults + 1
  BY <1>0, FaultsGrow DEF TypeOK, OrchestratorAssumption
<1> SUFFICES ASSUME queues'[OutcomesQueue] # << >>, Current'.txn \notin expired',
                    saga'[Current'.txn].status \notin TerminalStatuses
             PROVE  delivery'.attempt <= faults'
  BY DEF OpenAttemptsAreFaults
<1>2. ASSUME queues[OutcomesQueue] # << >>, Keeps
      PROVE  /\ Current.txn \notin expired
             /\ delivery.attempt <= faults
  <2>1. Current.txn \in Txn /\ Current.txn \notin expired
    BY <1>0, <1>2, CurrentFits, ExpiredGrows DEF Keeps
  <2> QED BY <1>0, <1>2, <2>1, OpenWasOpen DEF Keeps, OpenAttemptsAreFaults
<1>3. CASE delivery'.attempt = 0
  BY <1>1, <1>3
<1>4. CASE Stays /\ delivery'.attempt = delivery.attempt
  BY <1>0, <1>1, <1>2, <1>4 DEF Stays, AttemptsAreFaults
<1>5. CASE Retries
  <2>1. CASE faults' = faults + 1
    BY <1>1, <1>2, <1>5, <2>1 DEF Retries
  <2>2. CASE faults' # faults + 1
    BY <1>0, <1>2, <1>5, <2>2, PatchIsAccepted DEF Retries, Failed
  <2> QED BY <2>1, <2>2
<1> QED BY <1>0, <1>3, <1>4, <1>5, AttemptStep DEF GoesOn, Acks, Rejects

(* A verdict is written by the handler of the outcome, which goes on.     *)
LEMMA VerdictIsCarriedStep ==
  ASSUME MaxFaults <= MaxRetries, OrchestratorAssumption, OInv, [Next]_vars
  PROVE  VerdictIsCarried'
<1>0. /\ IInv /\ TypeOK /\ RowsFit /\ MessagesFit /\ PollerKnowsExpired
      /\ WritersAreNotOvertaken /\ VerdictIsCarried /\ SeenIsCurrent
  BY DEF OInv, WInv, FInv, IInv
<1> SUFFICES ASSUME NEW t \in Txn, t \notin expired',
                    ledger'[t].status \in Verdicts,
                    saga'[t].status \notin TerminalStatuses
             PROVE  /\ queues'[OutcomesQueue] # << >>
                    /\ Current'.txn = t
                    /\ ledger'[t].status = DecidedBy(TypeOf[t], Current'.key)
                    /\ Wants(t, Current.key)'
  BY DEF VerdictIsCarried
<1>1. t \notin expired /\ saga[t].status \notin TerminalStatuses
  BY <1>0, ExpiredGrows, OpenWasOpen
<1> DEFINE Carried == /\ queues[OutcomesQueue] # << >>
                      /\ Current.txn = t
                      /\ ledger'[t].status = DecidedBy(TypeOf[t], Current.key)
                      /\ Wants(t, Current.key)
                      /\ saga'[t] = saga[t]
<1>2. ASSUME ledger'[t] = ledger[t]
      PROVE  Carried
  <2>1. /\ queues[OutcomesQueue] # << >>
        /\ Current.txn = t
        /\ ledger[t].status = DecidedBy(TypeOf[t], Current.key)
        /\ Wants(t, Current.key)
    BY <1>0, <1>1, <1>2 DEF VerdictIsCarried
  <2>2. saga[t].status # "absent"
    BY <1>0, <2>1, CurrentFits DEF MessageFits
  <2>3. ~ SagaCreated(t) /\ ~ SagaTimedOut(t)
    BY <1>0, <1>1, <2>2 DEF SagaCreated, SagaTimedOut, PollerKnowsExpired
  <2>4. Current.key \notin { "access.grant.conflicted", Trigger(TypeOf[t]) }
    BY <1>2, <2>1, OrchestratorAssumption
    DEF DecidedBy, Verdicts, Trigger, OrchestratorAssumption, SagaTypes
  <2>5. ~ SagaRestatused(t) /\ ~ SagaStepped(t)
    BY <1>0, <2>4, WrittenSteps DEF TerminalStatuses
  <2> QED BY <1>0, <1>2, <2>1, <2>3, <2>5, SagaRowStep
<1>3. ASSUME LedgerPatched(t)
      PROVE  Carried
  <2>1. /\ About("patch")
        /\ Current.txn = t
        /\ ledger'[t].status = NextCall.status
    BY <1>3 DEF LedgerPatched, WithStatus
  <2>2. /\ delivery.at = 1
        /\ NextCall.status = DecidedBy(TypeOf[t], Current.key)
    BY <1>0, <1>1, <2>1, PatchIsVerdict DEF Verdicts
  <2>3. queues[OutcomesQueue] # << >> /\ saga[t].status # "absent"
    BY <1>0, <2>1, CurrentFits DEF MessageFits, About, Handling
  <2>4. /\ ~ SagaCreated(t) /\ ~ SagaTimedOut(t)
        /\ ~ SagaRestatused(t) /\ ~ SagaStepped(t)
    BY <1>0, <1>1, <2>1, <2>3
    DEF SagaCreated, SagaTimedOut, SagaRestatused, SagaStepped,
        PollerKnowsExpired, About
  <2>5. delivery.seen = saga[t]
    BY <1>0, <1>1, <2>1, <2>2 DEF SeenIsCurrent
  <2>6. Calls # << >>
    <3>1. Len(<< >>) = 0
      OBVIOUS
    <3> QED BY <2>1, <3>1 DEF About
  <2>7. Wants(t, Current.key)
    BY <2>1, <2>5, <2>6 DEF Wants, Calls
  <2> QED BY <1>0, <2>1, <2>2, <2>3, <2>4, <2>7, SagaRowStep
<1>4. ~ LedgerRegistered(t) /\ ~ LedgerTimedOut(t)
  <2>1. ledger[t] \in LedgerRows
    BY <1>0 DEF TypeOK
  <2>2. ~ LedgerRegistered(t)
    BY <2>1 DEF LedgerRegistered, LedgerRows, Verdicts
  <2> QED BY <1>0, <1>1, <2>2 DEF LedgerTimedOut, PollerKnowsExpired
<1>5. Carried
  BY <1>0, <1>2, <1>3, <1>4, LedgerRowStep
<1>6. Keeps
  BY <1>1, <1>5, WantedStays
<1> QED BY <1>5, <1>6 DEF Keeps, Wants

(* Once a handler has written to its saga, or seen that another attempt    *)
(* has, the saga has no use for the event any more.                       *)
LEMMA DoneIsDoneStep ==
  ASSUME OrchestratorAssumption, OInv, [Next]_vars
  PROVE  DoneIsDone'
<1> DEFINE t == Current.txn
<1>0. /\ IInv /\ TypeOK /\ RowsFit /\ MessagesFit /\ PollerKnowsExpired
      /\ WritersAreNotOvertaken /\ HandlerFits /\ DoneIsDone
  BY DEF OInv, WInv, FInv, IInv
<1>z. Len(<< >>) = 0
  OBVIOUS
<1> SUFFICES ASSUME Handling', Calls' # << >>, delivery'.at = Len(Calls') + 1,
                    Current'.txn \notin expired'
             PROVE  ~ Wants(Current.txn, Current.key)'
  BY DEF DoneIsDone
<1>1. CASE Ends
  BY <1>1 DEF Ends, Handling
<1>2. CASE Reads
  <2>1. TypeOf[Current'.txn] \in SagaTypes
    BY <1>0, <1>2, CurrentFits DEF Reads, Keeps, OrchestratorAssumption
  <2>2. \/ Decides(Calls') \/ Continues(Calls')
        \/ Compensates(Calls') \/ Records(Calls')
    BY <2>1, HandlerShape DEF Calls
  <2>3. Len(Calls') \in 2..3
    BY <2>2 DEF Decides, Continues, Compensates, Records
  <2> QED BY <1>2, <2>3 DEF Reads
<1>3. CASE Stands
  <2>1. /\ delivery' = delivery
        /\ queues[OutcomesQueue] # << >>
        /\ Current' = Current
    BY <1>0, <1>3 DEF Stands, Keeps, Handling, WritersAreNotOvertaken
  <2>2. /\ t \in Txn
        /\ t \notin expired
        /\ saga[t].status # "absent" /\ ledger[t].status # "absent"
    BY <1>0, <2>1, CurrentFits, ExpiredGrows DEF MessageFits
  <2>3. saga'[t] = saga[t]
    BY <1>0, <1>3, <2>2, OthersLeaveRows DEF Stands
  <2>4. Calls' = Calls
    BY <2>1 DEF Calls
  <2>5. ~ Wants(t, Current.key)
    BY <1>0, <2>1, <2>2, <2>4 DEF DoneIsDone, Handling
  <2> QED BY <2>1, <2>3, <2>5 DEF Wants
<1>4. ASSUME NEW op, Advances(op)
      PROVE  /\ Current' = Current
             /\ Calls' = Calls
             /\ About(op)
             /\ delivery.at = Len(Calls)
             /\ t \in Txn
             /\ TypeOf[t] \in SagaTypes
             /\ t \notin expired
             /\ CallOf(TypeOf[t], Current.key, delivery.seen, Len(Calls), NextCall)
             /\ NextCall.op = op
             /\ Len(Calls) = IF Current.key = "provider.charge.succeeded" THEN 3 ELSE 2
  <2>1. /\ Current' = Current
        /\ Calls' = Calls
        /\ delivery'.at = delivery.at + 1
        /\ About(op)
    BY <1>4 DEF Advances, Keeps, Calls
  <2>2. /\ t \in Txn
        /\ TypeOf[t] \in SagaTypes
        /\ CallOf(TypeOf[t], Current.key, delivery.seen, delivery.at, NextCall)
        /\ NextCall.op = op
        /\ Len(Calls) = IF Current.key = "provider.charge.succeeded" THEN 3 ELSE 2
    BY <1>0, <2>1, CurrentCall DEF About, NextCall
  <2>3. delivery.at = Len(Calls)
    BY <1>0, <2>1, <2>2 DEF TypeOK
  <2> QED BY <2>1, <2>2, <2>3, ExpiredGrows
<1>5. CASE Patches
  <2>1. Advances("patch")
    BY <1>5 DEF Patches
  <2>2. /\ CallOf(TypeOf[t], Current.key, delivery.seen, Len(Calls), NextCall)
        /\ NextCall.op = "patch"
        /\ Len(Calls) = IF Current.key = "provider.charge.succeeded" THEN 3 ELSE 2
    BY <1>4, <2>1
  <2> QED BY <2>2
          DEF CallOf, PatchLedger, PublishCommand, SetStatus, SetStep, Call
<1>6. CASE Publishes
  <2>a. Advances("publish")
    BY <1>6 DEF Publishes
  <2>b. /\ CallOf(TypeOf[t], Current.key, delivery.seen, Len(Calls), NextCall)
        /\ NextCall.op = "publish"
        /\ Len(Calls) = IF Current.key = "provider.charge.succeeded" THEN 3 ELSE 2
        /\ delivery.at = Len(Calls)
    BY <1>4, <2>a
  <2>1. /\ Current.key = "access.grant.conflicted"
        /\ TypeOf[t] = "purchase"
        /\ delivery.at = 2
    BY <2>b
    DEF CallOf, PatchLedger, PublishCommand, SetStatus, SetStep, Call
  <2>2. saga[t].status = "compensating"
    <3>1. Handling /\ Calls # << >>
      BY <1>4, <2>a, <1>z DEF About
    <3> QED BY <1>0, <2>1, <3>1 DEF HandlerFits
  <2>3. saga' = saga /\ Current' = Current
    BY <1>6 DEF Publishes, Advances, Keeps
  <2> QED BY <2>1, <2>2, <2>3
          DEF Wants, HandlerCalls, StartPurchaseCompensation, Ignore
<1>7. CASE Restatuses
  <2>a. Advances("status")
    BY <1>7 DEF Restatuses
  <2>b. /\ CallOf(TypeOf[t], Current.key, delivery.seen, Len(Calls), NextCall)
        /\ NextCall.op = "status"
        /\ Len(Calls) = IF Current.key = "provider.charge.succeeded" THEN 3 ELSE 2
        /\ t \in Txn /\ TypeOf[t] \in SagaTypes /\ Current' = Current
    BY <1>4, <2>a
  <2>1. NextCall.status \in { "completed", "failed" }
    BY <2>b
    DEF CallOf, PatchLedger, PublishCommand, SetStatus, SetStep, Call
  <2>2. saga'[t].status = NextCall.status
    BY <1>0, <1>7, <2>b DEF Restatuses, TypeOK
  <2>3. saga'[t].status \in TerminalStatuses
    BY <2>1, <2>2 DEF TerminalStatuses
  <2> QED BY <2>b, <2>3, HandlerShape DEF Wants
<1>8. CASE Steps
  <2>1. /\ t \in Txn /\ TypeOf[t] \in SagaTypes /\ Current' = Current
        /\ saga[t] \in SagaRows
        /\ saga'[t] = [saga[t] EXCEPT !.step = NextCall.step]
    BY <1>0, <1>4, <1>8 DEF Steps, TypeOK
  <2>2. SagaStepped(t)
    BY <1>4, <1>8, <2>1 DEF SagaStepped, Steps
  <2>3. /\ saga'[t].step = SecondStep(TypeOf[t])
        /\ Current.key = Trigger(TypeOf[t])
    BY <1>0, <2>1, <2>2, WrittenSteps
  <2> QED BY <2>1, <2>3
          DEF Wants, HandlerCalls, Trigger, SecondStep, SagaTypes, Expects,
              PublishAccessGrant, PublishRefundCredit, RecordProviderSuccess,
              Ignore
<1>9. ~ Stops
  <2> SUFFICES ASSUME Stops
               PROVE  FALSE
    OBVIOUS
  <2>1. /\ Current' = Current
        /\ About("status")
        /\ Handling
        /\ Calls # << >>
    BY <1>z DEF Stops, Keeps, About
  <2>2. /\ t \in Txn
        /\ CallOf(TypeOf[t], Current.key, delivery.seen, delivery.at, NextCall)
        /\ NextCall.op = "status"
        /\ ~ LegalSagaTransition(saga[t].status, NextCall.status)
    BY <1>0, <2>1, CurrentCall DEF Stops, About, NextCall
  <2>3. /\ saga[t].status \notin TerminalStatuses \cup { "absent", "created" }
        /\ saga[t] \in SagaRows
    BY <1>0, <2>1, <2>2, CurrentFits
    DEF About, Handling, MessageFits, WritersAreNotOvertaken, RowsFit, RowFits,
        TypeOK
  <2>4. saga[t].status \in { "running", "timed_out", "compensating" }
    BY <2>3 DEF SagaRows, SagaStatuses, TerminalStatuses
  <2>5. /\ NextCall.status \in { "completed", "failed", "compensating" }
        /\ NextCall.status = "compensating" =>
             /\ Current.key = "access.grant.conflicted"
             /\ delivery.at = 1
             /\ delivery.seen.status # "compensating"
    BY <2>2
    DEF CallOf, PatchLedger, PublishCommand, SetStatus, SetStep, Call
  <2>6. saga[t].status = "compensating" /\ NextCall.status = "compensating"
    BY <2>2, <2>4, <2>5 DEF LegalSagaTransition
  <2> QED BY <1>0, <2>1, <2>5, <2>6 DEF HandlerFits
<1> QED BY <1>0, <1>1, <1>2, <1>3, <1>5, <1>6, <1>7, <1>8, <1>9, DeliveryStep

(* What the handler publishes is in the queue that is bound to it.        *)
LEMMA PublishedNow ==
  ASSUME OrchestratorAssumption, TypeOK, [Next]_vars, About("publish"),
         delivery'.at = delivery.at + 1,
         NEW q \in Queues, NextCall.status \in RoutingKeys(q)
  PROVE  Message(NextCall.status, Current.txn, NextCall.step) \in Held(queues', q)
<1> DEFINE msg == Message(NextCall.status, Current.txn, NextCall.step)
<1>0. /\ delivery \in [attempt : 0..MaxRetries, at : 0..4, seen : SagaRows]
      /\ delivery.at \in 1..Len(Calls)
      /\ NextCall.op = "publish"
      /\ queues \in QueueStates
  BY DEF TypeOK, About, NextCall, QueueStates
<1>1. msg \in Messages /\ msg.key \in RoutingKeys(q)
  BY CallIsTyped, CallKinds DEF Message, Messages, About, NextCall
<1>2. CASE PublishNext
  <2>1. queues' = Publish(queues, msg)
    BY <1>2 DEF PublishNext
  <2>2. \A x \in Messages :
          x.key \in RoutingKeys(q) => x \in Held(Publish(queues, x), q)
    BY <1>0, PublishedStays
  <2> QED BY <1>1, <2>1, <2>2
<1>3. ~ (StartNext \/ PollerNext \/ ParticipantNext \/ UNCHANGED vars)
  BY <1>0, DeliveryUndisturbed DEF OtherThreads
<1>4. ~ Crash /\ ~ PatchRefused /\ ~ LookupFails
      /\ ~ \E applied \in BOOLEAN : CallFails(applied)
  BY <1>0 DEF Crash, PatchRefused, LookupFails, CallFails, RetryOrReject, Waiting
<1>5. ~ ReadSaga /\ ~ PatchTransaction /\ ~ UpdateSagaStatus /\ ~ UpdateSagaStep
  BY <1>0 DEF ReadSaga, PatchTransaction, UpdateSagaStatus, UpdateSagaStep, About,
              NextCall
<1>6. ~ AckOutcome
  BY <1>0 DEF AckOutcome, Waiting
<1> QED BY <1>2, <1>3, <1>4, <1>5, <1>6 DEF Next, ConsumerNext

(* A follow-up, or its answer, stays while the trigger is handled.        *)
LEMMA FollowedStays ==
  ASSUME OrchestratorAssumption, TypeOK, MessagesFit, "rejection" \notin Faults,
         [Next]_vars, NEW t \in Txn, Followed(t), Current.key = Trigger(TypeOf[t])
  PROVE  Followed(t)'
<1>0. TypeOf[t] \in SagaTypes
  BY DEF OrchestratorAssumption
<1>1. PICK q \in Queues : \E m \in Held(queues, q) :
        m.txn = t /\ m.key \in FollowUps(TypeOf[t])
  BY DEF Followed, Queued, Held
<1>2. PICK m \in Held(queues, q) : m.txn = t /\ m.key \in FollowUps(TypeOf[t])
  BY <1>1
<1>3. m.key \in RoutingKeys(q)
  BY DEF MessagesFit, Queued, Held
<1>4. CASE m \in Held(queues', q)
  BY <1>2, <1>4 DEF Followed, Queued, Held
<1>5. m # Current
  BY <1>0, <1>2 DEF FollowUps, Trigger, SagaTypes
<1>6. ASSUME q \in CommandQueues,
             NEW key \in Answers(m.key), NEW a \in Held(queues', OutcomesQueue),
             a.txn = m.txn, a.key = key
      PROVE  Followed(t)'
  <2>1. m.key \in CommandKeys
    BY <1>3, <1>6 DEF RoutingKeys, CommandQueues, CommandKeys
  <2>2. key \in FollowUps(TypeOf[t])
    BY <1>2, <2>1 DEF FollowUps, Answers, CommandKeys
  <2>3. OutcomesQueue \in Queues
    BY DEF Queues
  <2> QED BY <1>2, <1>6, <2>2, <2>3 DEF Followed, Queued, Held
<1> QED BY <1>4, <1>5, <1>6, MessagesRemain DEF Remains

LEMMA FollowUpIsOutStep ==
  ASSUME OrchestratorAssumption, OInv, "rejection" \notin Faults, [Next]_vars
  PROVE  FollowUpIsOut'
<1> DEFINE t == Current.txn
<1>0. /\ IInv /\ TypeOK /\ MessagesFit /\ WritersAreNotOvertaken
      /\ FollowUpIsOut
  BY DEF OInv, WInv, FInv, IInv
<1>z. Len(<< >>) = 0
  OBVIOUS
<1> SUFFICES ASSUME Handling', Calls' # << >>, delivery'.at >= Len(Calls'),
                    Current'.txn \notin expired',
                    Current'.key = Trigger(TypeOf[Current'.txn])
             PROVE  Followed(Current.txn)'
  BY DEF FollowUpIsOut
<1>1. CASE Ends
  BY <1>1 DEF Ends, Handling
<1>2. CASE Reads
  <2>1. TypeOf[Current'.txn] \in SagaTypes
    BY <1>0, <1>2, CurrentFits DEF Reads, Keeps, OrchestratorAssumption
  <2>2. \/ Decides(Calls') \/ Continues(Calls')
        \/ Compensates(Calls') \/ Records(Calls')
    BY <2>1, HandlerShape DEF Calls
  <2>3. Len(Calls') \in 2..3
    BY <2>2 DEF Decides, Continues, Compensates, Records
  <2>4. \A n \in 2..3 : ~ (1 >= n)
    OBVIOUS
  <2>5. delivery'.at = 1
    BY <1>2 DEF Reads
  <2> QED BY <2>3, <2>4, <2>5
<1>3. ASSUME Keeps, delivery'.seen = delivery.seen, Handling, Calls # << >>,
             delivery.at >= Len(Calls)
      PROVE  Followed(Current.txn)'
  <2>1. /\ t \in Txn
        /\ t \notin expired
        /\ Current' = Current
        /\ Current.key = Trigger(TypeOf[t])
    BY <1>0, <1>3, CurrentFits, ExpiredGrows DEF Keeps, Handling
  <2>2. Followed(t)
    BY <1>0, <1>3, <2>1 DEF FollowUpIsOut
  <2>3. ASSUME NEW u \in Txn, u = t
        PROVE  Followed(u)'
    BY <1>0, <2>1, <2>2, <2>3, FollowedStays
  <2> QED BY <2>1, <2>3 DEF Followed
<1>4. CASE Stands
  <2>1. /\ delivery' = delivery
        /\ queues[OutcomesQueue] # << >>
        /\ Keeps
    BY <1>0, <1>4 DEF Stands, Handling, WritersAreNotOvertaken
  <2>2. Calls' = Calls
    BY <2>1 DEF Calls, Keeps
  <2> QED BY <1>3, <2>1, <2>2 DEF Handling
<1>5. ASSUME NEW op, Advances(op)
      PROVE  Followed(Current.txn)'
  <2>1. /\ Current' = Current
        /\ Calls' = Calls
        /\ delivery'.at = delivery.at + 1
        /\ delivery'.seen = delivery.seen
        /\ Keeps
        /\ About(op)
        /\ Handling
        /\ Calls # << >>
    BY <1>5, <1>z DEF Advances, Keeps, Calls, About
  <2>2. /\ t \in Txn
        /\ TypeOf[t] \in SagaTypes
        /\ CallOf(TypeOf[t], Current.key, delivery.seen, delivery.at, NextCall)
        /\ NextCall.op = op
        /\ Len(Calls) = IF Current.key = "provider.charge.succeeded" THEN 3 ELSE 2
        /\ delivery.at \in 0..4
    BY <1>0, <2>1, CurrentCall DEF About, NextCall, TypeOK
  <2>3. CASE delivery.at >= Len(Calls)
    BY <1>3, <2>1, <2>3
  <2>4. CASE ~ (delivery.at >= Len(Calls))
    <3>1. delivery.at = Len(Calls) - 1
      BY <2>1, <2>2, <2>4
    <3>2. /\ op = "publish"
          /\ NextCall.status \in FollowUps(TypeOf[t])
          /\ NextCall.status \in
               { "access.grant.requested", "wallet.credit.requested" }
      BY <2>1, <2>2, <3>1
      DEF CallOf, PatchLedger, PublishCommand, SetStatus, SetStep, Call, Trigger,
          FollowUps, SagaTypes
    <3>3. PICK q \in Queues : NextCall.status \in RoutingKeys(q)
      <4>1. /\ "access.grant.requested" \in RoutingKeys("catalog_access.commands")
            /\ "wallet.credit.requested" \in RoutingKeys("wallets.commands")
            /\ "catalog_access.commands" \in Queues
            /\ "wallets.commands" \in Queues
        BY DEF RoutingKeys, Queues, CommandQueues
      <4> QED BY <3>2, <4>1
    <3>4. Message(NextCall.status, t, NextCall.step) \in Held(queues', q)
      BY <1>0, <2>1, <3>2, <3>3, PublishedNow
    <3> QED BY <2>1, <3>2, <3>4 DEF Followed, Queued, Held, Message
  <2> QED BY <2>3, <2>4
<1>6. CASE Patches \/ Publishes \/ Restatuses \/ Steps
  BY <1>5, <1>6 DEF Patches, Publishes, Restatuses, Steps
<1>7. ~ Stops
  <2> SUFFICES ASSUME Stops
               PROVE  FALSE
    OBVIOUS
  <2>1. Current' = Current /\ About("status") /\ Handling
    BY DEF Stops, Keeps, About
  <2>2. /\ TypeOf[t] \in SagaTypes
        /\ NextCall.op = "status"
        /\ CallOf(TypeOf[t], Current.key, delivery.seen, delivery.at, NextCall)
    BY <1>0, <2>1, CurrentCall DEF About, NextCall
  <2> QED BY <2>1, <2>2
          DEF CallOf, PatchLedger, PublishCommand, SetStatus, SetStep, Call,
              Trigger, SagaTypes
<1> QED BY <1>0, <1>1, <1>2, <1>4, <1>6, <1>7, DeliveryStep

(* What a saga waits for goes on being on its way as long as the saga has  *)
(* use for every answer to it.                                            *)
LEMMA AwaitedStays ==
  ASSUME MaxFaults <= MaxRetries, OrchestratorAssumption, OInv,
         "rejection" \notin Faults, [Next]_vars, NEW t \in Txn, t \notin expired,
         Awaited(t), StepCommand(saga[t].step) \in CommandKeys,
         saga[t].status \notin TerminalStatuses,
         \A key \in Answers(StepCommand(saga[t].step)) : Wants(t, key),
         saga'[t] = saga[t]
  PROVE  Awaited(t)'
<1> DEFINE command == StepCommand(saga[t].step)
<1>0. TypeOK /\ MessagesFit /\ TypeOK'
  BY TypeStep DEF OInv, WInv, FInv, IInv
<1>q. OutcomesQueue \in Queues
  BY DEF Queues
<1>a. Awaited(t)' <=>
        \E q \in Queues : \E m \in Held(queues', q) :
          m.txn = t /\ m.key \in { command } \cup Answers(command)
  BY DEF Awaited, Queued, Held
<1>1. PICK q \in Queues : \E m \in Held(queues, q) :
        m.txn = t /\ m.key \in { command } \cup Answers(command)
  BY DEF Awaited, Queued, Held
<1>2. PICK m \in Held(queues, q) :
        m.txn = t /\ m.key \in { command } \cup Answers(command)
  BY <1>1
<1>3. m.key \in RoutingKeys(q)
  BY <1>0 DEF MessagesFit, Queued, Held
<1>4. Answers(command) \subseteq OutcomeKeys
  BY DEF Answers, CommandKeys, OutcomeKeys
<1>5. CASE m \in Held(queues', q)
  BY <1>a, <1>2, <1>5
<1>6. CASE q = OutcomesQueue /\ queues[q] # << >> /\ m = Current
  <2>1. m.key \in OutcomeKeys
    BY <1>3, <1>6 DEF RoutingKeys, OutcomesQueue
  <2>2. m.key \in Answers(command)
    BY <1>2, <2>1 DEF CommandKeys, OutcomeKeys
  <2>3. Keeps
    BY <1>2, <1>6, <2>2, WantedStays
  <2>4. queues'[OutcomesQueue] # << >> /\ Head(queues'[OutcomesQueue]) = m
    BY <1>6, <2>3 DEF Keeps, Current
  <2>5. queues'[OutcomesQueue] \in Seq(Messages)
    BY <1>0, <1>q DEF TypeOK
  <2>6. m \in Held(queues', OutcomesQueue)
    <3>1. /\ 1 \in DOMAIN queues'[OutcomesQueue]
          /\ Head(queues'[OutcomesQueue]) = queues'[OutcomesQueue][1]
      BY <2>4, <2>5
    <3> QED BY <2>4, <3>1 DEF Held
  <2> QED BY <1>a, <1>q, <1>2, <2>6
<1>7. ASSUME q \in CommandQueues,
             NEW key \in Answers(m.key), NEW a \in Held(queues', OutcomesQueue),
             a.txn = m.txn, a.key = key
      PROVE  Awaited(t)'
  <2>1. m.key \in CommandKeys
    BY <1>3, <1>7 DEF RoutingKeys, CommandQueues, CommandKeys
  <2>2. m.key = command
    BY <1>2, <1>4, <2>1 DEF CommandKeys, OutcomeKeys
  <2> QED BY <1>a, <1>q, <1>2, <1>7, <2>2
<1> QED BY <1>0, <1>5, <1>6, <1>7, MessagesRemain DEF Remains

(* The first command is out when the handler that starts the transaction   *)
(* goes on to its answer.                                                 *)
LEMMA FirstCommandIsOut ==
  ASSUME OrchestratorAssumption, TypeOK, [Next]_vars, NEW t \in Txn,
         start[t] = "dispatch", start'[t] = "answer"
  PROVE  queues' = Publish(queues, FirstCommand(TypeOf[t], t))
<1>t. start \in [Txn -> StartStages]
  BY DEF TypeOK
<1>1. CASE StartNext
  <2>1. PICK u \in Txn :
          \/ \E allowed \in BOOLEAN : Precheck(u, allowed)
          \/ RegisterTransaction(u)
          \/ CreateSaga(u)
          \/ Dispatch(u)
          \/ Finalize(u)
          \/ \E applied \in BOOLEAN : StartFails(u, applied)
    BY <1>1 DEF StartNext
  <2>2. u = t
    <3>1. \E stage : start' = [start EXCEPT ![u] = stage]
      BY <2>1 DEF Precheck, RegisterTransaction, CreateSaga, Dispatch, Finalize,
                  StartFails
    <3> QED BY <1>t, <3>1
  <2> QED BY <1>t, <2>1, <2>2
          DEF Precheck, RegisterTransaction, CreateSaga, Dispatch, Finalize,
              StartFails
<1>2. CASE ~ StartNext
  BY <1>t, <1>2
  DEF Next, ConsumerNext, ReadSaga, PatchTransaction, PublishNext,
      UpdateSagaStatus, UpdateSagaStep, AckOutcome, PatchRefused, LookupFails,
      CallFails, PollerNext, Expire, ListTimedOut, PatchTimedOut, MarkTimedOut,
      PollerCallFails, Crash, ParticipantNext, Answer, AnswerUnacked, GiveUp,
      vars
<1> QED BY <1>1, <1>2

LEMMA DrivenStep ==
  ASSUME MaxFaults <= MaxRetries, OrchestratorAssumption, OInv,
         "rejection" \notin Faults, [Next]_vars
  PROVE  OpenSagaIsDriven'
<1>0. /\ TypeOK /\ MessagesFit /\ PollerKnowsExpired /\ RunningSteps
      /\ OpenSagaIsDriven /\ FollowUpIsOut
  BY DEF OInv, WInv, FInv, IInv
<1> SUFFICES ASSUME NEW t \in Txn, t \notin expired',
                    saga'[t].status = "running",
                    \/ saga'[t].step # FirstStep(TypeOf[t])
                    \/ start'[t] \in { "answer", "accepted" }
             PROVE  Awaited(t)'
  BY DEF OpenSagaIsDriven
<1>1. t \notin expired /\ TypeOf[t] \in SagaTypes
  BY ExpiredGrows DEF OrchestratorAssumption
<1>2. CASE saga'[t] = saga[t]
  <2>1. /\ saga[t].status = "running"
        /\ saga[t].step \in { FirstStep(TypeOf[t]), SecondStep(TypeOf[t]) }
    BY <1>0, <1>2 DEF RunningSteps
  <2>2. StepCommand(saga[t].step) \in CommandKeys
    BY <1>1, <2>1 DEF StepCommand, FirstStep, SecondStep, SagaTypes, CommandKeys
  <2>3. CASE \/ saga[t].step # FirstStep(TypeOf[t])
             \/ start[t] \in { "answer", "accepted" }
    <3>1. Awaited(t)
      BY <1>0, <1>1, <2>1, <2>3 DEF OpenSagaIsDriven
    <3>2. \A key \in Answers(StepCommand(saga[t].step)) : Wants(t, key)
      BY <1>0, <2>1, AnswerIsWanted
    <3>3. saga[t].status \notin TerminalStatuses
      BY <2>1 DEF TerminalStatuses
    <3> QED BY <1>1, <1>2, <2>2, <3>1, <3>2, <3>3, AwaitedStays
  <2>4. CASE ~ (\/ saga[t].step # FirstStep(TypeOf[t])
                \/ start[t] \in { "answer", "accepted" })
    <3> DEFINE msg == FirstCommand(TypeOf[t], t)
    <3>1. start[t] = "dispatch" /\ start'[t] = "answer"
      BY <1>0, <1>2, <2>4, StartStep
    <3>2. queues' = Publish(queues, msg)
      BY <1>0, <3>1, FirstCommandIsOut
    <3>3. msg \in Messages
      BY FirstCommandIsTyped
    <3>4. /\ msg.txn = t
          /\ msg.key = StepCommand(saga[t].step)
      BY <1>1, <2>4 DEF FirstCommand, Message, StepCommand, FirstStep, SagaTypes
    <3>5. PICK q \in Queues : msg.key \in RoutingKeys(q)
      <4>1. /\ "payments.deposit.requested" \in RoutingKeys("payments.commands")
            /\ "wallet.debit.requested" \in RoutingKeys("wallets.commands")
            /\ "access.revoke.requested" \in RoutingKeys("catalog_access.commands")
            /\ "payments.commands" \in Queues
            /\ "wallets.commands" \in Queues
            /\ "catalog_access.commands" \in Queues
        BY DEF RoutingKeys, Queues, CommandQueues
      <4>2. msg.key \in { "payments.deposit.requested", "wallet.debit.requested",
                          "access.revoke.requested" }
        BY <1>1 DEF FirstCommand, Message, SagaTypes
      <4> HIDE DEF msg
      <4> QED BY <4>1, <4>2
    <3>6. queues \in QueueStates
      BY <1>0 DEF TypeOK, QueueStates
    <3> HIDE DEF msg
    <3>7. msg \in Held(queues', q)
      BY <3>2, <3>3, <3>5, <3>6, PublishedStays
    <3> QED BY <1>2, <3>4, <3>7 DEF Awaited, Queued, Held
  <2> QED BY <2>3, <2>4
<1>3. ~ SagaCreated(t)
  <2> SUFFICES ASSUME SagaCreated(t)
               PROVE  FALSE
    OBVIOUS
  <2>1. start[t] = "create" /\ start'[t] \in { "answer", "accepted" }
    BY DEF SagaCreated
  <2> QED BY <1>0, <2>1, StartStep
<1>4. ~ SagaTimedOut(t)
  <2>1. SagaTimedOut(t) => saga'[t].status = "timed_out"
    BY DEF SagaTimedOut
  <2> QED BY <2>1
<1>5. ~ SagaRestatused(t)
  BY <1>0, WrittenSteps
<1>6. CASE SagaStepped(t)
  <2>1. /\ saga'[t].step = SecondStep(TypeOf[t])
        /\ Current.txn = t
        /\ Current.key = Trigger(TypeOf[t])
        /\ delivery.at = Len(Calls)
        /\ delivery.at \in 1..Len(Calls)
        /\ Handling
    BY <1>0, <1>6, WrittenSteps DEF SagaStepped, About
  <2>2. Calls # << >>
    <3>1. Len(<< >>) = 0
      OBVIOUS
    <3> QED BY <2>1, <3>1
  <2>3. delivery.at >= Len(Calls)
    BY <1>0, <2>1 DEF TypeOK
  <2>4. Followed(t)
    BY <1>0, <1>1, <2>1, <2>2, <2>3 DEF FollowUpIsOut
  <2>5. Followed(t)'
    BY <1>0, <2>1, <2>4, FollowedStays
  <2>6. FollowUps(TypeOf[t]) =
          { StepCommand(SecondStep(TypeOf[t])) }
            \cup Answers(StepCommand(SecondStep(TypeOf[t])))
    BY <1>1 DEF FollowUps, StepCommand, SecondStep, Answers, SagaTypes
  <2> QED BY <2>1, <2>5, <2>6 DEF Followed, Awaited
<1> QED BY <1>0, <1>2, <1>3, <1>4, <1>5, <1>6, SagaRowStep

(* The invariant holds at first,                                          *)
LEMMA OpenInit ==
  ASSUME OrchestratorAssumption, Init
  PROVE  OInv
<1>1. WInv
  BY WaitInit
<1>2. \A t \in Txn : saga[t] = NoSaga /\ ledger[t] = NoRow
  BY DEF Init
<1>3. /\ delivery.at = 0
      /\ queues[OutcomesQueue] = << >>
  BY DEF Init, Waiting, NoQueuedMessages, Queues
<1> QED BY <1>1, <1>2, <1>3
        DEF OInv, RunningSteps, LedgerInTime, VerdictIsCarried, DoneIsDone,
            FollowUpIsOut, OpenAttemptsAreFaults, OpenSagaIsDriven, NoSaga,
            NoRow, Verdicts, Handling

(* and every step keeps it.                                               *)
LEMMA OpenStep ==
  ASSUME MaxFaults <= MaxRetries, OrchestratorAssumption, OInv,
         "rejection" \notin Faults, [Next]_vars
  PROVE  OInv'
<1>0. /\ WInv /\ TypeOK /\ RowsFit /\ PollerKnowsExpired /\ RunningSteps
      /\ LedgerInTime
  BY DEF OInv, WInv, FInv, IInv
<1> QED BY <1>0, WaitStep, RunningStepsStep, LedgerInTimeStep,
           VerdictIsCarriedStep, DoneIsDoneStep, FollowUpIsOutStep,
           OpenAttemptsStep, DrivenStep DEF OInv

(* The inductive invariant of a system that gives up on no message: what   *)
(* keeps an awaited outcome at the head until its saga has moved on, and   *)
(* what the handler has published by then.                                *)
THEOREM OInvHolds ==
  /\ MaxFaults <= MaxRetries
  /\ "rejection" \notin Faults
  /\ Spec
  => []OInv
<1>1. CASE MaxFaults <= MaxRetries /\ "rejection" \notin Faults
  <2>1. Init => OInv
    BY OrchestratorAssumption, OpenInit
  <2>2. OInv /\ [Next]_vars => OInv'
    BY <1>1, OrchestratorAssumption, OpenStep
  <2> QED BY <2>1, <2>2, PTL DEF Spec
<1>2. CASE ~ (MaxFaults <= MaxRetries /\ "rejection" \notin Faults)
  BY <1>2
<1> QED BY <1>1, <1>2

(* No running saga is stranded, for any number of transactions, when there *)
(* are no more faults than retries and no command is given up on.         *)
THEOREM OpenSagasAreDriven ==
  /\ MaxFaults <= MaxRetries
  /\ "rejection" \notin Faults
  /\ Spec
  => []OpenSagaIsDriven
<1>1. OInv => OpenSagaIsDriven
  BY DEF OInv
<1> QED BY <1>1, OInvHolds, PTL

(***************************************************************************)
(* A compensating purchase can be stranded: its handler writes the saga    *)
(* before it publishes the credit.  That takes a fault in between, as the  *)
(* run compensation has one.                                              *)
(***************************************************************************)
CompensationIsDriven ==
  \A t \in Txn \ expired :
    saga[t].status = "compensating" /\ faults = 0 =>
      Awaited(t) \/ (About("publish") /\ Current.txn = t)

LEMMA CompensationStep ==
  ASSUME MaxFaults <= MaxRetries, OrchestratorAssumption, OInv,
         "rejection" \notin Faults, CompensationIsDriven, [Next]_vars
  PROVE  CompensationIsDriven'
<1>0. /\ IInv /\ TypeOK /\ RowsFit /\ MessagesFit /\ PollerKnowsExpired
      /\ HandlerFits /\ WritersAreNotOvertaken
  BY DEF OInv, WInv, FInv, IInv
<1>z. Len(<< >>) = 0
  OBVIOUS
<1> SUFFICES ASSUME NEW t \in Txn, t \notin expired',
                    saga'[t].status = "compensating", faults' = 0
             PROVE  Awaited(t)' \/ (About("publish")' /\ Current'.txn = t)
  BY DEF CompensationIsDriven
<1>1. t \notin expired /\ faults = 0 /\ TypeOf[t] \in SagaTypes
  <2>1. faults \in Nat
    BY <1>0 DEF TypeOK, OrchestratorAssumption
  <2> QED BY <2>1, FaultsGrow, ExpiredGrows DEF OrchestratorAssumption
<1>h. ASSUME About("publish") \/ About("step"), Current.txn = t,
             saga[t].status = "compensating"
      PROVE  /\ About("publish")
             /\ NextCall.status = "wallet.credit.requested"
  <2>1. /\ CallOf(TypeOf[t], Current.key, delivery.seen, delivery.at, NextCall)
        /\ NextCall.op \in { "publish", "step" }
        /\ Handling
        /\ Calls # << >>
    BY <1>0, <1>h, <1>z, CurrentCall DEF About, NextCall
  <2>2. \/ delivery.seen.status = "compensating"
        \/ Current.key = "access.grant.conflicted"
    BY <1>0, <1>h, <2>1 DEF HandlerFits
  <2>3. delivery.seen.status = "compensating" =>
          /\ TypeOf[t] = "purchase"
          /\ delivery.seen.step = "purchase_compensation_credit"
    BY <1>0, <1>h, <2>1 DEF RowsFit, RowFits, Handling
  <2>4. /\ NextCall.op = "publish"
        /\ NextCall.status = "wallet.credit.requested"
    BY <2>1, <2>2, <2>3
    DEF CallOf, PatchLedger, PublishCommand, SetStatus, SetStep, Call
  <2> QED BY <1>h, <2>4 DEF About, NextCall
<1>2. CASE saga'[t] = saga[t]
  <2>1. /\ saga[t].status = "compensating"
        /\ TypeOf[t] = "purchase"
        /\ StepCommand(saga[t].step) = "wallet.credit.requested"
    BY <1>0, <1>2 DEF RowsFit, RowFits, StepCommand
  <2>2. CASE Awaited(t)
    <3>1. \A key \in Answers(StepCommand(saga[t].step)) : Wants(t, key)
      <4>1. \A a, b : << a, b >> # << >>
        OBVIOUS
      <4>2. saga[t].step = "purchase_compensation_credit"
        BY <1>0, <2>1 DEF RowsFit, RowFits
      <4> QED BY <2>1, <4>1, <4>2
              DEF Answers, Wants, HandlerCalls, CompletePurchaseCompensation,
                  Expects, TerminalStatuses
    <3>2. /\ StepCommand(saga[t].step) \in CommandKeys
          /\ saga[t].status \notin TerminalStatuses
      BY <2>1 DEF CommandKeys, TerminalStatuses
    <3> QED BY <1>1, <1>2, <2>2, <3>1, <3>2, AwaitedStays
  <2>3. CASE About("publish") /\ Current.txn = t
    <3>1. NextCall.status = "wallet.credit.requested"
      BY <1>h, <2>1, <2>3
    <3>2. CASE Stands
      <4>1. /\ delivery' = delivery
            /\ queues'[OutcomesQueue] # << >>
            /\ Current' = Current
        BY <2>3, <3>2 DEF Stands, Keeps, About, Handling
      <4>2. Calls' = Calls
        BY <4>1 DEF Calls
      <4> QED BY <2>3, <4>1, <4>2 DEF About, Handling
    <3>3. CASE Publishes
      <4>1. delivery'.at = delivery.at + 1
        BY <3>3 DEF Publishes, Advances
      <4>2. /\ "wallet.credit.requested" \in RoutingKeys("wallets.commands")
            /\ "wallets.commands" \in Queues
        BY DEF RoutingKeys, Queues, CommandQueues
      <4>3. Message(NextCall.status, t, NextCall.step)
              \in Held(queues', "wallets.commands")
        BY <1>0, <2>3, <3>1, <4>1, <4>2, PublishedNow
      <4> QED BY <1>2, <2>1, <3>1, <4>2, <4>3 DEF Awaited, Queued, Held, Message
    <3>4. ~ Ends
      <4>1. /\ delivery.at \in 1..Len(Calls)
            /\ Calls[delivery.at].op = "publish"
            /\ Len(Calls) \in 2..3
        BY <1>0, <2>3, CallIsTyped DEF About, Handling
      <4>2. delivery.at # Len(Calls) + 1
        BY <4>1
      <4> QED BY <1>1, <4>1, <4>2 DEF Ends, About
    <3>5. ~ Reads /\ ~ Patches /\ ~ Restatuses /\ ~ Steps /\ ~ Stops
      BY <2>3 DEF Reads, Patches, Restatuses, Steps, Stops, Advances, About
    <3> QED BY <1>0, <3>2, <3>3, <3>4, <3>5, DeliveryStep
  <2> QED BY <1>1, <2>1, <2>2, <2>3 DEF CompensationIsDriven
<1>3. ASSUME saga'[t] # saga[t], SagaRestatused(t)
      PROVE  About("publish")' /\ Current'.txn = t
  <2>1. /\ About("status")
        /\ Current.txn = t
        /\ Current.key = "access.grant.conflicted"
        /\ Handling
        /\ Calls # << >>
    BY <1>0, <1>3, <1>z, WrittenSteps DEF SagaRestatused, About
  <2>2. /\ CallOf(TypeOf[t], Current.key, delivery.seen, delivery.at, NextCall)
        /\ NextCall.op = "status"
        /\ Len(Calls) = 2
    BY <1>0, <2>1, CurrentCall DEF About, NextCall
  <2>3. TypeOf[t] = "purchase" /\ delivery.at = 1
    BY <2>1, <2>2
    DEF CallOf, PatchLedger, PublishCommand, SetStatus, SetStep, Call
  <2>4. Calls[2].op = "publish"
    <3>1. CallOf(TypeOf[t], Current.key, delivery.seen, 2, Calls[2])
      BY <1>1, <2>1, <2>2, HandlerTable DEF Calls
    <3> QED BY <2>1, <3>1
            DEF CallOf, PatchLedger, PublishCommand, SetStatus, SetStep, Call
  <2>5. ~ Stands
    <3>1. saga[t].status # "absent" /\ ledger[t].status # "absent"
      BY <1>0, <2>1, CurrentFits DEF Handling, MessageFits
    <3> QED BY <1>0, <1>1, <1>3, <3>1, OthersLeaveRows DEF Stands
  <2>6. ~ Ends /\ ~ Reads /\ ~ Patches /\ ~ Publishes /\ ~ Steps /\ ~ Stops
    BY <1>1, <1>3, <2>1
    DEF Ends, Reads, Patches, Publishes, Steps, Stops, Advances, About
  <2>7. Restatuses
    BY <1>0, <2>5, <2>6, DeliveryStep
  <2>8. /\ queues'[OutcomesQueue] # << >>
        /\ Current' = Current
        /\ delivery'.at = 2
        /\ delivery'.seen = delivery.seen
    BY <2>3, <2>7 DEF Restatuses, Advances, Keeps
  <2>9. Calls' = Calls
    BY <2>8 DEF Calls
  <2>10. delivery'.at \in 1..Len(Calls')
    <3>1. Len(Calls') = 2
      BY <2>2, <2>9
    <3>2. 2 \in 1..2
      OBVIOUS
    <3> QED BY <2>8, <3>1, <3>2
  <2>11. Calls'[delivery'.at].op = "publish"
    BY <2>4, <2>8, <2>9
  <2> QED BY <2>1, <2>8, <2>10, <2>11 DEF About, Handling
<1>4. ~ SagaCreated(t) /\ ~ SagaTimedOut(t)
  <2>1. SagaTimedOut(t) => saga'[t].status = "timed_out"
    BY DEF SagaTimedOut
  <2>2. SagaCreated(t) => saga'[t].status = "running"
    BY DEF SagaCreated
  <2> QED BY <2>1, <2>2
<1>5. ~ SagaStepped(t)
  <2> SUFFICES ASSUME SagaStepped(t)
               PROVE  FALSE
    OBVIOUS
  <2>1. /\ saga[t].status = "compensating"
        /\ About("step")
        /\ Current.txn = t
    BY <1>0, WrittenSteps DEF SagaStepped
  <2>2. About("publish")
    BY <1>h, <2>1
  <2> QED BY <2>1, <2>2 DEF About
<1> QED BY <1>0, <1>2, <1>3, <1>4, <1>5, SagaRowStep

(* Until the first fault, a purchase that is being compensated is waiting  *)
(* for its credit, or its handler is about to publish it.                 *)
THEOREM CompensationsAreDriven ==
  /\ MaxFaults <= MaxRetries
  /\ "rejection" \notin Faults
  /\ Spec
  => []CompensationIsDriven
<1>1. CASE MaxFaults <= MaxRetries /\ "rejection" \notin Faults
  <2>1. Init => OInv /\ CompensationIsDriven
    <3>1. Init => OInv
      BY OrchestratorAssumption, OpenInit
    <3>2. Init => CompensationIsDriven
      BY DEF Init, CompensationIsDriven, NoSaga
    <3> QED BY <3>1, <3>2
  <2>2. OInv /\ CompensationIsDriven /\ [Next]_vars
        => (OInv /\ CompensationIsDriven)'
    <3>1. OInv /\ [Next]_vars => OInv'
      BY <1>1, OrchestratorAssumption, OpenStep
    <3>2. OInv /\ CompensationIsDriven /\ [Next]_vars => CompensationIsDriven'
      BY <1>1, OrchestratorAssumption, CompensationStep
    <3> QED BY <3>1, <3>2
  <2> QED BY <2>1, <2>2, PTL DEF Spec
<1>2. CASE ~ (MaxFaults <= MaxRetries /\ "rejection" \notin Faults)
  BY <1>2
<1> QED BY <1>1, <1>2

===============================================================================
