------------------------ MODULE SagaOrchestratorProofs ------------------------
(***************************************************************************)
(* Typing of the orchestrator, and what every later proof needs to know of *)
(* it: the four shapes a handler's calls can have, and what the broker's   *)
(* operations do to a queue.                                               *)
(***************************************************************************)
EXTENDS SagaOrchestrator, SequenceTheorems, TLAPS

(* Patch the ledger with a verdict, then end the saga with the same.      *)
Decides(c) ==
  /\ Len(c) = 2
  /\ c[1].op = "patch"
  /\ c[1].status \in Verdicts
  /\ c[1].detail \in Reasons
  /\ c[1].step \in ProviderRefs
  /\ c[2].op = "status"
  /\ c[2].status \in { "completed", "failed" }
  /\ c[2].detail \in SagaOutcomes
  /\ c[2].step \in SagaSteps
  /\ c[1].status = Verdict([outcome |-> c[2].detail])

(* Publish the next command, then move the saga to the next step.         *)
Continues(c) ==
  /\ Len(c) = 2
  /\ c[1].op = "publish"
  /\ c[1].status \in CommandKeys
  /\ c[1].step \in SourceSteps
  /\ c[2].op = "step"
  /\ c[2].step \in SagaSteps

(* Move the saga to compensating, then publish the credit.               *)
Compensates(c) ==
  /\ Len(c) = 2
  /\ c[1].op = "status"
  /\ c[1].status = "compensating"
  /\ c[1].detail = "none"
  /\ c[1].step \in SagaSteps
  /\ c[2].op = "publish"
  /\ c[2].status \in CommandKeys
  /\ c[2].step \in SourceSteps

(* Patch the ledger without a verdict, publish the next command, move on. *)
Records(c) ==
  /\ Len(c) = 3
  /\ c[1].op = "patch"
  /\ c[1].status \in { "pending", "timed_out" }
  /\ c[1].detail \in Reasons
  /\ c[1].step \in ProviderRefs
  /\ c[2].op = "publish"
  /\ c[2].status \in CommandKeys
  /\ c[2].step \in SourceSteps
  /\ c[3].op = "step"
  /\ c[3].step \in SagaSteps

(* A handler that does not ignore its event read an open saga, and makes  *)
(* its calls in one of the four orders above.                             *)
LEMMA HandlerShape ==
  ASSUME NEW type \in SagaTypes, NEW key, NEW seen,
         HandlerCalls(type, key, seen) # << >>
  PROVE  LET c == HandlerCalls(type, key, seen) IN
         /\ seen.status \notin TerminalStatuses
         /\ Decides(c) \/ Continues(c) \/ Compensates(c) \/ Records(c)
<1> DEFINE c == HandlerCalls(type, key, seen)
<1> USE DEF PatchLedger, PublishCommand, SetStatus, SetStep, Call, Ignore, Expects
<1>1. CASE c = PublishAccessGrant(seen)
  BY <1>1 DEF PublishAccessGrant, Continues, CommandKeys, SourceSteps, SagaSteps, NoStep
<1>2. CASE c = PublishRefundCredit(seen)
  BY <1>2 DEF PublishRefundCredit, Continues, CommandKeys, SourceSteps, SagaSteps, NoStep
<1>3. CASE c = StartPurchaseCompensation(seen)
  BY <1>3 DEF StartPurchaseCompensation, Compensates, CommandKeys, SourceSteps, SagaSteps, NoStep
<1>4. CASE c = RecordProviderSuccess(seen)
  BY <1>4 DEF RecordProviderSuccess, Records, CommandKeys, SourceSteps, SagaSteps, NoStep, Reasons, ProviderRefs
<1>5. CASE c = FailPurchaseDebit(seen)
  BY <1>5 DEF FailPurchaseDebit, Decides, Verdicts, Verdict, Reasons, ProviderRefs, SagaOutcomes, SagaSteps
<1>6. CASE c = CompletePurchase(seen)
  BY <1>6 DEF CompletePurchase, Decides, Verdicts, Verdict, Reasons, ProviderRefs, SagaOutcomes, SagaSteps
<1>7. CASE c = CompletePurchaseCompensation(seen)
  BY <1>7 DEF CompletePurchaseCompensation, Decides, Verdicts, Verdict, Reasons, ProviderRefs, SagaOutcomes, SagaSteps
<1>8. CASE c = FailRefundRevoke(seen)
  BY <1>8 DEF FailRefundRevoke, Decides, Verdicts, Verdict, Reasons, ProviderRefs, SagaOutcomes, SagaSteps
<1>9. CASE c = CompleteRefund(seen)
  BY <1>9 DEF CompleteRefund, Decides, Verdicts, Verdict, Reasons, ProviderRefs, SagaOutcomes, SagaSteps
<1>10. CASE c = FailProviderCharge(seen)
  BY <1>10 DEF FailProviderCharge, Decides, Verdicts, Verdict, Reasons, ProviderRefs, SagaOutcomes, SagaSteps
<1>11. CASE c = CompleteDeposit(seen)
  BY <1>11 DEF CompleteDeposit, Decides, Verdicts, Verdict, Reasons, ProviderRefs, SagaOutcomes, SagaSteps
<1>12. \/ c = PublishAccessGrant(seen)
      \/ c = PublishRefundCredit(seen)
      \/ c = StartPurchaseCompensation(seen)
      \/ c = RecordProviderSuccess(seen)
      \/ c = FailPurchaseDebit(seen)
      \/ c = CompletePurchase(seen)
      \/ c = CompletePurchaseCompensation(seen)
      \/ c = FailRefundRevoke(seen)
      \/ c = CompleteRefund(seen)
      \/ c = FailProviderCharge(seen)
      \/ c = CompleteDeposit(seen)
  BY DEF HandlerCalls
<1> QED BY <1>1, <1>2, <1>3, <1>4, <1>5, <1>6, <1>7, <1>8, <1>9, <1>10, <1>11, <1>12

------------------------------------------------------------------------------
(* The broker's operations keep the type of the queues, and none of them   *)
(* but the handling of an outcome disturbs the outcome being handled.      *)

QueueStates == [Queues -> Seq(Messages)]

(* A publish appends: the head of a queue that has one stays.             *)
LEMMA PublishedQueues ==
  ASSUME NEW qs \in QueueStates, NEW msg \in Messages
  PROVE  /\ Publish(qs, msg) \in QueueStates
         /\ \A q \in Queues :
              qs[q] # << >> =>
                /\ Publish(qs, msg)[q] # << >>
                /\ Head(Publish(qs, msg)[q]) = Head(qs[q])
<1>1. \A q \in Queues : qs[q] \in Seq(Messages)
  BY DEF QueueStates
<1>2. \A q \in Queues :
        Publish(qs, msg)[q] \in { qs[q], Append(qs[q], msg) }
  BY DEF Publish
<1>3. \A q \in Queues : Publish(qs, msg)[q] \in Seq(Messages)
  BY <1>1, <1>2
<1>4. Publish(qs, msg) \in QueueStates
  BY <1>3 DEF Publish, QueueStates
<1>5. ASSUME NEW q \in Queues, qs[q] # << >>
      PROVE  /\ Publish(qs, msg)[q] # << >>
             /\ Head(Publish(qs, msg)[q]) = Head(qs[q])
  BY <1>1, <1>2, <1>5
<1> QED BY <1>4, <1>5

(* A rejection touches the queue it is made on and the dead-letter queue. *)
LEMMA RejectedQueues ==
  ASSUME NEW qs \in QueueStates, NEW q \in Queues, qs[q] # << >>
  PROVE  /\ Reject(qs, q) \in QueueStates
         /\ \A p \in Queues \ { q, DeadLetterQueue } : Reject(qs, q)[p] = qs[p]
<1>1. \A p \in Queues : qs[p] \in Seq(Messages)
  BY DEF QueueStates
<1>2. /\ Head(qs[q]) \in Messages
      /\ Tail(qs[q]) \in Seq(Messages)
  BY <1>1
<1>3. \A p \in Queues :
        Reject(qs, q)[p] \in
          { Tail(qs[q]), Append(qs[p], Head(qs[q])), qs[p] }
  BY DEF Reject
<1>4. ASSUME NEW p \in Queues
      PROVE  Reject(qs, q)[p] \in Seq(Messages)
  <2>1. Append(qs[p], Head(qs[q])) \in Seq(Messages)
    BY <1>1, <1>2
  <2> QED BY <2>1, <1>1, <1>2, <1>3
<1>5. Reject(qs, q) \in QueueStates
  BY <1>4 DEF Reject, QueueStates
<1>6. \A p \in Queues \ { q, DeadLetterQueue } : Reject(qs, q)[p] = qs[p]
  BY DEF Reject
<1> QED BY <1>5, <1>6

(* An acknowledgement touches one queue.                                  *)
LEMMA AckedQueues ==
  ASSUME NEW qs \in QueueStates, NEW q \in Queues, qs[q] # << >>
  PROVE  /\ Ack(qs, q) \in QueueStates
         /\ \A p \in Queues \ { q } : Ack(qs, q)[p] = qs[p]
<1>1. Tail(qs[q]) \in Seq(Messages)
  BY DEF QueueStates
<1> QED BY <1>1 DEF Ack, QueueStates

------------------------------------------------------------------------------
(* Typing.                                                                *)

(* While the handler has calls to make, the message and the calls are typed.*)
LEMMA CallIsTyped ==
  ASSUME OrchestratorAssumption, TypeOK, Handling,
         delivery.at \in 1..Len(Calls)
  PROVE  /\ Current \in Messages
         /\ Current.txn \in Txn
         /\ Len(Calls) \in 2..3
         /\ delivery.at \in 1..3
         /\ delivery.seen.status \notin TerminalStatuses
         /\ Decides(Calls) \/ Continues(Calls) \/ Compensates(Calls)
            \/ Records(Calls)
<1>1. /\ queues[OutcomesQueue] \in Seq(Messages)
      /\ queues[OutcomesQueue] # << >>
  BY DEF TypeOK, Handling, Queues, OutcomesQueue
<1>2. Current \in Messages
  BY <1>1 DEF Current
<1>3. Current.txn \in Txn
  BY <1>2 DEF Messages
<1>4. TypeOf[Current.txn] \in SagaTypes
  BY <1>3 DEF OrchestratorAssumption
<1>5. Calls # << >>
  <2>1. Len(<< >>) = 0
    OBVIOUS
  <2> QED BY <2>1
<1>6. /\ delivery.seen.status \notin TerminalStatuses
      /\ Decides(Calls) \/ Continues(Calls) \/ Compensates(Calls)
         \/ Records(Calls)
  BY <1>4, <1>5, HandlerShape DEF Calls
<1>7. Len(Calls) \in 2..3
  BY <1>6 DEF Decides, Continues, Compensates, Records
<1>8. delivery.at \in 1..3
  <2>1. delivery.at \in 1..Len(Calls)
    OBVIOUS
  <2>2. \A n \in 2..3 : 1..n \subseteq 1..3
    OBVIOUS
  <2> QED BY <2>1, <2>2, <1>7
<1> QED BY <1>2, <1>3, <1>6, <1>7, <1>8

(* What each kind of call can be.                                         *)
LEMMA CallKinds ==
  ASSUME OrchestratorAssumption, TypeOK, Handling,
         delivery.at \in 1..Len(Calls)
  PROVE  /\ NextCall.op = "patch" =>
              /\ delivery.at = 1
              /\ NextCall.status \in LedgerStatuses \ { "reconciliation_required" }
              /\ NextCall.detail \in Reasons
              /\ NextCall.step \in ProviderRefs
              /\ NextCall.status \in Verdicts => Decides(Calls)
         /\ NextCall.op = "publish" =>
              /\ NextCall.status \in CommandKeys
              /\ NextCall.step \in SourceSteps
         /\ NextCall.op = "step" => NextCall.step \in SagaSteps
         /\ NextCall.op = "status" =>
              /\ NextCall.status \in SagaStatuses
              /\ NextCall.detail \in SagaOutcomes
              /\ NextCall.step \in SagaSteps
              /\ \/ NextCall.status = "compensating"
                 \/ delivery.at = 2 /\ Decides(Calls)
         /\ NextCall.op \in { "patch", "publish", "step", "status" }
<1> USE CallIsTyped
<1>1. CASE Decides(Calls)
  BY <1>1 DEF Decides, NextCall, Verdicts, LedgerStatuses, SagaStatuses
<1>2. CASE Continues(Calls)
  BY <1>2 DEF Continues, NextCall
<1>3. CASE Compensates(Calls)
  BY <1>3 DEF Compensates, NextCall, SagaStatuses, SagaOutcomes
<1>4. CASE Records(Calls)
  BY <1>4 DEF Records, NextCall, LedgerStatuses, Verdicts
<1> QED BY <1>1, <1>2, <1>3, <1>4

(* A status update leaves a saga row.                                     *)
LEMMA RestatusedIsTyped ==
  ASSUME NEW row \in SagaRows, NEW call,
         call.status \in SagaStatuses, call.detail \in SagaOutcomes,
         call.step \in SagaSteps \cup { "none" }
  PROVE  Restatused(row, call) \in SagaRows
BY DEF Restatused, SagaRows

(* A PATCH leaves a ledger row.                                           *)
LEMMA PatchedIsTyped ==
  ASSUME NEW row \in LedgerRows, NEW call,
         call.status \in LedgerStatuses, call.detail \in Reasons,
         call.step \in ProviderRefs
  PROVE  Patched(row, call) \in LedgerRows
BY DEF Patched, WithStatus, LedgerRows

(* A registration leaves a ledger row.                                    *)
LEMMA RegisteredIsTyped ==
  ASSUME NEW row \in LedgerRows
  PROVE  Registered(row) \in LedgerRows
BY DEF Registered, LedgerRows, LedgerStatuses

(* Creating or resuming a saga leaves a saga row.                         *)
LEMMA CreatedIsTyped ==
  ASSUME OrchestratorAssumption, NEW row \in SagaRows, NEW t \in Txn
  PROVE  Created(row, t) \in SagaRows
<1>1. TypeOf[t] \in SagaTypes
  BY DEF OrchestratorAssumption
<1>2. FirstStep(TypeOf[t]) \in SagaSteps
  BY <1>1 DEF SagaTypes, FirstStep, SagaSteps
<1> QED BY <1>2 DEF Created, SagaRows, SagaStatuses, SagaOutcomes

(* The command a start publishes is a message.                            *)
LEMMA FirstCommandIsTyped ==
  ASSUME OrchestratorAssumption, NEW t \in Txn
  PROVE  FirstCommand(TypeOf[t], t) \in Messages
<1>1. TypeOf[t] \in SagaTypes
  BY DEF OrchestratorAssumption
<1> QED BY <1>1 DEF SagaTypes, FirstCommand, Message, Messages, CommandKeys,
                    SourceSteps, NoStep

(* A failed attempt leaves the consumer waiting, within the retry limit.  *)
LEMMA RetryIsTyped ==
  ASSUME OrchestratorAssumption, TypeOK, NEW qs \in QueueStates,
         qs[OutcomesQueue] # << >>, RetryOrReject(qs)
  PROVE  /\ queues' \in QueueStates
         /\ delivery' \in [attempt : 0..MaxRetries, at : 0..4, seen : SagaRows]
         /\ delivery'.at = 0
<1>1. Reject(qs, OutcomesQueue) \in QueueStates
  BY RejectedQueues DEF Queues, OutcomesQueue
<1>2. NoSaga \in SagaRows
  BY DEF NoSaga, SagaRows, SagaOutcomes
<1>3. /\ delivery.attempt \in 0..MaxRetries
      /\ MaxRetries \in Nat
  BY DEF TypeOK, OrchestratorAssumption
<1>4. CASE delivery.attempt < MaxRetries
  <2>1. delivery.attempt + 1 \in 0..MaxRetries
    BY <1>3, <1>4
  <2> QED BY <1>2, <1>4, <2>1 DEF RetryOrReject, Waiting
<1>5. CASE ~ (delivery.attempt < MaxRetries)
  <2>1. 0 \in 0..MaxRetries
    BY <1>3
  <2> QED BY <1>1, <1>2, <1>5, <2>1 DEF RetryOrReject, Waiting
<1> QED BY <1>4, <1>5

(***************************************************************************)
(* Typing is inductive.  One step per action, in the order of Next.        *)
(***************************************************************************)
LEMMA TypeStep ==
  ASSUME OrchestratorAssumption, TypeOK, [Next]_vars
  PROVE  TypeOK'
<1>t. /\ saga \in [Txn -> SagaRows]
      /\ ledger \in [Txn -> LedgerRows]
      /\ queues \in [Queues -> Seq(Messages)]
      /\ start \in [Txn -> StartStages]
      /\ delivery \in [attempt : 0..MaxRetries, at : 0..4, seen : SagaRows]
      /\ expired \subseteq Txn
      /\ poller \in [todo : SUBSET PollEntries, mark : SUBSET PollEntries]
      /\ faults \in 0..MaxFaults
  BY DEF TypeOK
<1>0. /\ queues \in QueueStates
      /\ OutcomesQueue \in Queues
      /\ CommandQueues \subseteq Queues
  BY <1>t DEF QueueStates, Queues, OutcomesQueue, CommandQueues
<1>a. ASSUME NEW kind, Fault(kind)
      PROVE  faults' \in 0..MaxFaults
  BY <1>t, <1>a DEF Fault, OrchestratorAssumption
<1>1. ASSUME NEW t \in Txn, NEW allowed \in BOOLEAN, Precheck(t, allowed)
      PROVE  TypeOK'
  BY <1>t, <1>1 DEF TypeOK, Precheck, StartStages
<1>2. ASSUME NEW t \in Txn, RegisterTransaction(t)
      PROVE  TypeOK'
  BY <1>t, <1>2, RegisteredIsTyped
  DEF TypeOK, RegisterTransaction, StartStages
<1>3. ASSUME NEW t \in Txn, CreateSaga(t)
      PROVE  TypeOK'
  BY <1>t, <1>3, CreatedIsTyped DEF TypeOK, CreateSaga, StartStages
<1>4. ASSUME NEW t \in Txn, Dispatch(t)
      PROVE  TypeOK'
  <2>1. queues' \in QueueStates
    BY <1>0, <1>4, FirstCommandIsTyped, PublishedQueues DEF Dispatch
  <2> QED BY <1>t, <1>4, <2>1 DEF TypeOK, Dispatch, StartStages, QueueStates
<1>5. ASSUME NEW t \in Txn, NEW applied \in BOOLEAN, StartFails(t, applied)
      PROVE  TypeOK'
  <2>1. queues' \in QueueStates
    BY <1>0, <1>5, FirstCommandIsTyped, PublishedQueues DEF StartFails
  <2>2. faults' \in 0..MaxFaults
    BY <1>5, <1>a DEF StartFails
  <2>3. saga' \in [Txn -> SagaRows]
    BY <1>t, <1>5, CreatedIsTyped DEF StartFails
  <2>4. ledger' \in [Txn -> LedgerRows]
    BY <1>t, <1>5, RegisteredIsTyped DEF StartFails
  <2> QED BY <1>t, <1>5, <2>1, <2>2, <2>3, <2>4
          DEF TypeOK, StartFails, StartStages, QueueStates
<1>25. ASSUME NEW t \in Txn, Finalize(t)
       PROVE  TypeOK'
  BY <1>t, <1>25 DEF TypeOK, Finalize, StartStages
<1>6. ASSUME ReadSaga
      PROVE  TypeOK'
  <2>1. Current.txn \in Txn
    <3>1. Current \in Messages
      BY <1>0, <1>6 DEF ReadSaga, Current, QueueStates
    <3> QED BY <3>1 DEF Messages
  <2>2. saga[Current.txn] \in SagaRows
    BY <1>t, <2>1
  <2>3. delivery' \in [attempt : 0..MaxRetries, at : 0..4, seen : SagaRows]
    <3> DEFINE row == saga[Current.txn]
    <3>1. delivery' = [delivery EXCEPT !.at = 1, !.seen = row]
      BY <1>6 DEF ReadSaga
    <3>2. row \in SagaRows
      BY <2>2
    <3> HIDE DEF row
    <3>3. delivery' = [attempt |-> delivery.attempt, at |-> 1, seen |-> row]
      BY <1>t, <3>1
    <3> QED BY <1>t, <3>2, <3>3
  <2> QED BY <1>t, <1>6, <2>3 DEF TypeOK, ReadSaga
<1>b. ASSUME Handling, delivery.at \in 1..Len(Calls), Advance
      PROVE  delivery' \in [attempt : 0..MaxRetries, at : 0..4, seen : SagaRows]
  <2>1. delivery.at \in 1..3
    BY <1>b, CallIsTyped
  <2>2. delivery.at + 1 \in 0..4
    BY <2>1
  <2> QED BY <1>t, <1>b, <2>2 DEF Advance
<1>c. ASSUME Handling, delivery.at \in 1..Len(Calls), NextCall.op = "publish"
      PROVE  Publish(queues,
               Message(NextCall.status, Current.txn, NextCall.step))
               \in QueueStates
  <2>1. Message(NextCall.status, Current.txn, NextCall.step) \in Messages
    BY <1>c, CallIsTyped, CallKinds DEF Message, Messages
  <2> QED BY <1>0, <2>1, PublishedQueues
<1>7. CASE PatchTransaction
  <2>1. ledger' \in [Txn -> LedgerRows]
    <3>0. /\ Handling
          /\ delivery.at \in 1..Len(Calls)
          /\ NextCall.op = "patch"
      BY <1>7 DEF PatchTransaction, About, NextCall
    <3>2. ledger[Current.txn] \in LedgerRows
      BY <1>t, <3>0, CallIsTyped
    <3>1. Patched(ledger[Current.txn], NextCall) \in LedgerRows
      BY <3>0, <3>2, CallKinds, PatchedIsTyped
    <3> QED BY <1>t, <1>7, <3>1 DEF PatchTransaction
  <2>2. delivery' \in [attempt : 0..MaxRetries, at : 0..4, seen : SagaRows]
    BY <1>7, <1>b DEF PatchTransaction, About
  <2> QED BY <1>t, <1>7, <2>1, <2>2 DEF TypeOK, PatchTransaction
<1>8. CASE PublishNext
  <2>1. queues' \in QueueStates
    BY <1>8, <1>c DEF PublishNext, About, NextCall
  <2>2. delivery' \in [attempt : 0..MaxRetries, at : 0..4, seen : SagaRows]
    BY <1>8, <1>b DEF PublishNext, About
  <2> QED BY <1>t, <1>8, <2>1, <2>2 DEF TypeOK, PublishNext, QueueStates
<1>9. CASE UpdateSagaStatus
  <2>0. /\ Handling
        /\ delivery.at \in 1..Len(Calls)
        /\ NextCall.op = "status"
    BY <1>9 DEF UpdateSagaStatus, About, NextCall
  <2>1. Restatused(saga[Current.txn], NextCall) \in SagaRows
    <3>1. saga[Current.txn] \in SagaRows
      BY <1>t, <2>0, CallIsTyped
    <3> QED BY <2>0, <3>1, CallKinds, RestatusedIsTyped
  <2>2. saga' \in [Txn -> SagaRows]
    BY <1>t, <1>9, <2>1 DEF UpdateSagaStatus
  <2>3. delivery' \in [attempt : 0..MaxRetries, at : 0..4, seen : SagaRows]
    <3>1. Len(Calls) \in 2..3
      BY <2>0, CallIsTyped
    <3>a. \A n \in 2..3 : n + 1 \in 0..4
      OBVIOUS
    <3>2. Len(Calls) + 1 \in 0..4
      BY <3>1, <3>a
    <3> QED BY <1>t, <1>9, <1>b, <2>0, <3>2 DEF UpdateSagaStatus
  <2> QED BY <1>t, <1>9, <2>2, <2>3 DEF TypeOK, UpdateSagaStatus
<1>10. CASE UpdateSagaStep
  <2>0. /\ Handling
        /\ delivery.at \in 1..Len(Calls)
        /\ NextCall.op = "step"
    BY <1>10 DEF UpdateSagaStep, About, NextCall
  <2>1. [saga[Current.txn] EXCEPT !.step = NextCall.step] \in SagaRows
    <3>1. saga[Current.txn] \in SagaRows
      BY <1>t, <2>0, CallIsTyped
    <3>2. NextCall.step \in SagaSteps
      BY <2>0, CallKinds
    <3> QED BY <3>1, <3>2 DEF SagaRows
  <2>2. saga' = [saga EXCEPT ![Current.txn] =
                   [saga[Current.txn] EXCEPT !.step = NextCall.step]]
    BY <1>10 DEF UpdateSagaStep
  <2>3. saga' \in [Txn -> SagaRows]
    BY <1>t, <2>1, <2>2
  <2>4. delivery' \in [attempt : 0..MaxRetries, at : 0..4, seen : SagaRows]
    BY <1>10, <1>b, <2>0 DEF UpdateSagaStep
  <2> QED BY <1>t, <1>10, <2>3, <2>4 DEF TypeOK, UpdateSagaStep
<1>11. CASE AckOutcome
  <2>1. queues' \in QueueStates
    BY <1>11, <1>0, AckedQueues DEF AckOutcome, Handling
  <2>2. Waiting(0) \in [attempt : 0..MaxRetries, at : 0..4, seen : SagaRows]
    BY DEF Waiting, NoSaga, SagaRows, SagaOutcomes, OrchestratorAssumption
  <2> QED BY <1>t, <1>11, <2>1, <2>2 DEF TypeOK, AckOutcome, QueueStates
<1>12. CASE PatchRefused
  <2>1. /\ queues' \in QueueStates
        /\ delivery' \in [attempt : 0..MaxRetries, at : 0..4, seen : SagaRows]
    BY <1>12, <1>0, RetryIsTyped DEF PatchRefused, About, Handling
  <2> QED BY <1>t, <1>12, <2>1 DEF TypeOK, PatchRefused, QueueStates
<1>13. CASE LookupFails
  <2>1. /\ queues' \in QueueStates
        /\ delivery' \in [attempt : 0..MaxRetries, at : 0..4, seen : SagaRows]
    BY <1>13, <1>0, RetryIsTyped DEF LookupFails
  <2>2. faults' \in 0..MaxFaults
    BY <1>13, <1>a DEF LookupFails
  <2> QED BY <1>t, <1>13, <2>1, <2>2 DEF TypeOK, LookupFails, QueueStates
<1>14. ASSUME NEW applied \in BOOLEAN, CallFails(applied)
       PROVE  TypeOK'
  <2>0. /\ Handling
        /\ delivery.at \in 1..Len(Calls)
    BY <1>14 DEF CallFails
  <2> DEFINE Sent == Publish(queues,
                       Message(NextCall.status, Current.txn, NextCall.step))
             took(op) == applied /\ NextCall.op = op
             kept == IF took("publish") THEN Sent ELSE queues
  <2>1. kept \in QueueStates
    BY <2>0, <1>0, <1>c
  <2>2. kept[OutcomesQueue] # << >>
    <3>1. queues[OutcomesQueue] # << >>
      BY <2>0 DEF Handling
    <3>2. CASE took("publish")
      <4>1. Message(NextCall.status, Current.txn, NextCall.step) \in Messages
        BY <2>0, <3>2, CallIsTyped, CallKinds DEF Message, Messages
      <4>2. Sent[OutcomesQueue] # << >>
        BY <1>0, <3>1, <4>1, PublishedQueues
      <4> QED BY <3>2, <4>2
    <3> QED BY <3>1, <3>2
  <2>3. RetryOrReject(kept)
    BY <1>14 DEF CallFails
  <2>4. /\ queues' \in QueueStates
        /\ delivery' \in [attempt : 0..MaxRetries, at : 0..4, seen : SagaRows]
    <3> HIDE DEF kept
    <3> QED BY <2>1, <2>2, <2>3, RetryIsTyped
  <2>5. ledger' \in [Txn -> LedgerRows]
    <3>1. NextCall.op = "patch" =>
            Patched(ledger[Current.txn], NextCall) \in LedgerRows
      <4>1. ledger[Current.txn] \in LedgerRows
        BY <1>t, <2>0, CallIsTyped
      <4> QED BY <2>0, <4>1, CallKinds, PatchedIsTyped
    <3> QED BY <1>t, <1>14, <3>1 DEF CallFails
  <2>6. saga' \in [Txn -> SagaRows]
    <3>0. saga[Current.txn] \in SagaRows
      BY <1>t, <2>0, CallIsTyped
    <3>1. NextCall.op = "status" =>
            Restatused(saga[Current.txn], NextCall) \in SagaRows
      BY <2>0, <3>0, CallKinds, RestatusedIsTyped
    <3>2. NextCall.op = "step" =>
            [saga[Current.txn] EXCEPT !.step = NextCall.step] \in SagaRows
      BY <2>0, <3>0, CallKinds DEF SagaRows
    <3>3. \/ /\ NextCall.op = "status"
             /\ saga' = [saga EXCEPT ![Current.txn] =
                           Restatused(saga[Current.txn], NextCall)]
          \/ /\ NextCall.op = "step"
             /\ saga' = [saga EXCEPT ![Current.txn] =
                           [saga[Current.txn] EXCEPT !.step = NextCall.step]]
          \/ saga' = saga
      BY <1>14 DEF CallFails
    <3> QED BY <1>t, <3>1, <3>2, <3>3
  <2>7. faults' \in 0..MaxFaults
    BY <1>14, <1>a DEF CallFails
  <2> QED BY <1>t, <1>14, <2>4, <2>5, <2>6, <2>7
          DEF TypeOK, CallFails, QueueStates
<1>15. ASSUME NEW t \in Txn, Expire(t)
       PROVE  TypeOK'
  BY <1>t, <1>15 DEF TypeOK, Expire
<1>16. CASE ListTimedOut
  <2>1. poller'.todo \subseteq PollEntries
    BY <1>t, <1>16 DEF ListTimedOut, PollEntries, SagaRows
  <2>2. poller' \in [todo : SUBSET PollEntries, mark : SUBSET PollEntries]
    BY <1>t, <1>16, <2>1 DEF ListTimedOut
  <2> QED BY <1>t, <1>16, <2>2 DEF TypeOK, ListTimedOut
<1>d. ASSUME NEW t \in Txn
      PROVE  Patched(ledger[t], TimeoutCall) \in LedgerRows
  <2>1. /\ TimeoutCall.status \in LedgerStatuses
        /\ TimeoutCall.detail \in Reasons
        /\ TimeoutCall.step \in ProviderRefs
    BY DEF TimeoutCall, PatchLedger, Call, LedgerStatuses, Reasons, ProviderRefs
  <2> QED BY <1>t, <1>d, <2>1, PatchedIsTyped
<1>17. ASSUME NEW e \in PollEntries, PatchTimedOut(e)
       PROVE  TypeOK'
  <2>1. e.txn \in Txn
    BY DEF PollEntries
  <2>2. ledger' \in [Txn -> LedgerRows]
    BY <1>t, <1>17, <1>d, <2>1 DEF PatchTimedOut
  <2>3. poller' \in [todo : SUBSET PollEntries, mark : SUBSET PollEntries]
    BY <1>t, <1>17 DEF PatchTimedOut
  <2> QED BY <1>t, <1>17, <2>2, <2>3 DEF TypeOK, PatchTimedOut
<1>18. ASSUME NEW e \in PollEntries, MarkTimedOut(e)
       PROVE  TypeOK'
  <2> DEFINE call == SetStatus("timed_out", "none", e.step)
  <2>1. e.txn \in Txn /\ e.step \in SagaSteps \cup { "none" }
    BY DEF PollEntries
  <2>2. /\ call.status \in SagaStatuses
        /\ call.detail \in SagaOutcomes
        /\ call.step \in SagaSteps \cup { "none" }
    BY <2>1 DEF SetStatus, Call, SagaStatuses, SagaOutcomes
  <2>3. Restatused(saga[e.txn], call) \in SagaRows
    <3>1. saga[e.txn] \in SagaRows
      BY <1>t, <2>1
    <3> HIDE DEF call
    <3> QED BY <2>2, <3>1, RestatusedIsTyped
  <2>4. saga' \in [Txn -> SagaRows]
    BY <1>t, <1>18, <2>1, <2>3 DEF MarkTimedOut
  <2>5. poller' \in [todo : SUBSET PollEntries, mark : SUBSET PollEntries]
    BY <1>t, <1>18 DEF MarkTimedOut
  <2> QED BY <1>t, <1>18, <2>4, <2>5 DEF TypeOK, MarkTimedOut
<1>19. ASSUME NEW e \in PollEntries, NEW applied \in BOOLEAN,
              PollerCallFails(e, applied)
       PROVE  TypeOK'
  <2>1. e.txn \in Txn
    BY DEF PollEntries
  <2>2. ledger' \in [Txn -> LedgerRows]
    BY <1>t, <1>19, <1>d, <2>1 DEF PollerCallFails
  <2>3. poller' \in [todo : SUBSET PollEntries, mark : SUBSET PollEntries]
    BY <1>t, <1>19 DEF PollerCallFails
  <2>4. faults' \in 0..MaxFaults
    BY <1>19, <1>a DEF PollerCallFails
  <2> QED BY <1>t, <1>19, <2>2, <2>3, <2>4 DEF TypeOK, PollerCallFails
<1>20. CASE Crash
  <2>1. delivery' \in [attempt : 0..MaxRetries, at : 0..4, seen : SagaRows]
    BY <1>20 DEF Crash, Waiting, NoSaga, SagaRows, SagaOutcomes,
                 OrchestratorAssumption
  <2>2. start' \in [Txn -> StartStages]
    BY <1>t, <1>20 DEF Crash, StartStages, Working
  <2>3. faults' \in 0..MaxFaults
    BY <1>20, <1>a DEF Crash
  <2> QED BY <1>t, <1>20, <2>1, <2>2, <2>3 DEF TypeOK, Crash, IdlePoller
<1>e. ASSUME NEW q \in CommandQueues, NEW key \in OutcomeKeys,
             queues[q] # << >>
      PROVE  LET qs == Publish(queues, Message(key, Head(queues[q]).txn, NoStep))
             IN  /\ qs \in QueueStates
                 /\ Ack(qs, q) \in QueueStates
  <2> DEFINE msg == Message(key, Head(queues[q]).txn, NoStep)
  <2>1. Head(queues[q]) \in Messages
    BY <1>0, <1>e DEF QueueStates
  <2>2. msg \in Messages
    BY <2>1 DEF Message, Messages, NoStep, SourceSteps
  <2> HIDE DEF msg
  <2>3. Publish(queues, msg) \in QueueStates /\ Publish(queues, msg)[q] # << >>
    BY <1>0, <1>e, <2>2, PublishedQueues
  <2>4. Ack(Publish(queues, msg), q) \in QueueStates
    BY <1>0, <2>3, AckedQueues
  <2> QED BY <2>3, <2>4 DEF msg
<1>21. ASSUME NEW q \in CommandQueues, NEW key \in OutcomeKeys, Answer(q, key)
       PROVE  TypeOK'
  <2>1. queues' \in QueueStates
    BY <1>21, <1>e DEF Answer
  <2> QED BY <1>t, <1>21, <2>1 DEF TypeOK, Answer, QueueStates
<1>22. ASSUME NEW q \in CommandQueues, NEW key \in OutcomeKeys,
              AnswerUnacked(q, key)
       PROVE  TypeOK'
  <2>1. queues' \in QueueStates
    BY <1>22, <1>e DEF AnswerUnacked
  <2>2. faults' \in 0..MaxFaults
    BY <1>22, <1>a DEF AnswerUnacked
  <2> QED BY <1>t, <1>22, <2>1, <2>2 DEF TypeOK, AnswerUnacked, QueueStates
<1>23. ASSUME NEW q \in CommandQueues, GiveUp(q)
       PROVE  TypeOK'
  <2>1. queues' \in QueueStates
    BY <1>0, <1>23, RejectedQueues DEF GiveUp
  <2>2. faults' \in 0..MaxFaults
    BY <1>23, <1>a DEF GiveUp
  <2> QED BY <1>t, <1>23, <2>1, <2>2 DEF TypeOK, GiveUp, QueueStates
<1>24. CASE UNCHANGED vars
  BY <1>t, <1>24 DEF TypeOK, vars
<1> QED
  BY <1>1, <1>2, <1>3, <1>4, <1>5, <1>6, <1>7, <1>8, <1>9, <1>10, <1>11,
     <1>12, <1>13, <1>14, <1>15, <1>16, <1>17, <1>18, <1>19, <1>20, <1>21,
     <1>22, <1>23, <1>24, <1>25
  DEF Next, StartNext, ConsumerNext, PollerNext, ParticipantNext

(* The initial state is typed.                                            *)
LEMMA TypeInit ==
  ASSUME OrchestratorAssumption, Init
  PROVE  TypeOK
<1>1. NoSaga \in SagaRows
  BY DEF NoSaga, SagaRows, SagaOutcomes
<1>2. NoRow \in LedgerRows
  BY DEF NoRow, LedgerRows, Reasons, ProviderRefs
<1>3. NoQueuedMessages \in [Queues -> Seq(Messages)]
  BY DEF NoQueuedMessages
<1>4. /\ 0 \in 0..MaxRetries
      /\ 0 \in 0..MaxFaults
  BY DEF OrchestratorAssumption
<1> QED BY <1>1, <1>2, <1>3, <1>4
        DEF Init, TypeOK, Waiting, IdlePoller, StartStages

(* Every reachable state is well typed.                                   *)
THEOREM TypeCorrect == Spec => []TypeOK
<1>1. Init => TypeOK
  BY OrchestratorAssumption, TypeInit
<1>2. TypeOK /\ [Next]_vars => TypeOK'
  BY OrchestratorAssumption, TypeStep
<1> QED BY <1>1, <1>2, PTL DEF Spec
==============================================================================
