--------------------------- MODULE SagaOrchestrator ---------------------------
(***************************************************************************)
(* The saga-orchestrator service with the ledger rows it writes over HTTP. *)
(*                                                                         *)
(* Three kinds of threads of one process work on the same saga rows:       *)
(*   - the HTTP handlers that start a workflow (usecases/startdeposit,     *)
(*     startpurchase, startrefund), one per transaction at a time, because *)
(*     a client's retry is let in only when the idempotency key is         *)
(*     retryable again;                                                    *)
(*   - the consumer of saga.outcomes (platform/rabbitmq/consumer.go and    *)
(*     usecases/handleoutcome), serial;                                    *)
(*   - the timeout poller (usecases/timeout).                              *)
(* Each takes several steps per unit of work and the steps interleave.     *)
(*                                                                         *)
(* The services that consume the commands are open here: a command may be  *)
(* answered by any outcome its kind allows, any number of times.  Module   *)
(* SagaSystem puts the real services in their place.                       *)
(***************************************************************************)
EXTENDS Workflows, Ledger, Naturals, FiniteSets

CONSTANTS
  Txn,        \* transaction ids
  TypeOf,     \* the saga type of each transaction
  MayExpire,  \* the transactions slow enough to reach their timeout
  MaxRetries, \* RetryConfig.MaxRetries (3 in production)
  Faults,     \* the kinds of fault that may happen
  MaxFaults   \* bound on their number

FaultKinds == { "call", "crash", "redelivery", "rejection" }

ASSUME OrchestratorAssumption ==
  /\ TypeOf \in [Txn -> SagaTypes]
  /\ MayExpire \subseteq Txn
  /\ MaxRetries \in Nat
  /\ Faults \subseteq FaultKinds
  /\ MaxFaults \in Nat

VARIABLES
  saga,      \* saga_orchestrator.saga_instances, by transaction
  ledger,    \* payments.transactions, by transaction
  queues,    \* the broker's queues
  start,     \* where the HTTP handler that starts the transaction is
  delivery,  \* the consumer: attempt, next call, saga row it read
  expired,   \* transactions whose saga is past timeout_at
  poller,    \* the poller: rows still to visit, row to mark next
  faults     \* faults so far

vars == << saga, ledger, queues, start, delivery, expired, poller, faults >>

------------------------------------------------------------------------------
(* Types and null values.                                                 *)

SagaRows ==
  [status : SagaStatuses \cup { "absent" }, outcome : SagaOutcomes,
   step : SagaSteps \cup { "none" }]

NoSaga == [status |-> "absent", outcome |-> "none", step |-> "none"]

StartStages ==
  { "new", "register", "create", "dispatch", "answer", "accepted", "denied" }

(* The stages of a handler that has reserved its key and been let through. *)
Working == { "register", "create", "dispatch", "answer" }

(* A consumer that holds no delivery, or is about to handle its head anew. *)
Waiting(attempt) == [attempt |-> attempt, at |-> 0, seen |-> NoSaga]

PollEntries == [txn : Txn, step : SagaSteps \cup { "none" }]

IdlePoller == [todo |-> {}, mark |-> {}]

------------------------------------------------------------------------------
(* Init and helpers.                                                      *)

Init ==
  /\ saga = [t \in Txn |-> NoSaga]
  /\ ledger = [t \in Txn |-> NoRow]
  /\ queues = NoQueuedMessages
  /\ start = [t \in Txn |-> "new"]
  /\ delivery = Waiting(0)
  /\ expired = {}
  /\ poller = IdlePoller
  /\ faults = 0

Fault(kind) ==
  /\ kind \in Faults
  /\ faults < MaxFaults
  /\ faults' = faults + 1

Current == Head(queues[OutcomesQueue])

Calls == HandlerCalls(TypeOf[Current.txn], Current.key, delivery.seen)

Handling == delivery.at > 0 /\ queues[OutcomesQueue] # << >>

(* The next call of the handler is one of the given kind.                 *)
About(op) ==
  /\ Handling
  /\ delivery.at \in 1..Len(Calls)
  /\ Calls[delivery.at].op = op

NextCall == Calls[delivery.at]

------------------------------------------------------------------------------
(* Starting a workflow.                                                   *)

(* The eligibility check; a denial is the stored answer of the key.       *)
Precheck(t, allowed) ==
  /\ start[t] = "new"
  /\ TypeOf[t] = "deposit" => allowed
  /\ start' = [start EXCEPT ![t] = IF allowed THEN "register" ELSE "denied"]
  /\ UNCHANGED << saga, ledger, queues, delivery, expired, poller, faults >>

RegisterTransaction(t) ==
  /\ start[t] = "register"
  /\ ledger' = [ledger EXCEPT ![t] = Registered(@)]
  /\ start' = [start EXCEPT ![t] = "create"]
  /\ UNCHANGED << saga, queues, delivery, expired, poller, faults >>

(* A saga that exists already is resumed as it is.                        *)
Created(row, t) ==
  IF row.status = "absent"
  THEN [status |-> "running", outcome |-> "none",
        step |-> FirstStep(TypeOf[t])]
  ELSE row

CreateSaga(t) ==
  /\ start[t] = "create"
  /\ saga' = [saga EXCEPT ![t] = Created(@, t)]
  /\ start' = [start EXCEPT ![t] = "dispatch"]
  /\ UNCHANGED << ledger, queues, delivery, expired, poller, faults >>

Dispatch(t) ==
  /\ start[t] = "dispatch"
  /\ queues' = Publish(queues, FirstCommand(TypeOf[t], t))
  /\ start' = [start EXCEPT ![t] = "answer"]
  /\ UNCHANGED << saga, ledger, delivery, expired, poller, faults >>

(* The answer is stored: from now on the key replays it.                  *)
Finalize(t) ==
  /\ start[t] = "answer"
  /\ start' = [start EXCEPT ![t] = "accepted"]
  /\ UNCHANGED << saga, ledger, queues, delivery, expired, poller, faults >>

(***************************************************************************)
(* A call of the handler fails, after it took effect or before, and the    *)
(* client repeats the request with the same key, which keeps the           *)
(* transaction id: the handler runs again from the start.  When the answer *)
(* could not be stored the handler runs again once the key's reservation   *)
(* has lapsed.                                                             *)
(***************************************************************************)
StartFails(t, applied) ==
  /\ start[t] \in Working
  /\ Fault("call")
  /\ start' = [start EXCEPT ![t] = "new"]
  /\ ledger' = IF applied /\ start[t] = "register"
               THEN [ledger EXCEPT ![t] = Registered(@)] ELSE ledger
  /\ saga' = IF applied /\ start[t] = "create"
             THEN [saga EXCEPT ![t] = Created(@, t)] ELSE saga
  /\ queues' = IF applied /\ start[t] = "dispatch"
               THEN Publish(queues, FirstCommand(TypeOf[t], t)) ELSE queues
  /\ UNCHANGED << delivery, expired, poller >>

------------------------------------------------------------------------------
(* The consumer of saga.outcomes.                                         *)

(* Every attempt looks the saga up again.  The lookup of a saga that does  *)
(* not exist is an error in the code; no outcome of one is ever queued, as *)
(* a saga is created before its first command (MessagesFit is proved).     *)
ReadSaga ==
  /\ delivery.at = 0
  /\ queues[OutcomesQueue] # << >>
  /\ delivery' = [delivery EXCEPT !.at = 1, !.seen = saga[Current.txn]]
  /\ UNCHANGED << saga, ledger, queues, start, expired, poller, faults >>

Advance == delivery' = [delivery EXCEPT !.at = @ + 1]

(* The row as the call leaves it, or as it was.                           *)
Patched(row, call) ==
  IF AcceptsStatus(row, call.status)
  THEN WithStatus(row, call.status, call.detail, call.step) ELSE row

Restatused(row, call) ==
  IF LegalSagaTransition(row.status, call.status)
  THEN [status |-> call.status, outcome |-> call.detail, step |-> call.step]
  ELSE row

PatchTransaction ==
  LET t == Current.txn IN
  /\ About("patch")
  /\ AcceptsStatus(ledger[t], NextCall.status)
  /\ ledger' = [ledger EXCEPT ![t] = Patched(@, NextCall)]
  /\ Advance
  /\ UNCHANGED << saga, queues, start, expired, poller, faults >>

PublishNext ==
  LET t == Current.txn IN
  /\ About("publish")
  /\ queues' = Publish(queues, Message(NextCall.status, t, NextCall.step))
  /\ Advance
  /\ UNCHANGED << saga, ledger, start, expired, poller, faults >>

(* ErrIllegalTransition ends the handler without an error.                *)
UpdateSagaStatus ==
  LET t == Current.txn IN
  /\ About("status")
  /\ saga' = [saga EXCEPT ![t] = Restatused(@, NextCall)]
  /\ IF LegalSagaTransition(saga[t].status, NextCall.status)
     THEN Advance
     ELSE delivery' = [delivery EXCEPT !.at = Len(Calls) + 1]
  /\ UNCHANGED << ledger, queues, start, expired, poller, faults >>

UpdateSagaStep ==
  LET t == Current.txn IN
  /\ About("step")
  /\ saga' = [saga EXCEPT ![t].step = NextCall.step]
  /\ Advance
  /\ UNCHANGED << ledger, queues, start, expired, poller, faults >>

(* The handler returned nil: the delivery is acknowledged.                *)
AckOutcome ==
  /\ Handling
  /\ delivery.at = Len(Calls) + 1
  /\ queues' = Ack(queues, OutcomesQueue)
  /\ delivery' = Waiting(0)
  /\ UNCHANGED << saga, ledger, start, expired, poller, faults >>

(* Mutant: one attempt too many.                                          *)
RetryOnceMore(q) ==
  IF delivery.attempt <= MaxRetries
  THEN /\ delivery' = Waiting(delivery.attempt + 1)
       /\ queues' = q
  ELSE /\ delivery' = Waiting(0)
       /\ queues' = Reject(q, OutcomesQueue)

(* Mutant: a failed delivery goes back to the end of the queue.           *)
RequeueLast(q) ==
  /\ delivery' = Waiting(0)
  /\ queues' = [q EXCEPT ![OutcomesQueue] = Append(Tail(@), Head(@))]

(* Mutant: the first failure is final.                                    *)
RejectAtOnce(q) ==
  /\ delivery' = Waiting(0)
  /\ queues' = Reject(q, OutcomesQueue)

(***************************************************************************)
(* The handler returned an error.  It is tried again, after a pause, until *)
(* MaxRetries is exhausted; then the delivery is rejected.                 *)
(***************************************************************************)
RetryOrReject(q) ==
  IF delivery.attempt < MaxRetries
  THEN /\ delivery' = Waiting(delivery.attempt + 1)
       /\ queues' = q
  ELSE /\ delivery' = Waiting(0)
       /\ queues' = Reject(q, OutcomesQueue)

(* The payments service answered 409: the ledger refuses the transition.  *)
PatchRefused ==
  /\ About("patch")
  /\ ~ AcceptsStatus(ledger[Current.txn], NextCall.status)
  /\ RetryOrReject(queues)
  /\ UNCHANGED << saga, ledger, start, expired, poller, faults >>

(* GetSagaByTransactionID fails.                                          *)
LookupFails ==
  /\ delivery.at = 0
  /\ queues[OutcomesQueue] # << >>
  /\ Fault("call")
  /\ RetryOrReject(queues)
  /\ UNCHANGED << saga, ledger, start, expired, poller >>

(* A call fails in transit, after it took effect or before.               *)
CallFails(applied) ==
  LET t == Current.txn
      took(op) == applied /\ NextCall.op = op
  IN
  /\ Handling
  /\ delivery.at \in 1..Len(Calls)
  /\ Fault("call")
  /\ ledger' = IF took("patch")
               THEN [ledger EXCEPT ![t] = Patched(@, NextCall)] ELSE ledger
  /\ saga' = CASE took("status") ->
                    [saga EXCEPT ![t] = Restatused(@, NextCall)]
               [] took("step") -> [saga EXCEPT ![t].step = NextCall.step]
               [] OTHER -> saga
  /\ RetryOrReject(
       IF took("publish")
       THEN Publish(queues, Message(NextCall.status, t, NextCall.step))
       ELSE queues)
  /\ UNCHANGED << start, expired, poller >>

------------------------------------------------------------------------------
(* The timeout poller.                                                    *)

(* The clock passes the timeout_at of a saga.                             *)
Expire(t) ==
  /\ t \in MayExpire \ expired
  /\ saga[t].status = "running"
  /\ expired' = expired \cup { t }
  /\ UNCHANGED << saga, ledger, queues, start, delivery, poller, faults >>

(* ListTimedOutSagas: the rows, and with them the steps, are copied.      *)
ListTimedOut ==
  LET due == { t \in expired : saga[t].status = "running" } IN
  /\ poller = IdlePoller
  /\ due # {}
  /\ poller' = [poller EXCEPT
                  !.todo = { [txn |-> t, step |-> saga[t].step] : t \in due }]
  /\ UNCHANGED << saga, ledger, queues, start, delivery, expired, faults >>

TimeoutCall == PatchLedger("timed_out", "expired", "none")

(* The ledger first; if it refuses, the saga is left for the next poll.   *)
PatchTimedOut(e) ==
  /\ e \in poller.todo
  /\ poller.mark = {}
  /\ ledger' = [ledger EXCEPT ![e.txn] = Patched(@, TimeoutCall)]
  /\ poller' = [todo |-> poller.todo \ { e },
                mark |-> IF AcceptsStatus(ledger[e.txn], "timed_out")
                         THEN { e } ELSE {}]
  /\ UNCHANGED << saga, queues, start, delivery, expired, faults >>

(* Then the saga, with the step that was read when the rows were listed.  *)
MarkTimedOut(e) ==
  /\ e \in poller.mark
  /\ saga' = [saga EXCEPT ![e.txn] =
                Restatused(@, SetStatus("timed_out", "none", e.step))]
  /\ poller' = [poller EXCEPT !.mark = {}]
  /\ UNCHANGED << ledger, queues, start, delivery, expired, faults >>

(* Mutant: the poller marks the saga although its PATCH failed.           *)
PollerIgnoresFailure(e, applied) ==
  /\ Fault("call")
  /\ e \in poller.todo
  /\ poller.mark = {}
  /\ ledger' = IF applied
               THEN [ledger EXCEPT ![e.txn] = Patched(@, TimeoutCall)]
               ELSE ledger
  /\ poller' = [todo |-> poller.todo \ { e }, mark |-> { e }]
  /\ UNCHANGED << saga, queues, start, delivery, expired >>

(* A call of the poller fails; it goes on to the next saga.               *)
PollerCallFails(e, applied) ==
  /\ Fault("call")
  /\ \/ /\ e \in poller.todo
        /\ poller.mark = {}
        /\ ledger' = IF applied
                     THEN [ledger EXCEPT ![e.txn] = Patched(@, TimeoutCall)]
                     ELSE ledger
        /\ poller' = [poller EXCEPT !.todo = @ \ { e }]
        /\ UNCHANGED saga
     \/ /\ e \in poller.mark
        /\ ~ applied
        /\ poller' = [poller EXCEPT !.mark = {}]
        /\ UNCHANGED << saga, ledger >>
  /\ UNCHANGED << queues, start, delivery, expired >>

------------------------------------------------------------------------------
(***************************************************************************)
(* The process dies and is started again: its threads lose their place,    *)
(* the unacknowledged outcome is delivered again and clients whose request *)
(* was cut off repeat it.                                                  *)
(***************************************************************************)
Crash ==
  /\ Fault("crash")
  /\ delivery' = Waiting(0)
  /\ poller' = IdlePoller
  /\ start' = [t \in Txn |->
                 IF start[t] \in Working THEN "new" ELSE start[t]]
  /\ UNCHANGED << saga, ledger, queues, expired >>

------------------------------------------------------------------------------
(* The consumers of the commands, as far as the orchestrator can tell.    *)

Answers(key) ==
  CASE key = "payments.deposit.requested" ->
         { "provider.charge.succeeded", "provider.charge.failed" }
    [] key = "wallet.debit.requested" ->
         { "wallet.debited", "wallet.debit.rejected" }
    [] key = "wallet.credit.requested" -> { "wallet.credited" }
    [] key = "access.grant.requested" ->
         { "access.granted", "access.grant.conflicted" }
    [] key = "access.revoke.requested" ->
         { "access.revoked", "access.revoke.rejected" }

Answer(q, key) ==
  /\ queues[q] # << >>
  /\ key \in Answers(Head(queues[q]).key)
  /\ queues' = Ack(Publish(queues, Message(key, Head(queues[q]).txn, NoStep)),
                   q)
  /\ UNCHANGED << saga, ledger, start, delivery, expired, poller, faults >>

(* The answer is out but the command is delivered again.                  *)
AnswerUnacked(q, key) ==
  /\ queues[q] # << >>
  /\ Fault("redelivery")
  /\ key \in Answers(Head(queues[q]).key)
  /\ queues' = Publish(queues, Message(key, Head(queues[q]).txn, NoStep))
  /\ UNCHANGED << saga, ledger, start, delivery, expired, poller >>

(* The command fails on every attempt and is rejected.                    *)
GiveUp(q) ==
  /\ queues[q] # << >>
  /\ Fault("rejection")
  /\ queues' = Reject(queues, q)
  /\ UNCHANGED << saga, ledger, start, delivery, expired, poller >>

------------------------------------------------------------------------------
StartNext ==
  \E t \in Txn :
    \/ \E allowed \in BOOLEAN : Precheck(t, allowed)
    \/ RegisterTransaction(t)
    \/ CreateSaga(t)
    \/ Dispatch(t)
    \/ Finalize(t)
    \/ \E applied \in BOOLEAN : StartFails(t, applied)

ConsumerNext ==
  \/ ReadSaga
  \/ PatchTransaction
  \/ PublishNext
  \/ UpdateSagaStatus
  \/ UpdateSagaStep
  \/ AckOutcome
  \/ PatchRefused
  \/ LookupFails
  \/ \E applied \in BOOLEAN : CallFails(applied)

PollerNext ==
  \/ \E t \in Txn : Expire(t)
  \/ ListTimedOut
  \/ \E e \in PollEntries :
       \/ PatchTimedOut(e)
       \/ MarkTimedOut(e)
       \/ \E applied \in BOOLEAN : PollerCallFails(e, applied)

ParticipantNext ==
  \E q \in CommandQueues :
    \/ \E key \in OutcomeKeys : Answer(q, key) \/ AnswerUnacked(q, key)
    \/ GiveUp(q)

Next == StartNext \/ ConsumerNext \/ PollerNext \/ Crash \/ ParticipantNext

Spec == Init /\ [][Next]_vars

------------------------------------------------------------------------------
(***************************************************************************)
(* Fairness.  The consumer and the poller are goroutines that run as long  *)
(* as the process does; so are the consumers of the commands; the clock    *)
(* does pass timeout_at.  Clients need not start or repeat anything, and   *)
(* no fault has to happen.                                                 *)
(***************************************************************************)
ConsumerProgress ==
  \/ ReadSaga
  \/ PatchTransaction
  \/ PublishNext
  \/ UpdateSagaStatus
  \/ UpdateSagaStep
  \/ AckOutcome
  \/ PatchRefused

PollerProgress ==
  \/ ListTimedOut
  \/ \E e \in PollEntries : PatchTimedOut(e) \/ MarkTimedOut(e)

Fairness ==
  /\ WF_vars(ConsumerProgress)
  /\ WF_vars(PollerProgress)
  /\ \A t \in Txn : WF_vars(Expire(t))
  /\ \A q \in CommandQueues : WF_vars(\E key \in OutcomeKeys : Answer(q, key))

FairSpec == Spec /\ Fairness

------------------------------------------------------------------------------
(* Properties.                                                            *)

Messages ==
  [key : CommandKeys \cup OutcomeKeys, txn : Txn, step : SourceSteps]

(* Every variable keeps its type; the retry count stays within its limit. *)
TypeOK ==
  /\ saga \in [Txn -> SagaRows]
  /\ ledger \in [Txn -> LedgerRows]
  /\ queues \in [Queues -> Seq(Messages)]
  /\ start \in [Txn -> StartStages]
  /\ delivery \in [attempt : 0..MaxRetries, at : 0..4, seen : SagaRows]
  /\ expired \subseteq Txn
  /\ poller \in [todo : SUBSET PollEntries, mark : SUBSET PollEntries]
  /\ faults \in 0..MaxFaults

(* The ledger status that goes with each way a saga can end.              *)
Verdict(row) ==
  CASE row.outcome = "succeeded" -> "completed"
    [] row.outcome = "compensated" -> "compensated"
    [] OTHER -> "failed"

(***************************************************************************)
(* The two rows of a transaction are written by two services, one after    *)
(* the other, by the consumer and by the poller.  Once the saga has ended, *)
(* the ledger tells the client the same verdict.                           *)
(***************************************************************************)
TerminalSagaMatchesLedger ==
  \A t \in Txn :
    saga[t].status \in TerminalStatuses =>
      ledger[t].status = Verdict(saga[t])

(***************************************************************************)
(* A saga is marked timed_out only after the ledger accepted timed_out; a  *)
(* late outcome may have resolved the ledger since, but never back to      *)
(* pending and never to compensated.                                       *)
(***************************************************************************)
TimedOutSagaHasLedgerVerdict ==
  \A t \in Txn :
    saga[t].status = "timed_out" =>
      ledger[t].status \in { "timed_out", "completed", "failed" }

(***************************************************************************)
(* What the two writers of the saga rows rely on between their calls.  The *)
(* consumer, from the row it read until its last call: the saga is open,   *)
(* and once it has written a verdict to the ledger that verdict stands,    *)
(* although the poller writes to both rows meanwhile.  The poller, between *)
(* its two calls: the ledger is past pending and not compensated.          *)
(***************************************************************************)
Verdicts == { "completed", "failed", "compensated" }

WritersAreNotOvertaken ==
  /\ delivery.at > 0 =>
       /\ queues[OutcomesQueue] # << >>
       /\ delivery.at <= Len(Calls) + 1
  /\ Handling /\ delivery.at \in 1..Len(Calls) =>
       saga[Current.txn].status \notin TerminalStatuses
  /\ /\ Handling
     /\ delivery.at = 2
     /\ Len(Calls) = 2
     /\ Calls[1].op = "patch"
     => ledger[Current.txn].status = Calls[1].status
  /\ \A e \in poller.mark :
       ledger[e.txn].status \in { "timed_out", "completed", "failed" }

(***************************************************************************)
(* Nothing of a transaction changes after its saga has ended: not by a     *)
(* duplicated or late outcome, nor by a poller that listed it earlier, nor *)
(* by the step update, which is not validated, nor by a repeated start.    *)
(***************************************************************************)
SettledIsFinal ==
  [][\A t \in Txn :
       saga[t].status \in TerminalStatuses =>
         /\ saga'[t] = saga[t]
         /\ ledger'[t] = ledger[t]]_vars

(***************************************************************************)
(* The provider's reference is stored by one event and the deposit         *)
(* completed by a later one; in between the poller may rewrite the saga's  *)
(* step and reason.  A deposit never completes without the reference.      *)
(***************************************************************************)
CompletedDepositHasProviderRef ==
  \A t \in Txn :
    TypeOf[t] = "deposit" /\ ledger[t].status = "completed" =>
      ledger[t].ref # "none"

Queued(q) == { queues[q][i] : i \in DOMAIN queues[q] }

(***************************************************************************)
(* Money is handed back for a purchase only if its saga row says that it   *)
(* is being compensated, or has been: no crash, repetition or timeout      *)
(* leaves a compensation credit on its way that the saga does not expect.  *)
(***************************************************************************)
CompensationIsRecorded ==
  \A m \in Queued("wallets.commands") :
    m.step = "purchase_compensation" =>
      \/ saga[m.txn].status = "compensating"
      \/ saga[m.txn].outcome = "compensated"

(***************************************************************************)
(* When no call fails, a verdict in the ledger reaches the saga row within *)
(* the same delivery: no saga is left open behind a decided transaction.   *)
(***************************************************************************)
VerdictReachesSaga ==
  \A t \in Txn :
    /\ ledger[t].status \in Verdicts
    /\ saga[t].status \notin TerminalStatuses
    /\ faults = 0
    => Handling /\ Current.txn = t

(* The steps a saga has left when the event about a later one is handled. *)
LeftBehind(type, key) ==
  CASE type = "deposit" /\ key = "wallet.credited" -> { "deposit_charge" }
    [] type = "refund" /\ key = "wallet.credited" ->
         { "refund_revoke_access" }
    [] type = "purchase"
       /\ key \in { "access.granted", "access.grant.conflicted" } ->
         { "purchase_debit" }
    [] type = "purchase" /\ key = "wallet.credited" ->
         { "purchase_debit", "purchase_grant" }
    [] OTHER -> {}

(***************************************************************************)
(* A command is published before the saga row is moved to the step that    *)
(* expects its answer.  Even so no answer is handled too early, which      *)
(* would ignore it for good: the consumer is serial and a delivery that    *)
(* failed after the publish is finished before the answer is reached.      *)
(* Within its timeout a saga has no other writer of its step.  That takes  *)
(* as many retries as there are faults: when the last attempt fails after  *)
(* its publish, the delivery is rejected and the row is never moved.       *)
(***************************************************************************)
AnswerFindsItsStep ==
  Handling /\ Current.txn \notin expired =>
    delivery.seen.step \notin LeftBehind(TypeOf[Current.txn], Current.key)

(* The command whose answer a saga is waiting for at its step.            *)
StepCommand(step) ==
  CASE step = "deposit_charge" -> "payments.deposit.requested"
    [] step = "purchase_debit" -> "wallet.debit.requested"
    [] step = "purchase_grant" -> "access.grant.requested"
    [] step = "refund_revoke_access" -> "access.revoke.requested"
    [] step \in { "deposit_credit", "refund_credit",
                  "purchase_compensation_credit" } ->
         "wallet.credit.requested"

Awaited(t) ==
  LET command == StepCommand(saga[t].step) IN
  \E q \in Queues : \E m \in Queued(q) :
    m.txn = t /\ m.key \in { command } \cup Answers(command)

(***************************************************************************)
(* No running saga is stranded: the command of its step, or an answer to   *)
(* it, is on its way.  So it is after the first step, and at the first one *)
(* from the moment the client may be told 202.  The saga is only moved by  *)
(* a message; if a handler, failed, repeated, or cut off by a crash, used  *)
(* up the one message without leaving the next, only the timeout would     *)
(* end it.  That takes a message not to be rejected, which is lost, so     *)
(* again no more faults than retries.                                      *)
(***************************************************************************)
OpenSagaIsDriven ==
  \A t \in Txn \ expired :
    /\ saga[t].status = "running"
    /\ \/ saga[t].step # FirstStep(TypeOf[t])
       \/ start[t] \in { "answer", "accepted" }
    => Awaited(t)

(***************************************************************************)
(* A deposit that timed out while its credit was being booked is resolved  *)
(* by the late outcome: the handler does not ignore it.                    *)
(***************************************************************************)
LateOutcomeResolvesDeposit ==
  /\ Handling
  /\ TypeOf[Current.txn] = "deposit"
  /\ Current.key = "wallet.credited"
  /\ delivery.seen.status = "timed_out"
  => Calls # Ignore

(* A purchase whose compensation has started is settled.                  *)
CompensationEnds ==
  \A t \in Txn :
    saga[t].status = "compensating" ~> saga[t].status \in TerminalStatuses

(* A saga does not stay running beyond its timeout.                       *)
RunningEnds ==
  \A t \in Txn :
    saga[t].status = "running" ~> saga[t].status # "running"

(* A transaction whose first command is out, and which does not time out, *)
(* gets a verdict and its saga ends, whether or not the client was         *)
(* answered.                                                              *)
AcceptedIsSettled ==
  \A t \in Txn \ MayExpire :
    start[t] \in { "answer", "accepted" } ~>
      saga[t].status \in TerminalStatuses

------------------------------------------------------------------------------
(***************************************************************************)
(* The two rows of each transaction, written by three threads with crashes *)
(* and repetitions in between, behave like the two atomic facts of module  *)
(* Settlement.                                                             *)
(***************************************************************************)
Promise == INSTANCE Settlement WITH
  verdict <- [t \in Txn |-> ledger[t].status],
  settled <- { t \in Txn : saga[t].status \in TerminalStatuses }

ImplementsSettlement == Promise!Spec
===============================================================================
