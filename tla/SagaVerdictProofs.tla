-------------------------- MODULE SagaVerdictProofs --------------------------
(***************************************************************************)
(* The saga and the ledger agree on how a transaction ended, and nothing   *)
(* of it changes afterwards.                                               *)
(*                                                                         *)
(* The inductive invariant is typing, what each writer relies on between   *)
(* its calls, and the two relations between saga and ledger rows.  From it *)
(* follows also that the orchestrator implements module Settlement.        *)
(***************************************************************************)
EXTENDS SagaOrchestratorProofs

(* The inductive invariant.                                                *)
IInv ==
  /\ TypeOK
  /\ WritersAreNotOvertaken
  /\ TerminalSagaMatchesLedger
  /\ TimedOutSagaHasLedgerVerdict

(* How the status of a ledger row changes in a step of the system.        *)
LedgerMoves(from, to) ==
  \/ to = from
  \/ from = "absent" /\ to = "pending"
  \/ LegalTransition(from, to) /\ to # "reconciliation_required"

(* A PATCH makes a legal move of the ledger or changes nothing.           *)
LEMMA PatchedMoves ==
  ASSUME NEW row \in LedgerRows, NEW call,
         call.status # "reconciliation_required"
  PROVE  /\ LedgerMoves(row.status, Patched(row, call).status)
         /\ AcceptsStatus(row, call.status) =>
              Patched(row, call).status = call.status
         /\ ~ AcceptsStatus(row, call.status) => Patched(row, call) = row
BY DEF Patched, WithStatus, AcceptsStatus, LedgerMoves

(* A registration moves an absent row only.                               *)
LEMMA RegisteredMoves ==
  ASSUME NEW row \in LedgerRows
  PROVE  /\ LedgerMoves(row.status, Registered(row).status)
         /\ row.status # "absent" => Registered(row) = row
BY DEF Registered, LedgerMoves, LedgerRows

(* No legal move leaves a verdict, nor returns to pending after a timeout.*)
LEMMA MovesKeepVerdicts ==
  ASSUME NEW from, NEW to, LedgerMoves(from, to)
  PROVE  /\ from \in Verdicts => to = from
         /\ from \in { "timed_out", "completed", "failed" } =>
              to \in { "timed_out", "completed", "failed" }
BY DEF LedgerMoves, LegalTransition, Verdicts

(* A timeout refused by the ledger changes nothing; one it accepts shows. *)
LEMMA TimeoutMoves ==
  ASSUME NEW row \in LedgerRows
  PROVE  /\ LedgerMoves(row.status, Patched(row, TimeoutCall).status)
         /\ AcceptsStatus(row, "timed_out") =>
              Patched(row, TimeoutCall).status = "timed_out"
         /\ row.status \in Verdicts => Patched(row, TimeoutCall) = row
<1>1. TimeoutCall.status = "timed_out"
  BY DEF TimeoutCall, PatchLedger, Call
<1>2. row.status \in Verdicts => ~ AcceptsStatus(row, "timed_out")
  BY DEF Verdicts, AcceptsStatus, LegalTransition
<1> QED BY <1>1, <1>2, PatchedMoves

(* Every step makes at most a legal move of each ledger row.              *)
LEMMA LedgerStep ==
  ASSUME OrchestratorAssumption, TypeOK, [Next]_vars, NEW t \in Txn
  PROVE  LedgerMoves(ledger[t].status, ledger'[t].status)
<1> USE DEF LedgerMoves
<1>t. ledger \in [Txn -> LedgerRows]
  BY DEF TypeOK
<1>s. ASSUME ledger' = ledger
      PROVE  LedgerMoves(ledger[t].status, ledger'[t].status)
  BY <1>s
<1>r. ASSUME NEW u \in Txn, ledger' = [ledger EXCEPT ![u] = Registered(@)]
      PROVE  LedgerMoves(ledger[t].status, ledger'[t].status)
  BY <1>t, <1>r, RegisteredMoves
<1>p. ASSUME NEW u \in Txn, NEW call, call.status # "reconciliation_required",
             ledger' = [ledger EXCEPT ![u] = Patched(@, call)]
      PROVE  LedgerMoves(ledger[t].status, ledger'[t].status)
  BY <1>t, <1>p, PatchedMoves
<1>x. ASSUME NEW u \in Txn, ledger' = [ledger EXCEPT ![u] = Patched(@, TimeoutCall)]
      PROVE  LedgerMoves(ledger[t].status, ledger'[t].status)
  BY <1>t, <1>x, TimeoutMoves
<1>h. ASSUME Handling, delivery.at \in 1..Len(Calls), NextCall.op = "patch",
             ledger' = [ledger EXCEPT ![Current.txn] = Patched(@, NextCall)]
      PROVE  LedgerMoves(ledger[t].status, ledger'[t].status)
  <2>1. /\ Current.txn \in Txn
        /\ NextCall.status # "reconciliation_required"
    BY <1>h, CallIsTyped, CallKinds
  <2> QED BY <1>h, <1>p, <2>1
<1>1. CASE StartNext
  BY <1>1, <1>s, <1>r
  DEF StartNext, Precheck, RegisterTransaction, CreateSaga, Dispatch, Finalize, StartFails
<1>2. CASE PatchTransaction
  BY <1>2, <1>h DEF PatchTransaction, About, NextCall
<1>3. ASSUME NEW applied \in BOOLEAN, CallFails(applied)
      PROVE  LedgerMoves(ledger[t].status, ledger'[t].status)
  BY <1>3, <1>h, <1>s DEF CallFails
<1>4. CASE \/ ReadSaga \/ PublishNext \/ UpdateSagaStatus \/ UpdateSagaStep
           \/ AckOutcome \/ PatchRefused \/ LookupFails
  BY <1>4, <1>s DEF ReadSaga, PublishNext, UpdateSagaStatus, UpdateSagaStep,
                    AckOutcome, PatchRefused, LookupFails
<1>5. CASE PollerNext
  BY <1>5, <1>s, <1>x
  DEF PollerNext, Expire, ListTimedOut, PatchTimedOut, MarkTimedOut,
      PollerCallFails, PollEntries
<1>6. CASE Crash \/ ParticipantNext \/ UNCHANGED vars
  BY <1>6, <1>s DEF Crash, ParticipantNext, Answer, AnswerUnacked, GiveUp, vars
<1> QED BY <1>1, <1>2, <1>3, <1>4, <1>5, <1>6 DEF Next, ConsumerNext

------------------------------------------------------------------------------
(* What the other threads can do while the consumer is between two calls. *)

OtherThreads ==
  StartNext \/ PollerNext \/ ParticipantNext \/ UNCHANGED vars

(* A step of anyone but the consumer leaves the outcome being handled alone.*)
LEMMA DeliveryUndisturbed ==
  ASSUME OrchestratorAssumption, TypeOK, OtherThreads
  PROVE  /\ delivery' = delivery
         /\ queues[OutcomesQueue] # << >> =>
              /\ queues'[OutcomesQueue] # << >>
              /\ Current' = Current
<1>0. /\ queues \in QueueStates
      /\ OutcomesQueue \in Queues
      /\ CommandQueues \subseteq Queues
      /\ \A q \in CommandQueues : OutcomesQueue \in Queues \ { q, DeadLetterQueue }
  BY DEF TypeOK, QueueStates, Queues, OutcomesQueue, CommandQueues, DeadLetterQueue
<1>s. ASSUME queues' = queues
      PROVE  queues[OutcomesQueue] # << >> =>
               /\ queues'[OutcomesQueue] # << >>
               /\ Current' = Current
  BY <1>s DEF Current
<1>p. ASSUME NEW msg \in Messages, queues' = Publish(queues, msg)
      PROVE  queues[OutcomesQueue] # << >> =>
               /\ queues'[OutcomesQueue] # << >>
               /\ Current' = Current
  BY <1>0, <1>p, PublishedQueues DEF Current
<1>1. CASE StartNext
  <2>1. delivery' = delivery
    BY <1>1 DEF StartNext, Precheck, RegisterTransaction, CreateSaga, Dispatch, Finalize,
                StartFails
  <2>2. \/ queues' = queues
        \/ \E t \in Txn : queues' = Publish(queues, FirstCommand(TypeOf[t], t))
    BY <1>1 DEF StartNext, Precheck, RegisterTransaction, CreateSaga, Dispatch, Finalize,
                StartFails
  <2> QED BY <1>s, <1>p, <2>1, <2>2, FirstCommandIsTyped
<1>2. CASE PollerNext \/ UNCHANGED vars
  <2>1. delivery' = delivery /\ queues' = queues
    BY <1>2 DEF PollerNext, Expire, ListTimedOut, PatchTimedOut, MarkTimedOut,
                PollerCallFails, vars
  <2> QED BY <1>s, <2>1
<1>a. ASSUME NEW q \in CommandQueues, NEW key \in OutcomeKeys,
             queues[q] # << >>
      PROVE  Message(key, Head(queues[q]).txn, NoStep) \in Messages
  <2>1. Head(queues[q]) \in Messages
    BY <1>0, <1>a DEF QueueStates
  <2> QED BY <2>1 DEF Message, Messages, NoStep, SourceSteps
<1>3. ASSUME NEW q \in CommandQueues, NEW key \in OutcomeKeys, Answer(q, key)
      PROVE  queues[OutcomesQueue] # << >> =>
               /\ queues'[OutcomesQueue] # << >>
               /\ Current' = Current
  <2> DEFINE msg == Message(key, Head(queues[q]).txn, NoStep)
             sent == Publish(queues, msg)
  <2>1. msg \in Messages
    BY <1>3, <1>a DEF Answer
  <2>2. /\ sent \in QueueStates
        /\ sent[q] # << >>
        /\ queues[OutcomesQueue] # << >> =>
             /\ sent[OutcomesQueue] # << >>
             /\ Head(sent[OutcomesQueue]) = Head(queues[OutcomesQueue])
    <3> HIDE DEF msg
    <3> QED BY <1>0, <1>3, <2>1, PublishedQueues DEF Answer
  <2>3. queues' = Ack(sent, q)
    BY <1>3 DEF Answer
  <2>4. Ack(sent, q)[OutcomesQueue] = sent[OutcomesQueue]
    <3> HIDE DEF sent
    <3> QED BY <1>0, <2>2, AckedQueues
  <2> HIDE DEF sent
  <2> QED BY <2>2, <2>3, <2>4 DEF Current
<1>4. ASSUME NEW q \in CommandQueues, NEW key \in OutcomeKeys,
             AnswerUnacked(q, key)
      PROVE  queues[OutcomesQueue] # << >> =>
               /\ queues'[OutcomesQueue] # << >>
               /\ Current' = Current
  BY <1>4, <1>a, <1>p DEF AnswerUnacked
<1>5. ASSUME NEW q \in CommandQueues, GiveUp(q)
      PROVE  queues[OutcomesQueue] # << >> =>
               /\ queues'[OutcomesQueue] # << >>
               /\ Current' = Current
  <2>1. queues'[OutcomesQueue] = queues[OutcomesQueue]
    BY <1>0, <1>5, RejectedQueues DEF GiveUp
  <2> QED BY <2>1 DEF Current
<1>6. CASE ParticipantNext
  <2>1. delivery' = delivery
    BY <1>6 DEF ParticipantNext, Answer, AnswerUnacked, GiveUp
  <2> QED BY <1>3, <1>4, <1>5, <1>6, <2>1 DEF ParticipantNext
<1> QED BY <1>1, <1>2, <1>6 DEF OtherThreads

(* They create saga rows and mark running ones timed out, nothing else.   *)
LEMMA SagaUndisturbed ==
  ASSUME OrchestratorAssumption, TypeOK, OtherThreads, NEW t \in Txn
  PROVE  \/ saga'[t] = saga[t]
         \/ saga[t].status = "absent" /\ saga'[t].status = "running"
         \/ /\ saga[t].status = "running"
            /\ saga'[t].status = "timed_out"
            /\ \E e \in poller.mark : e.txn = t
<1>t. /\ saga \in [Txn -> SagaRows]
      /\ poller.mark \subseteq PollEntries
  BY DEF TypeOK
<1>1. CASE StartNext
  <2>1. \/ saga' = saga
        \/ \E u \in Txn : saga' = [saga EXCEPT ![u] = Created(@, u)]
    BY <1>1 DEF StartNext, Precheck, RegisterTransaction, CreateSaga, Dispatch, Finalize,
                StartFails
  <2>2. \A u \in Txn :
          \/ Created(saga[u], u) = saga[u]
          \/ saga[u].status = "absent" /\ Created(saga[u], u).status = "running"
    BY DEF Created
  <2> QED BY <1>t, <2>1, <2>2
<1>2. ASSUME NEW e \in PollEntries, MarkTimedOut(e)
      PROVE  \/ saga'[t] = saga[t]
             \/ /\ saga[t].status = "running"
                /\ saga'[t].status = "timed_out"
                /\ e.txn = t
  <2>1. \A row \in SagaRows :
          LET new == Restatused(row, SetStatus("timed_out", "none", e.step)) IN
          \/ new = row
          \/ row.status = "running" /\ new.status = "timed_out"
    BY DEF Restatused, SetStatus, Call, LegalSagaTransition
  <2> QED BY <1>t, <1>2, <2>1 DEF MarkTimedOut
<1>3. CASE PollerNext
  BY <1>2, <1>3 DEF PollerNext, Expire, ListTimedOut, PatchTimedOut,
                    PollerCallFails, MarkTimedOut
<1>4. CASE ParticipantNext \/ UNCHANGED vars
  BY <1>4 DEF ParticipantNext, Answer, AnswerUnacked, GiveUp, vars
<1> QED BY <1>1, <1>3, <1>4 DEF OtherThreads

------------------------------------------------------------------------------
(* The relations between the two rows of one transaction.                 *)

Agree(row, status) ==
  /\ row.status \in TerminalStatuses => status = Verdict(row)
  /\ row.status = "timed_out" =>
       status \in { "timed_out", "completed", "failed" }

(* The agreement of one transaction's two rows, taken out of the invariant.*)
LEMMA Agreement ==
  TerminalSagaMatchesLedger /\ TimedOutSagaHasLedgerVerdict
    <=> \A t \in Txn : Agree(saga[t], ledger[t].status)
BY DEF TerminalSagaMatchesLedger, TimedOutSagaHasLedgerVerdict, Agree

(* The same for the next state.                                           *)
LEMMA AgreementAfter ==
  (TerminalSagaMatchesLedger /\ TimedOutSagaHasLedgerVerdict)'
    <=> \A t \in Txn : Agree(saga'[t], ledger'[t].status)
BY DEF TerminalSagaMatchesLedger, TimedOutSagaHasLedgerVerdict, Agree

(* A saga row that keeps its status and outcome stays in agreement.       *)
LEMMA MovesKeepAgreement ==
  ASSUME NEW row, NEW new, NEW from, NEW to,
         Agree(row, from), LedgerMoves(from, to),
         new.status = row.status, new.outcome = row.outcome
  PROVE  Agree(new, to)
<1>1. Verdict(new) = Verdict(row)
  BY DEF Verdict
<1>2. Verdict(row) \in Verdicts
  BY DEF Verdict, Verdicts
<1> QED BY <1>1, <1>2, MovesKeepVerdicts DEF Agree

(* Everyone but the consumer keeps the rows agreeing, the poller too.     *)
LEMMA OthersKeepAgreement ==
  ASSUME OrchestratorAssumption, IInv, OtherThreads, [Next]_vars, NEW t \in Txn
  PROVE  Agree(saga'[t], ledger'[t].status)
<1>1. /\ TypeOK
      /\ Agree(saga[t], ledger[t].status)
  BY Agreement DEF IInv
<1>2. LedgerMoves(ledger[t].status, ledger'[t].status)
  BY <1>1, LedgerStep
<1>3. CASE saga'[t] = saga[t]
  BY <1>1, <1>2, <1>3, MovesKeepAgreement
<1>4. CASE saga'[t].status = "running"
  BY <1>4 DEF Agree, TerminalStatuses
<1>5. CASE /\ saga'[t].status = "timed_out"
           /\ \E e \in poller.mark : e.txn = t
  <2>1. ledger[t].status \in { "timed_out", "completed", "failed" }
    BY <1>5 DEF IInv, WritersAreNotOvertaken
  <2> QED BY <1>2, <1>5, <2>1, MovesKeepVerdicts DEF Agree, TerminalStatuses
<1> QED BY <1>1, <1>3, <1>4, <1>5, SagaUndisturbed

(* The poller holds on to a row only after the ledger took the timeout.   *)
LEMMA MarkedIsTimedOut ==
  ASSUME OrchestratorAssumption, IInv, [Next]_vars, NEW e \in poller'.mark
  PROVE  ledger'[e.txn].status \in { "timed_out", "completed", "failed" }
<1>t. /\ TypeOK
      /\ ledger \in [Txn -> LedgerRows]
      /\ poller \in [todo : SUBSET PollEntries, mark : SUBSET PollEntries]
  BY DEF IInv, TypeOK
<1>1. CASE e \in poller.mark
  <2>1. e.txn \in Txn
    BY <1>t, <1>1 DEF PollEntries
  <2>2. ledger[e.txn].status \in { "timed_out", "completed", "failed" }
    BY <1>1 DEF IInv, WritersAreNotOvertaken
  <2> QED BY <1>t, <2>1, <2>2, LedgerStep, MovesKeepVerdicts
<1>2. ASSUME NEW f \in PollEntries, PatchTimedOut(f), e \notin poller.mark
      PROVE  ledger'[e.txn].status = "timed_out"
  <2>1. /\ e = f
        /\ AcceptsStatus(ledger[f.txn], "timed_out")
    BY <1>2, <1>t DEF PatchTimedOut
  <2>2. f.txn \in Txn
    BY DEF PollEntries
  <2>3. ledger'[f.txn] = Patched(ledger[f.txn], TimeoutCall)
    BY <1>t, <1>2, <2>2 DEF PatchTimedOut
  <2>4. ledger[f.txn] \in LedgerRows
    BY <1>t, <2>2
  <2>5. Patched(ledger[f.txn], TimeoutCall).status = "timed_out"
    BY <2>1, <2>4, TimeoutMoves
  <2> QED BY <2>1, <2>3, <2>5
<1>3. CASE e \notin poller.mark
  <2>1. \E f \in PollEntries : PatchTimedOut(f)
    <3>1. ~ (StartNext \/ ConsumerNext \/ ParticipantNext)
      BY <1>3
      DEF StartNext, ConsumerNext, ParticipantNext,
          Precheck, RegisterTransaction, CreateSaga, Dispatch, Finalize,
          StartFails, ReadSaga, PatchTransaction, PublishNext, UpdateSagaStatus,
          UpdateSagaStep, AckOutcome, PatchRefused, LookupFails, CallFails,
          Answer, AnswerUnacked, GiveUp
    <3>2. ~ Crash /\ ~ UNCHANGED vars
      BY <1>3 DEF Crash, IdlePoller, vars
    <3>3. PollerNext
      BY <3>1, <3>2 DEF Next
    <3> QED BY <1>3, <1>t, <3>3
            DEF PollerNext, Expire, ListTimedOut, MarkTimedOut, PollerCallFails,
                IdlePoller
  <2> QED BY <1>2, <1>3, <2>1
<1> QED BY <1>1, <1>3

------------------------------------------------------------------------------
(* The consumer's own steps.                                              *)

(* A status the consumer writes agrees with the ledger as it is then.     *)
LEMMA WriteAgrees ==
  ASSUME OrchestratorAssumption, IInv, Handling,
         delivery.at \in 1..Len(Calls), NextCall.op = "status"
  PROVE  Agree(Restatused(saga[Current.txn], NextCall),
               ledger[Current.txn].status)
<1> DEFINE old == saga[Current.txn]
           new == Restatused(old, NextCall)
<1>0. TypeOK
  BY DEF IInv
<1>1. Agree(old, ledger[Current.txn].status)
  BY <1>0, CallIsTyped, Agreement DEF IInv
<1>2. CASE ~ LegalSagaTransition(old.status, NextCall.status)
  BY <1>1, <1>2 DEF Restatused
<1>3. CASE /\ LegalSagaTransition(old.status, NextCall.status)
           /\ NextCall.status = "compensating"
  BY <1>3 DEF Restatused, Agree, TerminalStatuses
<1>4. CASE /\ LegalSagaTransition(old.status, NextCall.status)
           /\ delivery.at = 2
           /\ Decides(Calls)
  <2>1. ledger[Current.txn].status = Calls[1].status
    BY <1>4 DEF IInv, WritersAreNotOvertaken, Decides
  <2>2. NextCall = Calls[2]
    BY <1>4 DEF NextCall
  <2>3. /\ Calls[1].status = Verdict([outcome |-> Calls[2].detail])
        /\ Calls[2].status \in { "completed", "failed" }
    BY <1>4 DEF Decides
  <2>4. /\ new.status \in { "completed", "failed" }
        /\ new.outcome = Calls[2].detail
    BY <1>4, <2>2, <2>3 DEF Restatused
  <2>5. Verdict(new) = Verdict([outcome |-> Calls[2].detail])
    BY <2>4 DEF Verdict
  <2> QED BY <2>1, <2>3, <2>4, <2>5 DEF Agree
<1> QED BY <1>0, <1>2, <1>3, <1>4, CallKinds

(* The consumer keeps the rows of every transaction agreeing.             *)
LEMMA ConsumerKeepsAgreement ==
  ASSUME OrchestratorAssumption, IInv, ConsumerNext, [Next]_vars, NEW t \in Txn
  PROVE  Agree(saga'[t], ledger'[t].status)
<1>0. /\ TypeOK
      /\ Agree(saga[t], ledger[t].status)
      /\ saga \in [Txn -> SagaRows]
      /\ LedgerMoves(ledger[t].status, ledger'[t].status)
  BY Agreement, LedgerStep DEF IInv, TypeOK
<1>s. ASSUME saga' = saga
      PROVE  Agree(saga'[t], ledger'[t].status)
  BY <1>0, <1>s, MovesKeepAgreement
<1>w. ASSUME Handling, delivery.at \in 1..Len(Calls), NextCall.op = "status",
             ledger' = ledger,
             saga' = [saga EXCEPT ![Current.txn] = Restatused(@, NextCall)]
      PROVE  Agree(saga'[t], ledger'[t].status)
  <2>1. Agree(Restatused(saga[Current.txn], NextCall),
              ledger[Current.txn].status)
    BY <1>w, WriteAgrees
  <2> QED BY <1>0, <1>w, <2>1
<1>p. ASSUME Handling, delivery.at \in 1..Len(Calls), NextCall.op = "step",
             saga' = [saga EXCEPT ![Current.txn].step = NextCall.step]
      PROVE  Agree(saga'[t], ledger'[t].status)
  <2>1. /\ saga'[t].status = saga[t].status
        /\ saga'[t].outcome = saga[t].outcome
    BY <1>0, <1>p DEF SagaRows
  <2> QED BY <1>0, <2>1, MovesKeepAgreement
<1>1. CASE \/ ReadSaga \/ PatchTransaction \/ PublishNext \/ AckOutcome
           \/ PatchRefused \/ LookupFails
  BY <1>1, <1>s DEF ReadSaga, PatchTransaction, PublishNext, AckOutcome,
                    PatchRefused, LookupFails
<1>2. CASE UpdateSagaStatus
  BY <1>2, <1>w DEF UpdateSagaStatus, About, NextCall
<1>3. CASE UpdateSagaStep
  BY <1>3, <1>p DEF UpdateSagaStep, About, NextCall
<1>4. ASSUME NEW applied \in BOOLEAN, CallFails(applied)
      PROVE  Agree(saga'[t], ledger'[t].status)
  <2>1. CASE applied /\ NextCall.op = "status"
    BY <1>4, <1>w, <2>1 DEF CallFails
  <2>2. CASE applied /\ NextCall.op = "step"
    BY <1>4, <1>p, <2>2 DEF CallFails
  <2>3. CASE ~ (applied /\ NextCall.op \in { "status", "step" })
    BY <1>4, <1>s, <2>3 DEF CallFails
  <2> QED BY <2>1, <2>2, <2>3
<1> QED BY <1>1, <1>2, <1>3, <1>4 DEF ConsumerNext

(* The first three parts of WritersAreNotOvertaken, which are about the   *)
(* consumer.                                                              *)
ConsumerIsNotOvertaken ==
  /\ delivery.at > 0 =>
       /\ queues[OutcomesQueue] # << >>
       /\ delivery.at <= Len(Calls) + 1
  /\ Handling /\ delivery.at \in 1..Len(Calls) =>
       saga[Current.txn].status \notin TerminalStatuses
  /\ /\ Handling
     /\ delivery.at = 2
     /\ Len(Calls) = 2
     /\ Calls[1].op = "patch"
     => ledger[Current.txn].status = Calls[1].status

(* The handler that is under way, with its calls and its place in them.   *)
LEMMA OthersKeepConsumer ==
  ASSUME OrchestratorAssumption, IInv, OtherThreads, [Next]_vars
  PROVE  ConsumerIsNotOvertaken'
<1>0. /\ TypeOK
      /\ ConsumerIsNotOvertaken
  BY DEF IInv, WritersAreNotOvertaken, ConsumerIsNotOvertaken
<1>1. CASE ~ (delivery.at > 0)
  <2>1. ~ (delivery'.at > 0) /\ delivery'.at # 2
    BY <1>0, <1>1, DeliveryUndisturbed
  <2> QED BY <2>1 DEF ConsumerIsNotOvertaken, Handling
<1>2. CASE delivery.at > 0
  <2>1. /\ queues[OutcomesQueue] # << >>
        /\ delivery' = delivery
        /\ queues'[OutcomesQueue] # << >>
        /\ Current' = Current
        /\ Calls' = Calls
        /\ Handling
    BY <1>0, <1>2, DeliveryUndisturbed
    DEF ConsumerIsNotOvertaken, Calls, Handling
  <2>2. Current.txn \in Txn
    <3>1. queues[OutcomesQueue] \in Seq(Messages)
      BY <1>0 DEF TypeOK, Queues
    <3>2. Current \in Messages
      BY <2>1, <3>1 DEF Current
    <3> QED BY <3>2 DEF Messages
  <2>3. ASSUME delivery.at \in 1..Len(Calls)
        PROVE  saga'[Current.txn].status \notin TerminalStatuses
    <3>1. saga[Current.txn].status \notin TerminalStatuses
      BY <1>0, <2>1, <2>3 DEF ConsumerIsNotOvertaken
    <3> QED BY <1>0, <2>2, <3>1, SagaUndisturbed DEF TerminalStatuses
  <2>4. ASSUME delivery.at = 2, Len(Calls) = 2, Calls[1].op = "patch"
        PROVE  ledger'[Current.txn].status = Calls[1].status
    <3>1. ledger[Current.txn].status = Calls[1].status
      BY <1>0, <2>1, <2>4 DEF ConsumerIsNotOvertaken
    <3>2. delivery.at \in 1..Len(Calls)
      BY <2>4
    <3>3. Calls[1].status \in Verdicts
      BY <1>0, <2>1, <2>4, <3>2, CallIsTyped
      DEF Decides, Continues, Compensates, Records
    <3> QED BY <1>0, <2>2, <3>1, <3>3, LedgerStep, MovesKeepVerdicts
  <2> QED BY <1>0, <1>2, <2>1, <2>3, <2>4 DEF ConsumerIsNotOvertaken, Handling
<1> QED BY <1>1, <1>2

(* A failed attempt leaves the consumer nothing to rely on.               *)
LEMMA RetryKeepsConsumer ==
  ASSUME delivery'.at = 0
  PROVE  ConsumerIsNotOvertaken'
BY DEF ConsumerIsNotOvertaken, Handling

(* A handler that starts on the row it read finds the saga open.          *)
LEMMA ReadKeepsConsumer ==
  ASSUME OrchestratorAssumption, IInv, ReadSaga
  PROVE  ConsumerIsNotOvertaken'
<1>0. TypeOK
  BY DEF IInv
<1>1. /\ queues' = queues
      /\ queues[OutcomesQueue] # << >>
      /\ saga' = saga
      /\ Current' = Current
      /\ delivery'.at = 1
      /\ delivery'.seen = saga[Current.txn]
  BY <1>0 DEF ReadSaga, Current, TypeOK
<1>2. Current.txn \in Txn
  <2>1. queues[OutcomesQueue] \in Seq(Messages)
    BY <1>0 DEF TypeOK, Queues
  <2>2. Current \in Messages
    BY <1>1, <2>1 DEF Current
  <2> QED BY <2>2 DEF Messages
<1>3. TypeOf[Current.txn] \in SagaTypes
  BY <1>2 DEF OrchestratorAssumption
<1>4. Calls' = HandlerCalls(TypeOf[Current.txn], Current.key, saga[Current.txn])
  BY <1>1 DEF Calls
<1>5. CASE Calls' = << >>
  <2>1. Len(Calls') = 0
    BY <1>5
  <2>2. 1 <= 0 + 1 /\ 1 \notin 1..0
    OBVIOUS
  <2> QED BY <1>1, <2>1, <2>2 DEF ConsumerIsNotOvertaken, Handling
<1>6. CASE Calls' # << >>
  <2>1. /\ saga[Current.txn].status \notin TerminalStatuses
        /\ Len(Calls') \in 2..3
    <3> DEFINE c == HandlerCalls(TypeOf[Current.txn], Current.key,
                                 saga[Current.txn])
    <3>1. /\ saga[Current.txn].status \notin TerminalStatuses
          /\ Decides(c) \/ Continues(c) \/ Compensates(c) \/ Records(c)
      BY <1>3, <1>4, <1>6, HandlerShape
    <3> HIDE DEF c
    <3>2. Len(c) \in 2..3
      BY <3>1 DEF Decides, Continues, Compensates, Records
    <3>3. Calls' = c
      BY <1>4 DEF c
    <3> QED BY <3>1, <3>2, <3>3
  <2>2. \A n \in 2..3 : 1 <= n + 1
    OBVIOUS
  <2> QED BY <1>1, <2>1, <2>2 DEF ConsumerIsNotOvertaken, Handling
<1> QED BY <1>5, <1>6

(* A call that succeeds takes the handler to its next one.                *)
LEMMA AdvanceKeepsConsumer ==
  ASSUME OrchestratorAssumption, IInv, Handling,
         delivery.at \in 1..Len(Calls), Advance,
         queues'[OutcomesQueue] # << >>, Current' = Current,
         delivery.at < Len(Calls) =>
           saga'[Current.txn].status \notin TerminalStatuses,
         NextCall.op = "patch" =>
           ledger'[Current.txn].status = NextCall.status
  PROVE  ConsumerIsNotOvertaken'
<1>0. /\ TypeOK
      /\ delivery \in [attempt : 0..MaxRetries, at : 0..4, seen : SagaRows]
  BY DEF IInv, TypeOK
<1>1. /\ delivery'.at = delivery.at + 1
      /\ delivery'.seen = delivery.seen
  BY <1>0 DEF Advance
<1>2. Calls' = Calls
  BY <1>1 DEF Calls
<1>3. /\ delivery.at \in 1..3
      /\ Len(Calls) \in 2..3
  BY <1>0, CallIsTyped
<1>4. delivery'.at <= Len(Calls) + 1
  <2>1. \A a \in 1..3, n \in 2..3 : a \in 1..n => a + 1 <= n + 1
    OBVIOUS
  <2> QED BY <1>1, <1>3, <2>1
<1>5. delivery'.at \in 1..Len(Calls) => delivery.at < Len(Calls)
  <2>1. \A a \in 1..3, n \in 2..3 : a + 1 \in 1..n => a < n
    OBVIOUS
  <2> QED BY <1>1, <1>3, <2>1
<1>6. delivery'.at = 2 => NextCall = Calls[1]
  <2>1. delivery'.at = 2 => delivery.at = 1
    BY <1>1, <1>3
  <2> QED BY <2>1 DEF NextCall
<1> QED BY <1>2, <1>4, <1>5, <1>6 DEF ConsumerIsNotOvertaken, Handling

(* The consumer's own steps keep what it relies on between its calls.     *)
LEMMA ConsumerKeepsConsumer ==
  ASSUME OrchestratorAssumption, IInv, ConsumerNext
  PROVE  ConsumerIsNotOvertaken'
<1>0. /\ TypeOK
      /\ ConsumerIsNotOvertaken
      /\ queues \in QueueStates
      /\ OutcomesQueue \in Queues
      /\ ledger \in [Txn -> LedgerRows]
      /\ saga \in [Txn -> SagaRows]
      /\ delivery.at \in 0..4
  BY DEF IInv, WritersAreNotOvertaken, ConsumerIsNotOvertaken, TypeOK,
         QueueStates, Queues, OutcomesQueue
<1>o. ASSUME Handling, delivery.at \in 1..Len(Calls)
      PROVE  /\ queues[OutcomesQueue] # << >>
             /\ Current.txn \in Txn
             /\ saga[Current.txn].status \notin TerminalStatuses
  BY <1>0, <1>o, CallIsTyped DEF ConsumerIsNotOvertaken, Handling
<1>r. ASSUME NEW qs \in QueueStates, qs[OutcomesQueue] # << >>,
             RetryOrReject(qs)
      PROVE  ConsumerIsNotOvertaken'
  BY <1>0, <1>r, RetryIsTyped, RetryKeepsConsumer
<1>1. CASE ReadSaga
  BY <1>1, ReadKeepsConsumer
<1>2. CASE PatchTransaction
  <2>1. /\ Handling
        /\ delivery.at \in 1..Len(Calls)
        /\ NextCall.op = "patch"
        /\ AcceptsStatus(ledger[Current.txn], NextCall.status)
        /\ ledger' = [ledger EXCEPT ![Current.txn] = Patched(@, NextCall)]
        /\ saga' = saga
        /\ queues' = queues
        /\ Advance
    BY <1>2 DEF PatchTransaction, About, NextCall
  <2>2. /\ Current' = Current
        /\ queues'[OutcomesQueue] # << >>
    BY <2>1, <1>o DEF Current
  <2>3. ledger'[Current.txn].status = NextCall.status
    <3>1. NextCall.status # "reconciliation_required"
      BY <1>0, <2>1, CallKinds
    <3>2. ledger'[Current.txn] = Patched(ledger[Current.txn], NextCall)
      BY <1>0, <1>o, <2>1
    <3> QED BY <1>0, <1>o, <2>1, <3>1, <3>2, PatchedMoves
  <2> QED BY <1>o, <2>1, <2>2, <2>3, AdvanceKeepsConsumer
<1>3. CASE PublishNext
  <2> DEFINE msg == Message(NextCall.status, Current.txn, NextCall.step)
  <2>1. /\ Handling
        /\ delivery.at \in 1..Len(Calls)
        /\ NextCall.op = "publish"
        /\ saga' = saga
        /\ queues' = Publish(queues, msg)
        /\ Advance
    BY <1>3 DEF PublishNext, About, NextCall
  <2>2. msg \in Messages
    BY <1>0, <2>1, CallIsTyped, CallKinds DEF Message, Messages
  <2> HIDE DEF msg
  <2>3. /\ Current' = Current
        /\ queues'[OutcomesQueue] # << >>
    BY <1>0, <1>o, <2>1, <2>2, PublishedQueues DEF Current
  <2> QED BY <1>o, <2>1, <2>3, AdvanceKeepsConsumer
<1>4. CASE UpdateSagaStep
  <2>1. /\ Handling
        /\ delivery.at \in 1..Len(Calls)
        /\ NextCall.op = "step"
        /\ saga' = [saga EXCEPT ![Current.txn].step = NextCall.step]
        /\ queues' = queues
        /\ Advance
    BY <1>4 DEF UpdateSagaStep, About, NextCall
  <2>2. /\ Current' = Current
        /\ queues'[OutcomesQueue] # << >>
        /\ saga'[Current.txn].status \notin TerminalStatuses
    BY <1>0, <1>o, <2>1 DEF Current, SagaRows
  <2> QED BY <2>1, <2>2, AdvanceKeepsConsumer
<1>5. CASE UpdateSagaStatus
  <2>1. /\ Handling
        /\ delivery.at \in 1..Len(Calls)
        /\ NextCall.op = "status"
        /\ saga' = [saga EXCEPT ![Current.txn] = Restatused(@, NextCall)]
        /\ queues' = queues
    BY <1>5 DEF UpdateSagaStatus, About, NextCall
  <2>2. /\ Current' = Current
        /\ queues'[OutcomesQueue] # << >>
    BY <1>o, <2>1 DEF Current
  <2>3. CASE LegalSagaTransition(saga[Current.txn].status, NextCall.status)
    <3>1. Advance
      BY <1>5, <2>3 DEF UpdateSagaStatus
    <3>2. delivery.at < Len(Calls) => NextCall.status = "compensating"
      <4>1. \/ NextCall.status = "compensating"
            \/ delivery.at = 2 /\ Len(Calls) = 2
        BY <1>0, <2>1, CallKinds DEF Decides
      <4>2. ~ (2 < 2)
        OBVIOUS
      <4> QED BY <4>1, <4>2, Zenon
    <3>3. saga'[Current.txn].status = NextCall.status
      BY <1>0, <1>o, <2>1, <2>3 DEF Restatused
    <3>4. delivery.at < Len(Calls) =>
            saga'[Current.txn].status \notin TerminalStatuses
      BY <3>2, <3>3 DEF TerminalStatuses
    <3> QED BY <2>1, <2>2, <3>1, <3>4, AdvanceKeepsConsumer
  <2>4. CASE ~ LegalSagaTransition(saga[Current.txn].status, NextCall.status)
    <3>1. delivery' = [delivery EXCEPT !.at = Len(Calls) + 1]
      BY <1>5, <2>4 DEF UpdateSagaStatus
    <3>2. /\ delivery'.at = Len(Calls) + 1
          /\ delivery'.seen = delivery.seen
      BY <1>0, <3>1 DEF TypeOK
    <3>3. Calls' = Calls
      BY <2>2, <3>2 DEF Calls
    <3>4. Len(Calls) \in 2..3
      BY <1>0, <2>1, CallIsTyped
    <3>5. \A n \in 2..3 : n + 1 <= n + 1 /\ n + 1 \notin 1..n /\ n + 1 # 2
      OBVIOUS
    <3> QED BY <2>2, <3>2, <3>3, <3>4, <3>5
            DEF ConsumerIsNotOvertaken, Handling
  <2> QED BY <2>3, <2>4
<1>6. CASE AckOutcome
  BY <1>6, RetryKeepsConsumer DEF AckOutcome, Waiting
<1>7. CASE PatchRefused \/ LookupFails
  BY <1>0, <1>7, <1>r DEF PatchRefused, LookupFails, About, Handling
<1>8. ASSUME NEW applied \in BOOLEAN, CallFails(applied)
      PROVE  ConsumerIsNotOvertaken'
  <2> DEFINE msg == Message(NextCall.status, Current.txn, NextCall.step)
             qs == IF applied /\ NextCall.op = "publish"
                   THEN Publish(queues, msg) ELSE queues
  <2>1. /\ Handling
        /\ delivery.at \in 1..Len(Calls)
        /\ RetryOrReject(qs)
    BY <1>8 DEF CallFails
  <2>2. NextCall.op = "publish" => msg \in Messages
    BY <1>0, <2>1, CallIsTyped, CallKinds DEF Message, Messages
  <2>3. qs \in QueueStates /\ qs[OutcomesQueue] # << >>
    <3> HIDE DEF msg
    <3> QED BY <1>0, <1>o, <2>1, <2>2, PublishedQueues
  <2> HIDE DEF qs
  <2> QED BY <1>r, <2>1, <2>3
<1> QED BY <1>1, <1>2, <1>3, <1>4, <1>5, <1>6, <1>7, <1>8 DEF ConsumerNext

(***************************************************************************)
(* The inductive step and the theorems.                                    *)
(***************************************************************************)
LEMMA InvariantStep ==
  ASSUME OrchestratorAssumption, IInv, [Next]_vars
  PROVE  IInv'
<1>1. TypeOK'
  BY TypeStep DEF IInv
<1>2. ConsumerNext \/ OtherThreads \/ Crash
  BY DEF Next, OtherThreads
<1>3. ConsumerIsNotOvertaken'
  <2>1. CASE Crash
    BY <2>1, RetryKeepsConsumer DEF Crash, Waiting
  <2> QED BY <1>2, <2>1, ConsumerKeepsConsumer, OthersKeepConsumer
<1>4. WritersAreNotOvertaken'
  BY <1>3, MarkedIsTimedOut DEF WritersAreNotOvertaken, ConsumerIsNotOvertaken
<1>5. ASSUME NEW t \in Txn
      PROVE  Agree(saga'[t], ledger'[t].status)
  <2>1. CASE Crash
    BY <2>1, Agreement DEF Crash, IInv
  <2> QED BY <1>2, <2>1, ConsumerKeepsAgreement, OthersKeepAgreement
<1>6. (TerminalSagaMatchesLedger /\ TimedOutSagaHasLedgerVerdict)'
  BY <1>5, AgreementAfter
<1> QED BY <1>1, <1>4, <1>6 DEF IInv

(* The invariant holds initially.                                         *)
LEMMA InvariantInit ==
  ASSUME OrchestratorAssumption, Init
  PROVE  IInv
BY TypeInit
DEF Init, IInv, WritersAreNotOvertaken, TerminalSagaMatchesLedger,
    TimedOutSagaHasLedgerVerdict, NoSaga, TerminalStatuses, Waiting, Handling,
    IdlePoller

(* The strengthened invariant holds in every reachable state.             *)
THEOREM IInvHolds == Spec => []IInv
<1>1. Init => IInv
  BY OrchestratorAssumption, InvariantInit
<1>2. IInv /\ [Next]_vars => IInv'
  BY OrchestratorAssumption, InvariantStep
<1> QED BY <1>1, <1>2, PTL DEF Spec

(* A saga that has ended and its ledger row tell the same verdict, for any *)
(* number of transactions, retries and faults.                             *)
THEOREM SagaMatchesLedger == Spec => []TerminalSagaMatchesLedger
<1>1. IInv => TerminalSagaMatchesLedger
  BY DEF IInv
<1> QED BY <1>1, IInvHolds, PTL

(* The saga is marked timed_out only behind a ledger that has accepted it. *)
THEOREM TimeoutIsInLedgerFirst == Spec => []TimedOutSagaHasLedgerVerdict
<1>1. IInv => TimedOutSagaHasLedgerVerdict
  BY DEF IInv
<1> QED BY <1>1, IInvHolds, PTL

(* Neither writer is overtaken between its calls.                         *)
THEOREM NobodyIsOvertaken == Spec => []WritersAreNotOvertaken
<1>1. IInv => WritersAreNotOvertaken
  BY DEF IInv
<1> QED BY <1>1, IInvHolds, PTL

------------------------------------------------------------------------------
(* Nobody writes to the rows of a transaction whose saga has ended: the    *)
(* consumer would not have got to a call, and the ledger refuses the       *)
(* poller and ignores a second registration.                               *)
LEMMA SettledStep ==
  ASSUME OrchestratorAssumption, IInv, [Next]_vars, NEW t \in Txn,
         saga[t].status \in TerminalStatuses
  PROVE  saga'[t] = saga[t] /\ ledger'[t] = ledger[t]
<1>0. /\ TypeOK
      /\ ConsumerIsNotOvertaken
      /\ saga \in [Txn -> SagaRows]
      /\ ledger \in [Txn -> LedgerRows]
  BY DEF IInv, WritersAreNotOvertaken, ConsumerIsNotOvertaken, TypeOK
<1>1. ledger[t].status \in Verdicts
  BY DEF IInv, TerminalSagaMatchesLedger, Verdict, Verdicts
<1>2. CASE OtherThreads
  <2>1. saga'[t] = saga[t]
    BY <1>0, <1>2, SagaUndisturbed DEF TerminalStatuses
  <2>2. CASE StartNext
    <3>1. \/ ledger' = ledger
          \/ \E u \in Txn : ledger' = [ledger EXCEPT ![u] = Registered(@)]
      BY <2>2 DEF StartNext, Precheck, RegisterTransaction, CreateSaga,
                  Dispatch, Finalize, StartFails
    <3>2. Registered(ledger[t]) = ledger[t]
      BY <1>0, <1>1, RegisteredMoves DEF Verdicts
    <3> QED BY <1>0, <2>1, <3>1, <3>2
  <2>3. CASE PollerNext
    <3>1. \/ ledger' = ledger
          \/ \E u \in Txn :
               ledger' = [ledger EXCEPT ![u] = Patched(@, TimeoutCall)]
      BY <2>3 DEF PollerNext, Expire, ListTimedOut, PatchTimedOut,
                  MarkTimedOut, PollerCallFails, PollEntries
    <3>2. Patched(ledger[t], TimeoutCall) = ledger[t]
      BY <1>0, <1>1, TimeoutMoves
    <3> QED BY <1>0, <2>1, <3>1, <3>2
  <2>4. CASE ParticipantNext \/ UNCHANGED vars
    BY <2>1, <2>4 DEF ParticipantNext, Answer, AnswerUnacked, GiveUp, vars
  <2> QED BY <1>2, <2>2, <2>3, <2>4 DEF OtherThreads
<1>3. CASE ConsumerNext
  <2>1. ASSUME Handling, delivery.at \in 1..Len(Calls)
        PROVE  Current.txn # t
    BY <1>0, <2>1 DEF ConsumerIsNotOvertaken
  <2>2. \/ saga' = saga /\ ledger' = ledger
        \/ /\ Handling
           /\ delivery.at \in 1..Len(Calls)
           /\ \/ saga' = saga
              \/ \E row : saga' = [saga EXCEPT ![Current.txn] = row]
           /\ \/ ledger' = ledger
              \/ \E row : ledger' = [ledger EXCEPT ![Current.txn] = row]
    BY <1>3 DEF ConsumerNext, ReadSaga, PatchTransaction, PublishNext,
                UpdateSagaStatus, UpdateSagaStep, AckOutcome, PatchRefused,
                LookupFails, CallFails, About
  <2> QED BY <1>0, <2>1, <2>2
<1>4. CASE Crash
  BY <1>4 DEF Crash
<1> QED BY <1>2, <1>3, <1>4 DEF Next, OtherThreads

(* Neither row of a transaction changes once its saga has ended.          *)
THEOREM SettledStaysSettled == Spec => SettledIsFinal
<1>1. IInv /\ [Next]_vars =>
        [\A t \in Txn :
           saga[t].status \in TerminalStatuses =>
             /\ saga'[t] = saga[t]
             /\ ledger'[t] = ledger[t]]_vars
  BY OrchestratorAssumption, SettledStep
<1> QED BY <1>1, IInvHolds, PTL DEF Spec, SettledIsFinal

------------------------------------------------------------------------------
(***************************************************************************)
(* The orchestrator implements module Settlement.  A step writes to one    *)
(* row of one transaction at most; a write to the ledger is a step of the  *)
(* verdict or none, a write to the saga settles the transaction or is not  *)
(* visible, and the invariant says when.                                   *)
(***************************************************************************)

(* A step writes to at most one row.                                      *)
LEMMA OneRowAtATime ==
  ASSUME [Next]_vars, OrchestratorAssumption, TypeOK
  PROVE  \/ ledger' = ledger /\ saga' = saga
         \/ /\ saga' = saga
            /\ \E u \in Txn : \E row : ledger' = [ledger EXCEPT ![u] = row]
         \/ /\ ledger' = ledger
            /\ \E u \in Txn : \E row : saga' = [saga EXCEPT ![u] = row]
<1> DEFINE G == \/ ledger' = ledger /\ saga' = saga
                \/ /\ saga' = saga
                   /\ \E u \in Txn : \E row :
                        ledger' = [ledger EXCEPT ![u] = row]
                \/ /\ ledger' = ledger
                   /\ \E u \in Txn : \E row :
                        saga' = [saga EXCEPT ![u] = row]
<1>1. CASE StartNext
  BY <1>1 DEF StartNext, Precheck, RegisterTransaction, CreateSaga, Dispatch, Finalize,
              StartFails
<1>2. CASE PollerNext
  BY <1>2 DEF PollerNext, Expire, ListTimedOut, PatchTimedOut, MarkTimedOut,
              PollerCallFails, PollEntries
<1>3. CASE Crash \/ ParticipantNext \/ UNCHANGED vars
  BY <1>3 DEF Crash, ParticipantNext, Answer, AnswerUnacked, GiveUp, vars
<1>4. CASE \/ ReadSaga \/ PublishNext \/ AckOutcome \/ PatchRefused
           \/ LookupFails
  BY <1>4 DEF ReadSaga, PublishNext, AckOutcome, PatchRefused, LookupFails
<1>5. CASE PatchTransaction \/ UpdateSagaStatus \/ UpdateSagaStep
  <2>1. Current.txn \in Txn
    BY <1>5, CallIsTyped
    DEF PatchTransaction, UpdateSagaStatus, UpdateSagaStep, About
  <2> QED BY <1>5, <2>1
          DEF PatchTransaction, UpdateSagaStatus, UpdateSagaStep
<1>6. ASSUME NEW applied \in BOOLEAN, CallFails(applied)
      PROVE  G
  <2>1. Current.txn \in Txn
    BY <1>6, CallIsTyped DEF CallFails
  <2> QED BY <1>6, <2>1 DEF CallFails
<1> QED BY <1>1, <1>2, <1>3, <1>4, <1>5, <1>6 DEF Next, ConsumerNext

(* A write to the ledger is one step of the verdict, or changes nothing.  *)
LEMMA LedgerWriteIsVerdict ==
  ASSUME OrchestratorAssumption, IInv, [Next]_vars, saga' = saga,
         NEW u \in Txn, NEW row, ledger' = [ledger EXCEPT ![u] = row]
  PROVE  Promise!Next \/ UNCHANGED Promise!settlementVars
<1> DEFINE old == ledger[u].status
           new == ledger'[u].status
<1>0. /\ TypeOK
      /\ ledger \in [Txn -> LedgerRows]
      /\ ledger' \in [Txn -> LedgerRows]
  BY TypeStep DEF IInv, TypeOK
<1>1. LedgerMoves(old, new)
  BY <1>0, LedgerStep
<1>2. [t \in Txn |-> ledger'[t].status]
        = [[t \in Txn |-> ledger[t].status] EXCEPT ![u] = new]
  BY <1>0
<1>3. /\ u \in { t \in Txn : saga[t].status \in TerminalStatuses }
           => old \in Verdicts
      /\ { t \in Txn : saga'[t].status \in TerminalStatuses }
           = { t \in Txn : saga[t].status \in TerminalStatuses }
  BY DEF IInv, TerminalSagaMatchesLedger, Verdict, Verdicts
<1>4. CASE new = old
  <2>1. [t \in Txn |-> ledger'[t].status] = [t \in Txn |-> ledger[t].status]
    BY <1>2, <1>4
  <2> QED BY <1>3, <2>1 DEF Promise!settlementVars
<1>5. CASE old = "absent" /\ new = "pending"
  <2>1. Promise!Register(u)
    BY <1>2, <1>3, <1>5 DEF Promise!Register
  <2> QED BY <2>1 DEF Promise!Next
<1>6. CASE LegalTransition(old, new) /\ new = "timed_out"
  <2>1. Promise!TimeOut(u)
    BY <1>2, <1>3, <1>6 DEF Promise!TimeOut, LegalTransition
  <2> QED BY <2>1 DEF Promise!Next
<1>7. CASE /\ LegalTransition(old, new)
           /\ new \in { "completed", "failed", "compensated" }
  <2>1. ASSUME NEW v \in { "completed", "failed", "compensated" }, new = v
        PROVE  Promise!Decide(u, v)
    BY <1>2, <1>3, <1>7, <2>1 DEF Promise!Decide, LegalTransition, Verdicts
  <2> QED BY <1>7, <2>1 DEF Promise!Next
<1> QED BY <1>1, <1>4, <1>5, <1>6, <1>7 DEF LedgerMoves, LegalTransition

(* A write to the saga settles the transaction or is not visible.         *)
LEMMA SagaWriteSettles ==
  ASSUME OrchestratorAssumption, IInv, [Next]_vars, ledger' = ledger,
         NEW u \in Txn, NEW row, saga' = [saga EXCEPT ![u] = row]
  PROVE  Promise!Next \/ UNCHANGED Promise!settlementVars
<1> DEFINE settled == { t \in Txn : saga[t].status \in TerminalStatuses }
           after == { t \in Txn : saga'[t].status \in TerminalStatuses }
<1>0. /\ saga \in [Txn -> SagaRows]
      /\ IInv'
  BY InvariantStep DEF IInv, TypeOK
<1>1. [t \in Txn |-> ledger'[t].status] = [t \in Txn |-> ledger[t].status]
  OBVIOUS
<1>2. \A t \in Txn \ { u } : saga'[t] = saga[t]
  BY <1>0
<1>3. CASE u \in settled
  <2>1. saga'[u] = saga[u]
    BY <1>3, SettledStep
  <2>2. after = settled
    BY <1>2, <2>1
  <2> QED BY <1>1, <2>2 DEF Promise!settlementVars
<1>4. CASE u \notin settled /\ u \notin after
  <2>1. after = settled
    BY <1>2, <1>4
  <2> QED BY <1>1, <2>1 DEF Promise!settlementVars
<1>5. CASE u \notin settled /\ u \in after
  <2>1. after = settled \cup { u }
    BY <1>2, <1>5
  <2>2. ledger[u].status \in Verdicts
    BY <1>0, <1>5 DEF IInv, TerminalSagaMatchesLedger, Verdict, Verdicts
  <2>3. Promise!Settle(u)
    BY <1>1, <2>1, <2>2 DEF Promise!Settle, Verdicts
  <2> QED BY <2>3 DEF Promise!Next
<1> QED BY <1>3, <1>4, <1>5

(* The specification of the orchestrator implements module Settlement.    *)
THEOREM SettlementIsImplemented == Spec => ImplementsSettlement
<1>1. Init => Promise!Init
  BY DEF Init, Promise!Init, NoRow, NoSaga, TerminalStatuses
<1>2. IInv /\ [Next]_vars => [Promise!Next]_(Promise!settlementVars)
  <2> SUFFICES ASSUME IInv, [Next]_vars
               PROVE  Promise!Next \/ UNCHANGED Promise!settlementVars
    OBVIOUS
  <2>1. CASE ledger' = ledger /\ saga' = saga
    BY <2>1 DEF Promise!settlementVars
  <2>2. TypeOK
    BY DEF IInv
  <2> QED BY <2>1, <2>2, OrchestratorAssumption, OneRowAtATime,
             LedgerWriteIsVerdict, SagaWriteSettles
<1> QED BY <1>1, <1>2, IInvHolds, PTL
        DEF Spec, ImplementsSettlement, Promise!Spec
==============================================================================
