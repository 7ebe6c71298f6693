--------------------------- MODULE SagaSystemProofs ---------------------------
(***************************************************************************)
(* The system with its real services refines the orchestrator with open    *)
(* participants, so every theorem about the latter holds of the former.    *)
(* On top of it, an invariant of the whole system: what a message on its   *)
(* way, a ledger status and a movement of money prove of the services.     *)
(***************************************************************************)
EXTENDS SagaSystem, SagaStepProofs, SumTheorems

(* The services answer as the open participants may, or not at all.       *)
LEMMA ServicesAreParticipants ==
  ASSUME ServiceStep
  PROVE  ParticipantNext \/ UNCHANGED vars
<1>1. PICK q \in CommandQueues :
        \/ ServiceAnswers(q)
        \/ ServiceAnswersTwice(q)
        \/ ServiceCommitsOnly(q)
        \/ ServiceGivesUp(q)
  BY DEF ServiceStep
<1>2. CASE ServiceAnswers(q)
  BY <1>2 DEF ServiceAnswers, ParticipantNext
<1>3. CASE ServiceAnswersTwice(q)
  BY <1>3 DEF ServiceAnswersTwice, ParticipantNext
<1>4. CASE ServiceCommitsOnly(q)
  BY <1>4 DEF ServiceCommitsOnly
<1>5. CASE ServiceGivesUp(q)
  BY <1>5 DEF ServiceGivesUp, ParticipantNext
<1> QED BY <1>1, <1>2, <1>3, <1>4, <1>5

(* A start with the real eligibility check is a start.                    *)
LEMMA SystemStartsAreStarts ==
  ASSUME NEW t \in Txn, StartSystem(t), OrchestratorAssumption
  PROVE  StartNext
<1>1. Eligible(t) \in BOOLEAN
  <2>1. TypeOf[t] \in SagaTypes
    BY DEF OrchestratorAssumption
  <2>2. CASE TypeOf[t] = "deposit"
    BY <2>2 DEF Eligible
  <2>3. CASE TypeOf[t] = "purchase"
    BY <2>3 DEF Eligible, Catalog!PurchaseAllowed
  <2>4. CASE TypeOf[t] = "refund"
    BY <2>4 DEF Eligible, Catalog!RefundAllowed
  <2> QED BY <2>1, <2>2, <2>3, <2>4 DEF SagaTypes
<1>2. CASE Precheck(t, Eligible(t))
  BY <1>1, <1>2 DEF StartNext
<1>3. CASE ~ Precheck(t, Eligible(t))
  BY <1>3 DEF StartSystem, StartNext
<1> QED BY <1>2, <1>3

(* Every step of the system is a step of the orchestrator or none.        *)
LEMMA SystemStep ==
  ASSUME OrchestratorAssumption, [SystemNext]_systemVars
  PROVE  [Next]_vars
<1>1. CASE OrchestratorStep
  BY <1>1, SystemStartsAreStarts DEF OrchestratorStep, Next
<1>2. CASE ServiceStep
  BY <1>2, ServicesAreParticipants DEF Next
<1>3. CASE UNCHANGED systemVars
  BY <1>3 DEF systemVars, vars
<1> QED BY <1>1, <1>2, <1>3 DEF SystemNext

(* The specification of the system implements that of the orchestrator.   *)
THEOREM SystemImplementsOrchestrator == SystemSpec => Spec
<1>1. SystemInit => Init
  BY DEF SystemInit
<1>2. [SystemNext]_systemVars => [Next]_vars
  BY OrchestratorAssumption, SystemStep
<1> QED BY <1>1, <1>2, PTL DEF SystemSpec, Spec

(* In the whole system too, a saga that ended and its ledger row agree.   *)
THEOREM SystemSagaMatchesLedger == SystemSpec => []TerminalSagaMatchesLedger
BY SystemImplementsOrchestrator, SagaMatchesLedger, PTL

(* and no running saga is stranded, under the hypotheses on the faults.   *)
THEOREM SystemSagasAreDriven ==
  /\ MaxFaults <= MaxRetries
  /\ "rejection" \notin Faults
  /\ SystemSpec
  => []OpenSagaIsDriven
BY SystemImplementsOrchestrator, OpenSagasAreDriven, PTL

------------------------------------------------------------------------------
(* What the services do.                                                  *)

(* Somebody handles the head of a command queue and answers it so.        *)
Serves(p, key) ==
  /\ p \in CommandQueues
  /\ queues[p] # << >>
  /\ key \in OutcomeKeys
  /\ Effect(Head(queues[p]), key)

(* The services change only to serve a command.                           *)
LEMMA ServicesStep ==
  ASSUME [SystemNext]_systemVars
  PROVE  \/ UNCHANGED serviceVars
         \/ \E p, key : Serves(p, key)
<1>1. CASE OrchestratorStep \/ UNCHANGED systemVars
  BY <1>1 DEF OrchestratorStep, systemVars
<1>2. ASSUME NEW p \in CommandQueues, ServiceGivesUp(p)
      PROVE  UNCHANGED serviceVars
  BY <1>2 DEF ServiceGivesUp
<1>3. ASSUME NEW p \in CommandQueues,
             ServiceAnswers(p) \/ ServiceAnswersTwice(p) \/ ServiceCommitsOnly(p)
      PROVE  \E key : Serves(p, key)
  BY <1>3 DEF ServiceAnswers, ServiceAnswersTwice, ServiceCommitsOnly, Answer,
              AnswerUnacked, Serves
<1> QED BY <1>1, <1>2, <1>3 DEF SystemNext, ServiceStep

(* What catalog-access stores for each purchase.                           *)
AccessTyped == access \in [Txn -> Catalog!AccessStatuses]

(* Money that moved has moved, an access record stays and so does its end.*)
LEMMA EffectsStay ==
  ASSUME AccessTyped, [SystemNext]_systemVars
  PROVE  /\ AccessTyped'
         /\ movements \subseteq movements'
         /\ \A t \in Txn : /\ access[t] # "none" => access'[t] # "none"
                           /\ access[t] = "revoked" => access'[t] = "revoked"
<1>1. CASE UNCHANGED serviceVars
  BY <1>1 DEF serviceVars, AccessTyped
<1>2. ASSUME NEW msg, NEW key, Effect(msg, key)
      PROVE  /\ movements \subseteq movements'
             /\ \/ access' = access
                \/ /\ access[msg.txn] = "none"
                   /\ access' = [access EXCEPT ![msg.txn] = "active"]
                \/ access' = [access EXCEPT ![OriginalOf[msg.txn]] = "revoked"]
  <2>1. CASE Charge(msg, key) /\ UNCHANGED serviceVars
    BY <2>1 DEF serviceVars
  <2>2. CASE Wallet!Handle(msg, key) /\ UNCHANGED access
    BY <2>2 DEF Wallet!Handle, Wallet!Debited, Wallet!DebitRejected,
                Wallet!Credited, Wallet!Move, Wallet!vars
  <2>3. CASE Catalog!CatalogHandle(msg, key) /\ UNCHANGED << balance, movements >>
    BY <2>3 DEF Catalog!CatalogHandle, Catalog!Granted, Catalog!GrantConflicted,
                Catalog!Revoked, Catalog!RevokeRejected
  <2> QED BY <1>2, <2>1, <2>2, <2>3 DEF Effect
<1>3. ASSUME NEW p, NEW key, Serves(p, key)
      PROVE  /\ AccessTyped'
             /\ movements \subseteq movements'
             /\ \A t \in Txn : /\ access[t] # "none" => access'[t] # "none"
                               /\ access[t] = "revoked" => access'[t] = "revoked"
  BY <1>2, <1>3 DEF Serves, AccessTyped, Catalog!AccessStatuses
<1> QED BY <1>1, <1>3, ServicesStep

(* So a movement that was found is found again.                           *)
LEMMA MovedStays ==
  ASSUME AccessTyped, [SystemNext]_systemVars, NEW t, NEW step, Moved(t, step)
  PROVE  Moved(t, step)'
BY EffectsStay DEF Moved, Wallet!Exists, Wallet!Movements

(* A movement is made for the command that is served, under its name.     *)
LEMMA MovedNow ==
  ASSUME [SystemNext]_systemVars, NEW t, NEW step,
         Moved(t, step)', ~ Moved(t, step)
  PROVE  \E p, key :
           /\ Serves(p, key)
           /\ Head(queues[p]).txn = t
           /\ Head(queues[p]).step = step
           /\ Head(queues[p]).key \in
                { "wallet.debit.requested", "wallet.credit.requested" }
<1>1. ~ UNCHANGED serviceVars
  BY DEF serviceVars, Moved, Wallet!Exists, Wallet!Movements
<1>2. PICK p, key : Serves(p, key)
  BY <1>1, ServicesStep
<1>3. Wallet!Handle(Head(queues[p]), key)
  BY <1>2 DEF Serves, Effect, serviceVars, Moved, Wallet!Exists,
              Wallet!Movements
<1> DEFINE msg == Head(queues[p])
<1>4. PICK type, before, after :
        movements' = movements \cup
          { [txn |-> msg.txn, step |-> msg.step, type |-> type,
             before |-> before, after |-> after] }
  <2>1. movements' # movements
    BY DEF Moved, Wallet!Exists, Wallet!Movements
  <2> QED BY <1>3, <2>1
          DEF Wallet!Handle, Wallet!Debited, Wallet!DebitRejected,
              Wallet!Credited, Wallet!Move, Wallet!vars
<1>5. msg.txn = t /\ msg.step = step
  BY <1>4 DEF Moved, Wallet!Exists, Wallet!Movements
<1>6. msg.key \in { "wallet.debit.requested", "wallet.credit.requested" }
  BY <1>3 DEF Wallet!Handle
<1> QED BY <1>2, <1>5, <1>6

------------------------------------------------------------------------------
(***************************************************************************)
(* What a message proves.  Services do not undo what they did, so it holds *)
(* as long as the message is on its way.                                   *)
(***************************************************************************)

(* The purchase a refund names was granted; its access has been ended.    *)
Bought(t) == OriginalOf[t] \in Txn /\ access[OriginalOf[t]] # "none"

GivenBack(t) == OriginalOf[t] \in Txn /\ access[OriginalOf[t]] = "revoked"

Proves(m) ==
  LET t == m.txn IN
  /\ m.key = "provider.charge.succeeded" => t \notin ProviderFails
  /\ m.key = "provider.charge.failed" => t \in ProviderFails
  /\ m.key = "wallet.debited" => Moved(t, "purchase_debit")
  /\ m.key = "wallet.credited" => Moved(t, CreditStep(TypeOf[t]))
  /\ m.key = "wallet.credit.requested" =>
       /\ TypeOf[t] = "deposit" => t \notin ProviderFails
       /\ TypeOf[t] = "refund" => GivenBack(t)
  /\ m.key = "access.grant.requested" => Moved(t, "purchase_debit")
  /\ m.key = "access.granted" => access[t] # "none"
  /\ m.key = "access.revoke.requested" => Bought(t)
  /\ m.key = "access.revoked" => GivenBack(t)
  /\ m.key # "access.revoke.rejected"

MessagesProve ==
  \A q \in Queues : \A m \in Queued(q) : Proves(m)

(* A refund is let in when there is something to give back.               *)
StartsProve ==
  \A t \in Txn : TypeOf[t] = "refund" /\ start[t] \in Working => Bought(t)

(* What has been proved stays so.                                         *)
LEMMA ProvesStays ==
  ASSUME AccessTyped, [SystemNext]_systemVars, NEW m \in Messages, Proves(m)
  PROVE  Proves(m)'
<1>1. m.txn \in Txn
  BY DEF Messages
<1>2. /\ Bought(m.txn) => Bought(m.txn)'
      /\ GivenBack(m.txn) => GivenBack(m.txn)'
      /\ access[m.txn] # "none" => access'[m.txn] # "none"
  BY <1>1, EffectsStay DEF Bought, GivenBack
<1>3. \A step : Moved(m.txn, step) => Moved(m.txn, step)'
  BY MovedStays
<1> QED BY <1>2, <1>3 DEF Proves

(* The orchestrator's commands follow from what it has been told.         *)
LEMMA CommandProves ==
  ASSUME OrchestratorAssumption, TypeOK, MessagesProve, StartsProve, NEW m,
         Commanded(m)
  PROVE  Proves(m)
<1>1. ASSUME NEW t \in Txn, start[t] = "dispatch", m = FirstCommand(TypeOf[t], t)
      PROVE  Proves(m)
  <2>1. TypeOf[t] \in SagaTypes /\ start[t] \in Working
    BY <1>1 DEF OrchestratorAssumption, Working
  <2> QED BY <1>1, <2>1
          DEF FirstCommand, Message, Proves, StartsProve, SagaTypes
<1>2. ASSUME About("publish"),
             m = Message(NextCall.status, Current.txn, NextCall.step)
      PROVE  Proves(m)
  <2>1. /\ CallOf(TypeOf[Current.txn], Current.key, delivery.seen, delivery.at,
                  NextCall)
        /\ NextCall.op = "publish"
    BY <1>2, CurrentCall DEF About, NextCall
  <2>2. Proves(Current)
    <3>1. OutcomesQueue \in Queues /\ queues[OutcomesQueue] # << >>
      BY <1>2 DEF Queues, About, Handling
    <3> QED BY <3>1, HeadIsHeld DEF MessagesProve, Queued, Held, Current
  <2>3. m.key = NextCall.status /\ m.txn = Current.txn
    BY <1>2 DEF Message
  <2>4. \/ /\ Current.key = "wallet.debited"
           /\ m.key = "access.grant.requested"
        \/ /\ TypeOf[m.txn] = "purchase"
           /\ m.key = "wallet.credit.requested"
        \/ /\ TypeOf[m.txn] = "refund"
           /\ Current.key = "access.revoked"
           /\ m.key = "wallet.credit.requested"
        \/ /\ TypeOf[m.txn] = "deposit"
           /\ Current.key = "provider.charge.succeeded"
           /\ m.key = "wallet.credit.requested"
    BY <2>1, <2>3
    DEF CallOf, PatchLedger, PublishCommand, SetStatus, SetStep, Call
  <2> QED BY <2>2, <2>3, <2>4 DEF Proves
<1> QED BY <1>1, <1>2 DEF Commanded

(* A service's answer follows from what it did.                           *)
LEMMA AnswerProves ==
  ASSUME OrchestratorAssumption, TypeOK, MessagesFit, MessagesProve, AccessTyped,
         [SystemNext]_systemVars,
         NEW p, NEW key, Serves(p, key), NEW msg, msg = Head(queues[p])
  PROVE  Proves(Message(key, msg.txn, NoStep))'
<1> DEFINE t == msg.txn
<1>1. msg.txn \in Txn /\ MessageFits(msg) /\ Proves(msg) /\ p \in Queues
  <2>1. p \in Queues /\ msg \in Held(queues, p)
    BY HeadIsHeld DEF Serves, Queues
  <2>2. msg.txn \in Txn
    BY <2>1, HeldIsTyped
  <2> QED BY <2>1, <2>2 DEF MessagesFit, MessagesProve, Queued, Held
<1>2. Effect(msg, key)
  BY DEF Serves
<1>m. ASSUME NEW step, \E type, before, after :
               [txn |-> t, step |-> step, type |-> type,
                before |-> before, after |-> after] \in movements'
      PROVE  Moved(t, step)'
  BY <1>m DEF Moved, Wallet!Exists, Wallet!Movements
<1> USE DEF Message
<1>3. CASE Charge(msg, key) /\ UNCHANGED serviceVars
  BY <1>3 DEF Charge, Proves
<1>4. CASE Wallet!Handle(msg, key) /\ UNCHANGED access
  <2>1. CASE key = "wallet.debited" /\ Wallet!Debited(t, msg.step)
                /\ msg.key = "wallet.debit.requested"
    <3>1. msg.step = "purchase_debit"
      BY <1>1, <2>1 DEF MessageFits
    <3>2. Moved(t, "purchase_debit")'
      <4>1. CASE Wallet!Exists(t, msg.step)
        BY <3>1, <4>1, MovedStays DEF Moved
      <4>2. CASE ~ Wallet!Exists(t, msg.step)
        BY <1>m, <2>1, <3>1, <4>2 DEF Wallet!Debited, Wallet!Move
      <4> QED BY <4>1, <4>2
    <3> QED BY <2>1, <3>2 DEF Proves
  <2>2. CASE key = "wallet.credited" /\ Wallet!Credited(t, msg.step)
                /\ msg.key = "wallet.credit.requested"
    <3>1. msg.step = CreditStep(TypeOf[t])
      BY <1>1, <2>2 DEF MessageFits
    <3>2. Moved(t, CreditStep(TypeOf[t]))'
      <4>1. CASE Wallet!Exists(t, msg.step)
        BY <3>1, <4>1, MovedStays DEF Moved
      <4>2. CASE ~ Wallet!Exists(t, msg.step)
        BY <1>m, <2>2, <3>1, <4>2 DEF Wallet!Credited, Wallet!Move
      <4> QED BY <4>1, <4>2
    <3> QED BY <2>2, <3>2 DEF Proves
  <2>3. CASE key = "wallet.debit.rejected"
    BY <2>3 DEF Proves
  <2> QED BY <1>4, <2>1, <2>2, <2>3 DEF Wallet!Handle
<1>5. CASE Catalog!CatalogHandle(msg, key) /\ UNCHANGED << balance, movements >>
  <2>1. CASE key = "access.granted" /\ Catalog!Granted(t)
    <3>1. access'[t] # "none"
      BY <1>1, <2>1 DEF Catalog!Granted, AccessTyped, Catalog!AccessStatuses
    <3> QED BY <2>1, <3>1 DEF Proves
  <2>2. CASE key = "access.grant.conflicted"
    BY <2>2 DEF Proves
  <2>3. CASE msg.key = "access.revoke.requested"
    <3>1. Bought(t)
      BY <1>1, <2>3 DEF Proves
    <3>2. key = "access.revoked" /\ Catalog!Revoked(t)
      BY <1>5, <2>3, <3>1
      DEF Catalog!CatalogHandle, Catalog!RevokeRejected, Bought
    <3>3. GivenBack(t)'
      BY <3>1, <3>2 DEF Catalog!Revoked, Bought, GivenBack, AccessTyped
    <3> QED BY <3>2, <3>3 DEF Proves
  <2> QED BY <1>5, <2>1, <2>2, <2>3 DEF Catalog!CatalogHandle
<1> QED BY <1>2, <1>3, <1>4, <1>5 DEF Effect

(* A step of the system's orchestrator is one of its own.                 *)
LEMMA OrchestratorSteps ==
  ASSUME OrchestratorAssumption, OrchestratorStep
  PROVE  StartNext \/ ConsumerNext \/ PollerNext \/ Crash
BY SystemStartsAreStarts DEF OrchestratorStep

(* A queue holds what it held, a command, or the answer of a service.     *)
LEMMA SystemQueueStep ==
  ASSUME OrchestratorAssumption, TypeOK, [SystemNext]_systemVars,
         NEW q \in Queues, NEW m \in Held(queues', q)
  PROVE  \/ m \in Held(queues, q)
         \/ Commanded(m)
         \/ \E p, key : /\ Serves(p, key)
                        /\ m = Message(key, Head(queues[p]).txn, NoStep)
<1>1. CASE OrchestratorStep \/ UNCHANGED systemVars
  <2>1. UNCHANGED systemVars => UNCHANGED vars
    BY DEF systemVars, vars
  <2> QED BY <1>1, <2>1, OrchestratorSteps, CommandStep
<1>2. CASE ServiceStep
  <2>1. PICK p \in CommandQueues :
          \/ ServiceAnswers(p)
          \/ ServiceAnswersTwice(p)
          \/ ServiceCommitsOnly(p)
          \/ ServiceGivesUp(p)
    BY <1>2 DEF ServiceStep
  <2>2. CASE ServiceAnswers(p) \/ ServiceAnswersTwice(p)
    <3>1. PICK key \in OutcomeKeys :
            /\ Answer(p, key) \/ AnswerUnacked(p, key)
            /\ Effect(Head(queues[p]), key)
      BY <2>2 DEF ServiceAnswers, ServiceAnswersTwice
    <3>2. Serves(p, key)
      BY <3>1 DEF Answer, AnswerUnacked, Serves
    <3> QED BY <3>1, <3>2, AnswerStep
  <2>3. CASE ServiceCommitsOnly(p)
    BY <2>3 DEF ServiceCommitsOnly, vars, Held
  <2>4. CASE ServiceGivesUp(p)
    BY <2>4, RejectedHeld
    DEF ServiceGivesUp, GiveUp, TypeOK, QueueStates, Queues
  <2> QED BY <2>1, <2>2, <2>3, <2>4
<1> QED BY <1>1, <1>2 DEF SystemNext

(* The messages go on proving.                                            *)
LEMMA MessagesProveStep ==
  ASSUME OrchestratorAssumption, TypeOK, MessagesFit, MessagesProve, StartsProve,
         AccessTyped, [SystemNext]_systemVars
  PROVE  MessagesProve'
<1>1. ASSUME NEW q \in Queues, NEW m \in Held(queues', q)
      PROVE  Proves(m)'
  <2>1. CASE m \in Held(queues, q)
    <3>1. m \in Messages /\ Proves(m)
      BY <2>1, HeldIsTyped DEF MessagesProve, Queued, Held
    <3> QED BY <3>1, ProvesStays
  <2>2. CASE Commanded(m)
    <3>1. m \in Messages
      BY <2>2, SentIsTyped DEF Sent
    <3> QED BY <2>2, <3>1, CommandProves, ProvesStays
  <2>3. ASSUME NEW p, NEW key, Serves(p, key),
               m = Message(key, Head(queues[p]).txn, NoStep)
        PROVE  Proves(m)'
    <3>1. PICK msg : msg = Head(queues[p])
      OBVIOUS
    <3> QED BY <2>3, <3>1, AnswerProves
  <2> QED BY <1>1, <2>1, <2>2, <2>3, SystemQueueStep
<1> QED BY <1>1 DEF MessagesProve, Queued, Held

(* A refund that is let in finds the purchase active.                     *)
LEMMA StartsProveStep ==
  ASSUME OrchestratorAssumption, TypeOK, StartsProve, AccessTyped,
         [SystemNext]_systemVars
  PROVE  StartsProve'
<1> SUFFICES ASSUME NEW t \in Txn, TypeOf[t] = "refund", start'[t] \in Working
             PROVE  Bought(t)'
  BY DEF StartsProve
<1>1. Bought(t) => Bought(t)'
  BY EffectsStay DEF Bought
<1>2. start[t] \in Working => Bought(t)
  BY DEF StartsProve
<1>t. start \in [Txn -> StartStages]
  BY DEF TypeOK
<1>3. CASE OrchestratorStep
  <2>1. CASE ConsumerNext \/ PollerNext \/ Crash
    <3>1. start'[t] = start[t] \/ start'[t] = "new"
      BY <1>t, <2>1
      DEF ConsumerNext, ReadSaga, PatchTransaction, PublishNext,
          UpdateSagaStatus, UpdateSagaStep, AckOutcome, PatchRefused,
          LookupFails, CallFails, PollerNext, Expire, ListTimedOut,
          PatchTimedOut, MarkTimedOut, PollerCallFails, Crash
    <3> QED BY <1>1, <1>2, <3>1 DEF Working
  <2>2. ASSUME NEW u \in Txn, StartSystem(u)
        PROVE  Bought(t)'
    <3>1. CASE Precheck(u, Eligible(u)) /\ u = t
      <4>1. Eligible(t)
        BY <1>t, <3>1 DEF Precheck, Working
      <4>2. Bought(t)
        BY <4>1 DEF Eligible, Catalog!RefundAllowed, Catalog!ActiveFor, Bought
      <4> QED BY <1>1, <4>2
    <3>2. CASE Precheck(u, Eligible(u)) /\ u # t
      <4>1. start'[t] = start[t]
        BY <1>t, <3>2 DEF Precheck
      <4> QED BY <1>1, <1>2, <4>1
    <3>3. CASE ~ Precheck(u, Eligible(u))
      <4>1. start'[t] \in { start[t], "new" } \/ start[t] \in Working
        BY <1>t, <2>2, <3>3
        DEF StartSystem, RegisterTransaction, CreateSaga, Dispatch, Finalize,
            StartFails, Working
      <4> QED BY <1>1, <1>2, <4>1 DEF Working
    <3> QED BY <3>1, <3>2, <3>3
  <2> QED BY <1>3, <2>1, <2>2 DEF OrchestratorStep
<1>4. CASE ServiceStep \/ UNCHANGED systemVars
  <2>1. start' = start
    BY <1>4, ServicesAreParticipants
    DEF ParticipantNext, Answer, AnswerUnacked, GiveUp, vars, systemVars
  <2> QED BY <1>1, <1>2, <2>1
<1> QED BY <1>3, <1>4 DEF SystemNext

(* How the outcomes' queue changes: not at all, by its head, or by the     *)
(* answer of a service.                                                   *)
Gains(p, key) ==
  /\ Serves(p, key)
  /\ queues'[OutcomesQueue] =
       Append(queues[OutcomesQueue],
              Message(key, Head(queues[p]).txn, NoStep))

(* The outcomes' queue gains answers, and loses its head, one at a time.   *)
LEMMA OutcomesStep ==
  ASSUME OrchestratorAssumption, TypeOK, [SystemNext]_systemVars
  PROVE  \/ queues'[OutcomesQueue] = queues[OutcomesQueue]
         \/ /\ queues[OutcomesQueue] # << >>
            /\ queues'[OutcomesQueue] = Tail(queues[OutcomesQueue])
         \/ \E p, key : Gains(p, key)
<1> DEFINE old == queues[OutcomesQueue]
           new == queues'[OutcomesQueue]
           Loses == old # << >> /\ new = Tail(old)
<1>t. /\ queues \in QueueStates
      /\ OutcomesQueue \in Queues
      /\ \A p \in CommandQueues : p # OutcomesQueue
  BY DEF TypeOK, QueueStates, Queues, OutcomesQueue, CommandQueues
<1>c. ASSUME NEW msg, Commanded(msg)
      PROVE  /\ msg \in Messages
             /\ Publish(queues, msg) \in QueueStates
             /\ Publish(queues, msg)[OutcomesQueue] = old
  <2>1. msg \in Messages
    BY <1>c, SentIsTyped DEF Sent
  <2>2. msg.key \notin OutcomeKeys
    <3>1. CASE \E u \in Txn : msg = FirstCommand(TypeOf[u], u)
      BY <3>1 DEF FirstCommand, Message, OutcomeKeys, OrchestratorAssumption,
                  SagaTypes
    <3>2. CASE /\ About("publish")
               /\ msg = Message(NextCall.status, Current.txn, NextCall.step)
      <4>1. NextCall.status \in CommandKeys
        BY <3>2, CallKinds DEF About, NextCall
      <4> QED BY <3>2, <4>1 DEF Message, CommandKeys, OutcomeKeys
    <3> QED BY <1>c, <3>1, <3>2 DEF Commanded
  <2>3. Publish(queues, msg)[OutcomesQueue] = old
    BY <1>t, <2>2 DEF Publish, RoutingKeys, OutcomesQueue
  <2> QED BY <1>t, <2>1, <2>3, PublishedQueues
<1>r. ASSUME NEW qs \in QueueStates, qs[OutcomesQueue] = old, old # << >>,
             RetryOrReject(qs)
      PROVE  new = old \/ Loses
  BY <1>t, <1>r DEF RetryOrReject, Reject
<1>1. CASE StartNext
  <2>1. \/ queues' = queues
        \/ \E t \in Txn : /\ start[t] = "dispatch"
                           /\ queues' = Publish(queues, FirstCommand(TypeOf[t], t))
    BY <1>1 DEF StartNext, Precheck, RegisterTransaction, CreateSaga, Dispatch,
                Finalize, StartFails
  <2> QED BY <1>c, <2>1 DEF Commanded
<1>2. CASE PollerNext \/ Crash \/ UNCHANGED vars
  BY <1>2 DEF PollerNext, Expire, ListTimedOut, PatchTimedOut,
              MarkTimedOut, PollerCallFails, Crash, vars
<1>3. CASE ConsumerNext
  <2>1. CASE ReadSaga \/ PatchTransaction \/ UpdateSagaStatus \/ UpdateSagaStep
    BY <2>1 DEF ReadSaga, PatchTransaction, UpdateSagaStatus, UpdateSagaStep
  <2>2. CASE PublishNext
    BY <1>c, <2>2 DEF PublishNext, Commanded
  <2>3. CASE AckOutcome
    BY <1>t, <2>3 DEF AckOutcome, Handling, Ack, QueueStates
  <2>4. CASE PatchRefused \/ LookupFails
    BY <1>t, <1>r, <2>4 DEF PatchRefused, LookupFails, About, Handling
  <2>5. ASSUME NEW applied \in BOOLEAN, CallFails(applied)
        PROVE  new = old \/ Loses
    <3>1. old # << >>
      BY <2>5 DEF CallFails, Handling
    <3>2. CASE applied /\ NextCall.op = "publish"
      <4> DEFINE msg == Message(NextCall.status, Current.txn, NextCall.step)
      <4>1. Commanded(msg)
        BY <2>5, <3>2 DEF CallFails, Commanded, About, NextCall
      <4>2. RetryOrReject(Publish(queues, msg))
        BY <2>5, <3>2 DEF CallFails
      <4> HIDE DEF msg
      <4> QED BY <1>c, <1>r, <3>1, <4>1, <4>2
    <3>3. CASE ~ (applied /\ NextCall.op = "publish")
      BY <1>t, <1>r, <2>5, <3>1, <3>3 DEF CallFails
    <3> QED BY <3>2, <3>3
  <2> QED BY <1>3, <2>1, <2>2, <2>3, <2>4, <2>5 DEF ConsumerNext
<1>4. CASE ServiceStep
  <2>1. PICK p \in CommandQueues :
          \/ ServiceAnswers(p)
          \/ ServiceAnswersTwice(p)
          \/ ServiceCommitsOnly(p)
          \/ ServiceGivesUp(p)
    BY <1>4 DEF ServiceStep
  <2>2. CASE ServiceAnswers(p) \/ ServiceAnswersTwice(p)
    <3>1. PICK key \in OutcomeKeys :
            /\ Answer(p, key) \/ AnswerUnacked(p, key)
            /\ Effect(Head(queues[p]), key)
      BY <2>2 DEF ServiceAnswers, ServiceAnswersTwice
    <3>2. Serves(p, key)
      BY <3>1 DEF Answer, AnswerUnacked, Serves
    <3> DEFINE msg == Message(key, Head(queues[p]).txn, NoStep)
    <3>3. Publish(queues, msg)[OutcomesQueue] = Append(old, msg)
      BY <1>t DEF Publish, Message, RoutingKeys, OutcomesQueue
    <3>4. \/ queues' = Publish(queues, msg)
          \/ queues' = Ack(Publish(queues, msg), p)
      BY <3>1 DEF Answer, AnswerUnacked
    <3>5. Ack(Publish(queues, msg), p)[OutcomesQueue] =
            Publish(queues, msg)[OutcomesQueue]
      BY <1>t DEF Ack, Publish
    <3> QED BY <3>2, <3>3, <3>4, <3>5 DEF Gains
  <2>3. CASE ServiceCommitsOnly(p)
    BY <2>3 DEF ServiceCommitsOnly, vars
  <2>4. CASE ServiceGivesUp(p)
    BY <1>t, <2>4 DEF ServiceGivesUp, GiveUp, Reject, IsBound, RoutingKeys,
                      DeadLetterQueue, OutcomesQueue
  <2> QED BY <2>1, <2>2, <2>3, <2>4
<1>5. UNCHANGED systemVars => UNCHANGED vars
  BY DEF systemVars, vars
<1>6. OrchestratorStep => StartNext \/ ConsumerNext \/ PollerNext \/ Crash
  BY OrchestratorSteps
<1> QED BY <1>1, <1>2, <1>3, <1>4, <1>5, <1>6 DEF SystemNext

------------------------------------------------------------------------------
(* What the steps, the movements and the ledger prove.                    *)

(* A purchase known to be past its debit is paid for.                     *)
PaidSteps == { "purchase_grant", "purchase_compensation_credit" }

StepsProve ==
  \A t \in Txn : \A step \in PaidSteps :
    TypeOf[t] = "purchase" /\ Knows(t, step) => Moved(t, "purchase_debit")

(* Money is handed out when there is a reason for it.                     *)
MovementsProve ==
  \A t \in Txn :
    /\ TypeOf[t] = "deposit" /\ Moved(t, "deposit_credit") =>
         t \notin ProviderFails
    /\ TypeOf[t] = "refund" /\ Moved(t, "refund_credit") => GivenBack(t)
    /\ TypeOf[t] = "purchase" /\ Moved(t, "purchase_compensation") =>
         PaysBack(t)

(* Access is given to who has paid.                                       *)
AccessProves ==
  \A t \in Txn : access[t] # "none" => Moved(t, "purchase_debit")

(* What a row of the ledger proves.                                       *)
RowProves(t, status) ==
  /\ TypeOf[t] = "deposit" =>
       /\ status = "completed" => Moved(t, "deposit_credit")
       /\ status = "failed" => t \in ProviderFails
  /\ TypeOf[t] = "refund" =>
       /\ status = "completed" => Moved(t, "refund_credit")
       /\ status # "failed"
  /\ TypeOf[t] = "purchase" =>
       /\ status = "completed" => access[t] # "none"
       /\ status = "compensated" =>
            /\ Moved(t, "purchase_debit")
            /\ Moved(t, "purchase_compensation")

LedgerProves == \A t \in Txn : RowProves(t, ledger[t].status)

(* The steps go on proving the debit.                                     *)
LEMMA StepsProveStep ==
  ASSUME OrchestratorAssumption, FInv, MessagesProve, StepsProve, AccessTyped,
         [SystemNext]_systemVars
  PROVE  StepsProve'
<1> USE DEF PatchLedger, PublishCommand, SetStatus, SetStep, Call
<1>0. /\ TypeOK
      /\ IInv
      /\ [Next]_vars
  BY SystemStep DEF FInv, IInv
<1> SUFFICES ASSUME NEW t \in Txn, NEW step \in PaidSteps, TypeOf[t] = "purchase",
                    Knows(t, step)'
             PROVE  Moved(t, "purchase_debit")'
  BY DEF StepsProve
<1>1. CASE Knows(t, step)
  BY <1>1, MovedStays DEF StepsProve
<1>2. CASE Writes(t, step)
  <2>1. /\ CallOf("purchase", Current.key, delivery.seen, delivery.at, NextCall)
        /\ NextCall.op \in { "step", "status" }
        /\ NextCall.step = step
        /\ Handling
        /\ Current.txn = t
    BY <1>0, <1>2, CurrentCall DEF Writes
  <2>2. \/ Current.key = "wallet.debited"
        \/ delivery.seen.step = "purchase_grant"
    BY <2>1 DEF CallOf, PaidSteps
  <2>3. Proves(Current)
    <3>1. OutcomesQueue \in Queues /\ queues[OutcomesQueue] # << >>
      BY <2>1 DEF Queues, Handling
    <3> QED BY <1>0, <3>1, HeadIsHeld DEF MessagesProve, Queued, Held, Current
  <2>4. CASE Current.key = "wallet.debited"
    BY <2>1, <2>3, <2>4, MovedStays DEF Proves
  <2>5. CASE delivery.seen.step = "purchase_grant"
    <3>1. Knows(t, "purchase_grant")
      BY <2>1, <2>5 DEF Knows, Handling
    <3> QED BY <3>1, MovedStays DEF StepsProve, PaidSteps
  <2> QED BY <2>2, <2>4, <2>5
<1>3. FirstStep(TypeOf[t]) # step
  BY DEF FirstStep, PaidSteps
<1> QED BY <1>0, <1>1, <1>2, <1>3, KnowsStep

(* The command that is served is typed, fits and proves.                  *)
LEMMA ServedHead ==
  ASSUME TypeOK, MessagesFit, MessagesProve, NEW p, NEW key, Serves(p, key)
  PROVE  LET msg == Head(queues[p]) IN
         /\ msg.txn \in Txn
         /\ msg \in Held(queues, p)
         /\ p \in Queues
         /\ MessageFits(msg)
         /\ Proves(msg)
<1>1. p \in Queues /\ Head(queues[p]) \in Held(queues, p)
  BY HeadIsHeld DEF Serves, Queues
<1>2. Head(queues[p]).txn \in Txn
  BY <1>1, HeldIsTyped
<1> QED BY <1>1, <1>2 DEF MessagesFit, MessagesProve, Queued, Held

(* The movements go on having their reason.                               *)
LEMMA MovementsProveStep ==
  ASSUME OrchestratorAssumption, FInv, MessagesProve, MovementsProve, AccessTyped,
         [SystemNext]_systemVars
  PROVE  MovementsProve'
<1>0. /\ TypeOK
      /\ IInv /\ RowsFit /\ MessagesFit /\ CreditsFit /\ HandlerFits
      /\ [Next]_vars
  BY SystemStep DEF FInv, IInv
<1> SUFFICES ASSUME NEW t \in Txn
             PROVE  /\ /\ TypeOf[t] = "deposit"
                       /\ Moved(t, "deposit_credit")'
                       => t \notin ProviderFails
                    /\ /\ TypeOf[t] = "refund"
                       /\ Moved(t, "refund_credit")'
                       => GivenBack(t)'
                    /\ /\ TypeOf[t] = "purchase"
                       /\ Moved(t, "purchase_compensation")'
                       => PaysBack(t)'
  BY DEF MovementsProve
<1>1. ASSUME NEW step, step = CreditStep(TypeOf[t]), Moved(t, step)',
             ~ Moved(t, step)
      PROVE  /\ TypeOf[t] = "deposit" => t \notin ProviderFails
             /\ TypeOf[t] = "refund" => GivenBack(t)
             /\ TypeOf[t] = "purchase" => PaysBack(t)
  <2>1. PICK p, key :
          /\ Serves(p, key)
          /\ Head(queues[p]).txn = t
          /\ Head(queues[p]).step = step
          /\ Head(queues[p]).key \in
               { "wallet.debit.requested", "wallet.credit.requested" }
    BY <1>1, MovedNow
  <2> DEFINE msg == Head(queues[p])
  <2>2. /\ msg \in Held(queues, p)
        /\ p \in Queues
        /\ MessageFits(msg)
        /\ Proves(msg)
    BY <1>0, <2>1, ServedHead
  <2> HIDE DEF msg
  <2>3. step # "purchase_debit"
    <3>1. TypeOf[t] \in SagaTypes
      BY DEF OrchestratorAssumption
    <3> QED BY <1>1, <3>1 DEF CreditStep, SagaTypes
  <2>4. msg.key = "wallet.credit.requested" /\ msg.txn = t
    BY <2>1, <2>2, <2>3 DEF MessageFits, msg
  <2>5. TypeOf[t] = "purchase" => PaysBack(t)
    BY <1>0, <2>2, <2>4 DEF CreditsFit, Queued, Held
  <2> QED BY <2>2, <2>4, <2>5 DEF Proves
<1>2. GivenBack(t) => GivenBack(t)'
  BY EffectsStay DEF GivenBack
<1>3. PaysBack(t) => PaysBack(t)'
  BY <1>0, PaysBackStays
<1>4. CASE TypeOf[t] = "deposit"
  BY <1>1, <1>4 DEF MovementsProve, CreditStep
<1>5. CASE TypeOf[t] = "refund"
  BY <1>1, <1>2, <1>5 DEF MovementsProve, CreditStep
<1>6. CASE TypeOf[t] = "purchase"
  BY <1>1, <1>3, <1>6 DEF MovementsProve, CreditStep
<1> QED BY <1>4, <1>5, <1>6

(* Who is given access has paid.                                          *)
LEMMA AccessProvesStep ==
  ASSUME OrchestratorAssumption, TypeOK, MessagesFit, MessagesProve, AccessProves,
         AccessTyped, [SystemNext]_systemVars
  PROVE  AccessProves'
<1> SUFFICES ASSUME NEW t \in Txn, access'[t] # "none"
             PROVE  Moved(t, "purchase_debit")'
  BY DEF AccessProves
<1>1. CASE access[t] # "none"
  BY <1>1, MovedStays DEF AccessProves
<1>2. CASE access[t] = "none"
  <2>1. PICK p, key : Serves(p, key)
    BY <1>2, ServicesStep DEF serviceVars
  <2>2. PICK msg : msg = Head(queues[p])
    OBVIOUS
  <2>3. /\ msg.txn \in Txn
        /\ Proves(msg)
    BY <2>1, <2>2, ServedHead
  <2>4. Catalog!CatalogHandle(msg, key)
    BY <1>2, <2>1, <2>2 DEF Serves, Effect, serviceVars
  <2>5. msg.key = "access.grant.requested" /\ msg.txn = t
    <3>1. CASE msg.key = "access.grant.requested"
      BY <1>2, <2>3, <2>4, <3>1
      DEF Catalog!CatalogHandle, Catalog!Granted, Catalog!GrantConflicted,
          AccessTyped
    <3>2. CASE msg.key = "access.revoke.requested"
      BY <1>2, <2>4, <3>2
      DEF Catalog!CatalogHandle, Catalog!Revoked, Catalog!RevokeRejected,
          AccessTyped
    <3> QED BY <2>4, <3>1, <3>2 DEF Catalog!CatalogHandle
  <2> QED BY <2>3, <2>5, MovedStays DEF Proves
<1> QED BY <1>1, <1>2

(* The verdicts in the ledger go on being true.                           *)
LEMMA LedgerProvesStep ==
  ASSUME OrchestratorAssumption, FInv, MessagesProve, StepsProve, LedgerProves,
         AccessTyped, [SystemNext]_systemVars
  PROVE  LedgerProves'
<1> USE DEF PatchLedger, PublishCommand, SetStatus, SetStep, Call
<1>0. /\ TypeOK
      /\ IInv
      /\ [Next]_vars
  BY SystemStep DEF FInv, IInv
<1> SUFFICES ASSUME NEW t \in Txn
             PROVE  RowProves(t, ledger[t].status)'
  BY DEF LedgerProves
<1>1. ASSUME NEW status, RowProves(t, status), ledger'[t].status = status
      PROVE  RowProves(t, ledger[t].status)'
  BY <1>1, MovedStays, EffectsStay DEF RowProves
<1>2. CASE ledger'[t] = ledger[t]
  BY <1>1, <1>2 DEF LedgerProves
<1>3. CASE LedgerRegistered(t)
  <2>1. ledger[t] \in LedgerRows
    BY <1>0 DEF TypeOK
  <2>2. ledger'[t].status = "pending"
    BY <1>3, <2>1 DEF LedgerRegistered, LedgerRows
  <2> QED BY <1>1, <2>2 DEF RowProves
<1>4. CASE LedgerTimedOut(t)
  BY <1>1, <1>4 DEF LedgerTimedOut, WithStatus, RowProves
<1>5. CASE LedgerPatched(t)
  <2>1. /\ ledger'[t].status = NextCall.status
        /\ NextCall.op = "patch"
        /\ Handling
        /\ Current.txn = t
        /\ CallOf(TypeOf[t], Current.key, delivery.seen, delivery.at, NextCall)
    BY <1>0, <1>5, CurrentCall DEF LedgerPatched, WithStatus, About, NextCall
  <2>2. Proves(Current)
    <3>1. OutcomesQueue \in Queues /\ queues[OutcomesQueue] # << >>
      BY <2>1 DEF Queues, Handling
    <3> QED BY <1>0, <3>1, HeadIsHeld DEF MessagesProve, Queued, Held, Current
  <2>3. \A step : delivery.seen.step = step => Knows(t, step)
    BY <2>1 DEF Knows, Handling
  <2>4. RowProves(t, NextCall.status)
    <3>1. CASE TypeOf[t] = "deposit"
      BY <2>1, <2>2, <3>1 DEF CallOf, Proves, RowProves, CreditStep
    <3>2. CASE TypeOf[t] = "refund"
      BY <2>1, <2>2, <3>2 DEF CallOf, Proves, RowProves, CreditStep
    <3>3. CASE TypeOf[t] = "purchase"
      BY <2>1, <2>2, <2>3, <3>3
      DEF CallOf, Proves, RowProves, CreditStep, StepsProve, PaidSteps
    <3> QED BY <3>1, <3>2, <3>3 DEF RowProves
  <2> QED BY <1>1, <2>1, <2>4
<1> QED BY <1>0, <1>2, <1>3, <1>4, <1>5, LedgerRowStep

------------------------------------------------------------------------------
(* The answers to a grant: no conflict follows a success.                 *)

GrantsComeLast ==
  \A i, j \in DOMAIN queues[OutcomesQueue] :
    /\ i < j
    /\ queues[OutcomesQueue][i].key = "access.granted"
    /\ queues[OutcomesQueue][j].key = "access.grant.conflicted"
    => queues[OutcomesQueue][i].txn # queues[OutcomesQueue][j].txn

(* A purchase that the ledger reports as completed is not taken back.     *)
GrantIsFinal ==
  \A t \in Txn :
    TypeOf[t] = "purchase" /\ ledger[t].status = "completed" =>
      /\ saga[t].status # "compensating"
      /\ \A m \in Queued(OutcomesQueue) :
           m.txn = t => m.key # "access.grant.conflicted"

(* A conflict is answered where there is no access record.                *)
LEMMA ConflictIsDenial ==
  ASSUME NEW p, NEW key, Serves(p, key), key = "access.grant.conflicted"
  PROVE  Catalog!GrantConflicted(Head(queues[p]).txn)
BY DEF Serves, Effect, Charge, Wallet!Handle, Catalog!CatalogHandle

(* The order of the answers is kept.                                      *)
LEMMA GrantsComeLastStep ==
  ASSUME OrchestratorAssumption, TypeOK, MessagesProve, GrantsComeLast,
         [SystemNext]_systemVars
  PROVE  GrantsComeLast'
<1> DEFINE old == queues[OutcomesQueue]
           new == queues'[OutcomesQueue]
<1>t. old \in Seq(Messages)
  BY DEF TypeOK, Queues
<1> SUFFICES ASSUME NEW i \in DOMAIN new, NEW j \in DOMAIN new, i < j,
                    new[i].key = "access.granted",
                    new[j].key = "access.grant.conflicted",
                    new[i].txn = new[j].txn
             PROVE  FALSE
  BY DEF GrantsComeLast
<1>1. CASE new = old
  BY <1>1 DEF GrantsComeLast
<1>2. CASE old # << >> /\ new = Tail(old)
  <2>1. /\ i + 1 \in DOMAIN old /\ new[i] = old[i + 1]
        /\ j + 1 \in DOMAIN old /\ new[j] = old[j + 1]
    BY <1>t, <1>2, TailHeld
  <2>2. i \in Nat /\ j \in Nat
    BY <1>t, <1>2
  <2>3. i + 1 < j + 1
    BY <2>2
  <2> QED BY <2>1, <2>3 DEF GrantsComeLast
<1>3. ASSUME NEW p, NEW key, Gains(p, key)
      PROVE  FALSE
  <2> DEFINE t == Head(queues[p]).txn
             m == Message(key, t, NoStep)
  <2>1. /\ new = Append(old, m)
        /\ Serves(p, key)
    BY <1>3 DEF Gains
  <2> HIDE DEF m
  <2>2. /\ i \in DOMAIN old /\ new[i] = old[i]
        /\ \/ j \in DOMAIN old /\ new[j] = old[j]
           \/ new[j] = m
    BY <1>t, <2>1
  <2>3. new[j] = m
    BY <2>2 DEF GrantsComeLast
  <2>4. key = "access.grant.conflicted" /\ old[i].txn = t
    BY <2>2, <2>3 DEF m, Message
  <2>5. access[t] = "none"
    BY <2>1, <2>4, ConflictIsDenial DEF Catalog!GrantConflicted
  <2>6. Proves(old[i])
    BY <2>2 DEF MessagesProve, Queued, Queues
  <2> QED BY <2>2, <2>4, <2>5, <2>6 DEF Proves
<1> QED BY <1>1, <1>2, <1>3, OutcomesStep

(* What the outcomes' queue holds is old or an answer.                    *)
LEMMA OutcomesHeld ==
  ASSUME OrchestratorAssumption, TypeOK, [SystemNext]_systemVars,
         NEW m \in Held(queues', OutcomesQueue), m \notin Held(queues, OutcomesQueue)
  PROVE  \E p, key : /\ Serves(p, key)
                     /\ m.key = key
                     /\ m.txn = Head(queues[p]).txn
<1>1. queues[OutcomesQueue] \in Seq(Messages)
  BY DEF TypeOK, Queues
<1>2. ~ (/\ queues[OutcomesQueue] # << >>
         /\ queues'[OutcomesQueue] = Tail(queues[OutcomesQueue]))
  <2>1. SUFFICES ASSUME queues[OutcomesQueue] # << >>,
                        queues'[OutcomesQueue] = Tail(queues[OutcomesQueue])
                 PROVE  FALSE
    OBVIOUS
  <2>2. PICK i \in DOMAIN Tail(queues[OutcomesQueue]) :
          m = Tail(queues[OutcomesQueue])[i]
    BY <2>1 DEF Held
  <2> QED BY <1>1, <2>1, <2>2, TailHeld DEF Held
<1>3. PICK p, key : Gains(p, key)
  BY <1>2, OutcomesStep DEF Held
<1> DEFINE answer == Message(key, Head(queues[p]).txn, NoStep)
<1>4. m = answer
  <2>1. queues'[OutcomesQueue] = Append(queues[OutcomesQueue], answer)
    BY <1>3 DEF Gains
  <2> HIDE DEF answer
  <2> QED BY <1>1, <2>1 DEF Held
<1> QED BY <1>3, <1>4 DEF Gains, Message

(* A saga row that is created or timed out is not compensating.           *)
LEMMA NewRowsDoNotPayBack ==
  ASSUME NEW t, SagaCreated(t) \/ SagaTimedOut(t)
  PROVE  saga'[t].status # "compensating" /\ ~ PaysBack(t)'
<1>1. CASE SagaCreated(t)
  BY <1>1 DEF SagaCreated, PaysBack
<1>2. CASE SagaTimedOut(t)
  BY <1>2 DEF SagaTimedOut, PaysBack
<1> QED BY <1>1, <1>2

(* A completed purchase stays as it is.                                   *)
LEMMA GrantIsFinalStep ==
  ASSUME OrchestratorAssumption, FInv, MessagesProve, LedgerProves, GrantsComeLast,
         GrantIsFinal, [SystemNext]_systemVars
  PROVE  GrantIsFinal'
<1> USE DEF PatchLedger, PublishCommand, SetStatus, SetStep, Call
<1>0. /\ TypeOK
      /\ IInv
      /\ RowsFit
      /\ HandlerFits
      /\ [Next]_vars
  BY SystemStep DEF FInv, IInv
<1>o. OutcomesQueue \in Queues
  BY DEF Queues
<1> SUFFICES ASSUME NEW t \in Txn, TypeOf[t] = "purchase",
                    ledger'[t].status = "completed"
             PROVE  /\ saga'[t].status # "compensating"
                    /\ \A m \in Held(queues', OutcomesQueue) :
                         m.txn = t => m.key # "access.grant.conflicted"
  BY DEF GrantIsFinal, Queued, Held
<1>m. ASSUME access[t] # "none",
             \A m \in Held(queues, OutcomesQueue) :
               m.txn = t => m.key # "access.grant.conflicted"
      PROVE  \A m \in Held(queues', OutcomesQueue) :
               m.txn = t => m.key # "access.grant.conflicted"
  BY <1>0, <1>m, OutcomesHeld, ConflictIsDenial DEF Catalog!GrantConflicted
<1>1. CASE ledger[t].status = "completed"
  <2>1. /\ access[t] # "none"
        /\ saga[t].status # "compensating"
        /\ \A m \in Held(queues, OutcomesQueue) :
             m.txn = t => m.key # "access.grant.conflicted"
    BY <1>1 DEF LedgerProves, RowProves, GrantIsFinal, Queued, Held
  <2>2. ~ (SagaRestatused(t) /\ NextCall.status = "compensating")
    <3>1. SUFFICES ASSUME SagaRestatused(t), NextCall.status = "compensating"
                   PROVE  FALSE
      OBVIOUS
    <3>2. /\ CallOf(TypeOf[t], Current.key, delivery.seen, delivery.at, NextCall)
          /\ NextCall.op = "status"
          /\ Current.txn = t
          /\ queues[OutcomesQueue] # << >>
      BY <1>0, <3>1, CurrentCall DEF SagaRestatused, About, NextCall, Handling
    <3>3. Current.key = "access.grant.conflicted"
      BY <3>1, <3>2 DEF CallOf
    <3>4. Current \in Held(queues, OutcomesQueue)
      BY <1>0, <1>o, <3>2, HeadIsHeld DEF Current
    <3> QED BY <2>1, <3>2, <3>3, <3>4
  <2>3. saga'[t].status # "compensating"
    <3>1. CASE SagaRestatused(t)
      BY <2>2, <3>1 DEF SagaRestatused
    <3>2. CASE SagaStepped(t)
      <4>1. saga[t] \in SagaRows
        BY <1>0 DEF TypeOK
      <4> QED BY <2>1, <3>2, <4>1 DEF SagaStepped, SagaRows
    <3> QED BY <1>0, <2>1, <3>1, <3>2, SagaRowStep, NewRowsDoNotPayBack
  <2> QED BY <1>m, <2>1, <2>3
<1>2. CASE ledger[t].status # "completed"
  <2>1. LedgerPatched(t)
    <3>1. ~ LedgerRegistered(t)
      <4>1. ledger[t] \in LedgerRows
        BY <1>0 DEF TypeOK
      <4> QED BY <4>1 DEF LedgerRegistered, LedgerRows
    <3>2. ~ LedgerTimedOut(t)
      BY DEF LedgerTimedOut, WithStatus
    <3> QED BY <1>0, <1>2, <3>1, <3>2, LedgerRowStep
  <2>2. /\ NextCall.op = "patch"
        /\ NextCall.status = "completed"
        /\ Handling
        /\ Calls # << >>
        /\ Current.txn = t
        /\ CallOf("purchase", Current.key, delivery.seen, delivery.at, NextCall)
    <3>1. Len(<< >>) = 0
      OBVIOUS
    <3> QED BY <1>0, <2>1, <3>1, CurrentCall
            DEF LedgerPatched, WithStatus, About, NextCall
  <2>3. /\ Current.key = "access.granted"
        /\ delivery.seen.step = "purchase_grant"
    BY <2>2 DEF CallOf
  <2>4. saga[t].status # "compensating"
    <3>1. delivery.seen.status # "compensating"
      BY <2>2, <2>3 DEF Handling, RowFits, RowsFit, FInv
    <3> QED BY <1>0, <2>2, <2>3, <3>1 DEF HandlerFits
  <2>5. saga'[t].status # "compensating"
    <3>1. ~ SagaRestatused(t) /\ ~ SagaStepped(t)
      BY <2>2 DEF SagaRestatused, SagaStepped, About, NextCall
    <3> QED BY <1>0, <2>4, <3>1, SagaRowStep, NewRowsDoNotPayBack
  <2>6. /\ queues[OutcomesQueue] \in Seq(Messages)
        /\ queues[OutcomesQueue] # << >>
        /\ Current = queues[OutcomesQueue][1]
        /\ 1 \in DOMAIN queues[OutcomesQueue]
    <3>1. queues[OutcomesQueue] \in Seq(Messages) /\ queues[OutcomesQueue] # << >>
      BY <1>0, <1>o, <2>2 DEF TypeOK, Handling
    <3> QED BY <3>1 DEF Current
  <2>7. access[t] # "none"
    BY <1>o, <2>2, <2>3, <2>6 DEF MessagesProve, Queued, Proves
  <2>8. ASSUME NEW m \in Held(queues, OutcomesQueue), m.txn = t
        PROVE  m.key # "access.grant.conflicted"
    <3>1. PICK j \in DOMAIN queues[OutcomesQueue] : m = queues[OutcomesQueue][j]
      BY DEF Held
    <3>2. j = 1 \/ 1 < j
      BY <2>6, <3>1
    <3> QED BY <2>2, <2>3, <2>6, <2>8, <3>1, <3>2 DEF GrantsComeLast
  <2> QED BY <1>m, <2>5, <2>7, <2>8
<1> QED BY <1>1, <1>2

------------------------------------------------------------------------------
(* The invariant of the system and what follows from it.                  *)

SInv ==
  /\ FInv
  /\ AccessTyped
  /\ MessagesProve
  /\ StartsProve
  /\ StepsProve
  /\ MovementsProve
  /\ AccessProves
  /\ LedgerProves
  /\ GrantsComeLast
  /\ GrantIsFinal

(* The invariant holds before anything has happened.                      *)
LEMMA ProvesInit ==
  ASSUME OrchestratorAssumption, SystemInit
  PROVE  SInv
<1>1. Init /\ movements = {} /\ access = [t \in Txn |-> "none"]
  BY DEF SystemInit, Wallet!Init, Catalog!CatalogInit
<1>2. FInv
  BY <1>1, FitsInit
<1>3. \A t, step : ~ Moved(t, step)
  BY <1>1 DEF Moved, Wallet!Exists, Wallet!Movements
<1>4. /\ \A q \in Queues : Queued(q) = {}
      /\ OutcomesQueue \in Queues
      /\ queues[OutcomesQueue] = << >>
  BY <1>1 DEF Init, NoQueuedMessages, Queued, Queues
<1>5. MessagesProve /\ GrantsComeLast
  BY <1>4 DEF MessagesProve, GrantsComeLast
<1>6. StartsProve
  BY <1>1 DEF Init, StartsProve, Working
<1>7. StepsProve
  BY <1>1 DEF Init, StepsProve, PaidSteps, Knows, NoSaga, Waiting, IdlePoller
<1>8. MovementsProve
  BY <1>3 DEF MovementsProve
<1>9. AccessTyped /\ AccessProves
  BY <1>1 DEF AccessTyped, AccessProves, Catalog!AccessStatuses
<1>10. LedgerProves /\ GrantIsFinal
  BY <1>1 DEF Init, LedgerProves, RowProves, GrantIsFinal, NoRow
<1> QED BY <1>2, <1>5, <1>6, <1>7, <1>8, <1>9, <1>10 DEF SInv

(* And every step keeps it.                                               *)
LEMMA ProvesStep ==
  ASSUME OrchestratorAssumption, SInv, [SystemNext]_systemVars
  PROVE  SInv'
<1>1. /\ FInv /\ AccessTyped /\ MessagesProve /\ StartsProve /\ StepsProve
      /\ MovementsProve /\ AccessProves /\ LedgerProves /\ GrantsComeLast
      /\ GrantIsFinal
      /\ TypeOK /\ MessagesFit
      /\ [Next]_vars
  BY SystemStep DEF SInv, FInv, IInv
<1>2. FInv' /\ AccessTyped'
  BY <1>1, FitsStep, EffectsStay
<1>3. MessagesProve' /\ StartsProve' /\ StepsProve'
  BY <1>1, MessagesProveStep, StartsProveStep, StepsProveStep
<1>4. MovementsProve' /\ AccessProves' /\ LedgerProves'
  BY <1>1, MovementsProveStep, AccessProvesStep, LedgerProvesStep
<1>5. GrantsComeLast' /\ GrantIsFinal'
  BY <1>1, GrantsComeLastStep, GrantIsFinalStep
<1> QED BY <1>2, <1>3, <1>4, <1>5 DEF SInv

(* The invariant of the system holds in every reachable state.            *)
THEOREM SInvHolds == SystemSpec => []SInv
<1>1. SystemInit => SInv
  BY OrchestratorAssumption, ProvesInit
<1>2. SInv /\ [SystemNext]_systemVars => SInv'
  BY OrchestratorAssumption, ProvesStep
<1> QED BY <1>1, <1>2, PTL DEF SystemSpec

(* What the ledger says of a deposit or a refund is what happened to the   *)
(* money: a completed one was credited, a failed one was not.             *)
THEOREM CreditVerdictsAreTrue == SystemSpec => []CreditVerdictIsTrue
<1>1. SInv => CreditVerdictIsTrue
  <2> SUFFICES ASSUME SInv, NEW t \in Txn, TypeOf[t] # "purchase"
               PROVE  LET step == IF TypeOf[t] = "deposit" THEN "deposit_credit"
                                                           ELSE "refund_credit"
                      IN /\ ledger[t].status = "completed" => Moved(t, step)
                         /\ ledger[t].status = "failed" => ~ Moved(t, step)
    BY DEF CreditVerdictIsTrue
  <2>1. TypeOf[t] \in { "deposit", "refund" }
    BY OrchestratorAssumption DEF OrchestratorAssumption, SagaTypes
  <2> QED BY <2>1 DEF SInv, LedgerProves, RowProves, MovementsProve
<1> QED BY <1>1, SInvHolds, PTL

(* Nobody is given access to what was not paid for.                       *)
THEOREM AccessIsPaidFor ==
  SystemSpec => [](\A t \in Txn : access[t] # "none" => Moved(t, "purchase_debit"))
<1>1. SInv => \A t \in Txn : access[t] # "none" => Moved(t, "purchase_debit")
  BY DEF SInv, AccessProves
<1> QED BY <1>1, SInvHolds, PTL

(* A refund is paid only after the access it names has been ended.        *)
THEOREM RefundsEndAccess == SystemSpec => []RefundEndsAccess
<1>1. SInv => RefundEndsAccess
  BY DEF SInv, MovementsProve, GivenBack, RefundEndsAccess
<1> QED BY <1>1, SInvHolds, PTL

(* A purchase that the ledger reports as completed was paid for, granted   *)
(* and not paid back; one reported as compensated was paid for and paid    *)
(* back: for all faults and timeouts.                                      *)
THEOREM PurchaseVerdictsAreTrue ==
  SystemSpec => [](CompletedPurchaseIsTrue /\ CompensatedPurchaseIsTrue)
<1>1. SInv => CompletedPurchaseIsTrue
  <2> SUFFICES ASSUME SInv, NEW t \in Txn, TypeOf[t] = "purchase",
                      ledger[t].status = "completed"
               PROVE  /\ Moved(t, "purchase_debit")
                      /\ access[t] # "none"
                      /\ ~ Moved(t, "purchase_compensation")
    BY DEF CompletedPurchaseIsTrue
  <2>1. access[t] # "none" /\ Moved(t, "purchase_debit")
    BY DEF SInv, LedgerProves, RowProves, AccessProves
  <2>2. ~ PaysBack(t)
    <3>1. saga[t].status # "compensating"
      BY DEF SInv, GrantIsFinal
    <3>2. saga[t].outcome = "compensated" => saga[t].status = "completed"
      BY DEF SInv, FInv, RowsFit, RowFits
    <3>3. saga[t].status = "completed" => Verdict(saga[t]) = "completed"
      BY DEF SInv, FInv, IInv, TerminalSagaMatchesLedger, TerminalStatuses
    <3> QED BY <3>1, <3>2, <3>3 DEF PaysBack, Verdict
  <2> QED BY <2>1, <2>2 DEF SInv, MovementsProve
<1>2. SInv => CompensatedPurchaseIsTrue
  BY DEF SInv, LedgerProves, RowProves, CompensatedPurchaseIsTrue
<1> QED BY <1>1, <1>2, SInvHolds, PTL

------------------------------------------------------------------------------
(***************************************************************************)
(* A grant that met a conflict can be repeated, and the repetition is      *)
(* answered anew.  It meets the same conflict unless a refund has ended    *)
(* the access it conflicted with.                                          *)
(***************************************************************************)

(* No access ends in favour of a purchase that is being refused because of *)
(* it: when a refund ends the last access of a user to an offering, the    *)
(* grant of no other purchase of the two is requested, or conflicted and   *)
(* not yet handled.  Before and after that they may buy it again.          *)
AccessEndsUndisputed ==
  \A t \in Txn :
    /\ TypeOf[t] = "purchase"
    /\ access[t] = "none"
    /\ Catalog!ActiveFor(t) # {}
    /\ Catalog!ActiveFor(t)' = {}
    => \A q \in Queues : \A m \in Queued(q) :
         m.txn = t =>
           m.key \notin { "access.grant.requested", "access.grant.conflicted" }

(* Revocations are for refunds.                                           *)
RevokesFit ==
  \A q \in Queues : \A m \in Queued(q) :
    m.key = "access.revoke.requested" => TypeOf[m.txn] = "refund"

(* The grant of a purchase has been denied.                               *)
Denied(t) ==
  \/ PaysBack(t)
  \/ \E m \in Queued(OutcomesQueue) :
       m.txn = t /\ m.key = "access.grant.conflicted"

(* Its price is being handed back and its grant is not asked for again.    *)
Over(t) ==
  /\ PaysBack(t)
  /\ \A q \in Queues : \A m \in Queued(q) :
       m.txn = t => m.key # "access.grant.requested"

(* It is denied for good: the access it conflicts with stays as long as    *)
(* the grant may be repeated.                                              *)
DenialIsFinal ==
  \A t \in Txn :
    TypeOf[t] = "purchase" /\ Denied(t) =>
      /\ access[t] = "none"
      /\ Catalog!ActiveFor(t) # {} \/ Over(t)

(* Only refunds publish revocations.                                      *)
LEMMA RevokesFitStep ==
  ASSUME OrchestratorAssumption, TypeOK, RevokesFit, [Next]_vars
  PROVE  RevokesFit'
<1>1. ASSUME NEW q \in Queues, NEW m \in Held(queues', q),
             m.key = "access.revoke.requested"
      PROVE  TypeOf[m.txn] = "refund"
  <2>1. CASE m \in Held(queues, q)
    BY <1>1, <2>1 DEF RevokesFit, Queued, Held
  <2>2. CASE Sent(m)
    <3>1. ASSUME NEW t \in Txn, m = FirstCommand(TypeOf[t], t)
          PROVE  TypeOf[m.txn] = "refund"
      BY <1>1, <3>1 DEF FirstCommand, Message, OrchestratorAssumption, SagaTypes
    <3>2. ASSUME About("publish"),
                 m = Message(NextCall.status, Current.txn, NextCall.step)
          PROVE  FALSE
      <4>1. /\ CallOf(TypeOf[Current.txn], Current.key, delivery.seen,
                      delivery.at, NextCall)
            /\ NextCall.op = "publish"
            /\ NextCall.status = "access.revoke.requested"
        BY <1>1, <3>2, CurrentCall DEF About, NextCall, Message
      <4> QED BY <4>1
              DEF CallOf, PatchLedger, PublishCommand, SetStatus, SetStep, Call
    <3>3. ASSUME NEW p, NEW key \in OutcomeKeys, m = Message(key, p, NoStep)
          PROVE  FALSE
      BY <1>1, <3>3 DEF Message, OutcomeKeys
    <3> QED BY <2>2, <3>1, <3>2, <3>3 DEF Sent, Commanded
  <2> QED BY <1>1, <2>1, <2>2, QueueStep
<1> QED BY <1>1 DEF RevokesFit, Queued, Held

(* So every revocation is for a refund.                                   *)
LEMMA RevocationsAreRefunds == SystemSpec => []RevokesFit
<1>1. SystemInit => RevokesFit
  <2> SUFFICES ASSUME SystemInit
               PROVE  RevokesFit
    OBVIOUS
  <2>1. \A q \in Queues : Queued(q) = {}
    BY DEF SystemInit, Init, NoQueuedMessages, Queued
  <2> QED BY <2>1 DEF RevokesFit
<1>2. SInv /\ RevokesFit /\ [SystemNext]_systemVars => RevokesFit'
  BY OrchestratorAssumption, SystemStep, RevokesFitStep DEF SInv, FInv, IInv
<1> QED BY <1>1, <1>2, SInvHolds, PTL DEF SystemSpec

(* A grant is denied by an answer of catalog-access, or was before.       *)
LEMMA DeniedStep ==
  ASSUME OrchestratorAssumption, FInv, [SystemNext]_systemVars, NEW t \in Txn,
         TypeOf[t] = "purchase", Denied(t)'
  PROVE  \/ Denied(t)
         \/ access[t] = "none" /\ Catalog!ActiveFor(t) # {}
<1> USE DEF PatchLedger, PublishCommand, SetStatus, SetStep, Call
<1>0. /\ TypeOK /\ IInv /\ RowsFit /\ MessagesFit /\ CreditsFit
      /\ OutcomesQueue \in Queues
      /\ [Next]_vars
  BY SystemStep DEF FInv, IInv, Queues
<1>1. ASSUME NEW m \in Held(queues', OutcomesQueue), m.txn = t,
             m.key = "access.grant.conflicted"
      PROVE  \/ Denied(t)
             \/ access[t] = "none" /\ Catalog!ActiveFor(t) # {}
  <2>1. CASE m \in Held(queues, OutcomesQueue)
    BY <1>1, <2>1 DEF Denied, Queued, Held
  <2>2. CASE m \notin Held(queues, OutcomesQueue)
    BY <1>0, <1>1, <2>2, OutcomesHeld, ConflictIsDenial
    DEF Catalog!GrantConflicted
  <2> QED BY <2>1, <2>2
<1>2. CASE PaysBack(t)'
  <2>1. CASE saga'[t] = saga[t]
    BY <1>2, <2>1 DEF PaysBack, Denied
  <2>2. CASE SagaRestatused(t)
    <3>1. /\ CallOf("purchase", Current.key, delivery.seen, delivery.at, NextCall)
          /\ NextCall.op = "status"
          /\ Current.txn = t
          /\ queues[OutcomesQueue] # << >>
          /\ saga'[t] = [status |-> NextCall.status,
                         outcome |-> NextCall.detail,
                         step |-> NextCall.step]
      BY <1>0, <2>2, CurrentCall DEF SagaRestatused, About, NextCall, Handling
    <3>2. NextCall.status = "compensating" \/ NextCall.detail = "compensated"
      BY <1>2, <3>1 DEF PaysBack
    <3>3. Current.key \in { "access.grant.conflicted", "wallet.credited" }
      BY <3>1, <3>2 DEF CallOf
    <3>4. Current \in Held(queues, OutcomesQueue)
      BY <1>0, <3>1, HeadIsHeld DEF Current
    <3> QED BY <1>0, <3>1, <3>3, <3>4 DEF Denied, CreditsFit, Queued, Held
  <2>3. CASE SagaStepped(t)
    <3>1. saga[t] \in SagaRows
      BY <1>0 DEF TypeOK
    <3> QED BY <1>2, <2>3, <3>1 DEF SagaStepped, SagaRows, PaysBack, Denied
  <2> QED BY <1>0, <1>2, <2>1, <2>2, <2>3, SagaRowStep, NewRowsDoNotPayBack
<1> QED BY <1>1, <1>2 DEF Denied, Queued, Held

(* While another access is active a purchase is not granted.              *)
LEMMA NotGrantedBesideAnother ==
  ASSUME TypeOK, MessagesFit, MessagesProve, AccessTyped,
         [SystemNext]_systemVars, NEW t \in Txn, access[t] = "none",
         \/ Catalog!ActiveFor(t) # {}
         \/ Over(t)
  PROVE  access'[t] = "none"
<1> SUFFICES ASSUME access' # access
             PROVE  access'[t] = "none"
  OBVIOUS
<1>1. PICK p, key : Serves(p, key)
  BY ServicesStep DEF serviceVars
<1>2. PICK msg : msg = Head(queues[p])
  OBVIOUS
<1>3. /\ msg \in Held(queues, p)
      /\ p \in Queues
  BY <1>1, <1>2, ServedHead
<1>4. Catalog!CatalogHandle(msg, key)
  BY <1>1, <1>2 DEF Serves, Effect, serviceVars
<1>5. CASE msg.key = "access.grant.requested"
  <2>1. /\ Catalog!ActiveFor(msg.txn) = {}
        /\ access' = [access EXCEPT ![msg.txn] = "active"]
    BY <1>4, <1>5
    DEF Catalog!CatalogHandle, Catalog!Granted, Catalog!GrantConflicted
  <2>2. msg.txn # t
    BY <1>3, <1>5, <2>1 DEF Over, Queued, Held
  <2> QED BY <2>1, <2>2 DEF AccessTyped
<1>6. CASE msg.key = "access.revoke.requested"
  <2>1. /\ access[OriginalOf[msg.txn]] # "none"
        /\ access' = [access EXCEPT ![OriginalOf[msg.txn]] = "revoked"]
    BY <1>4, <1>6
    DEF Catalog!CatalogHandle, Catalog!Revoked, Catalog!RevokeRejected
  <2>2. OriginalOf[msg.txn] # t
    BY <2>1
  <2> QED BY <2>1, <2>2 DEF AccessTyped
<1> QED BY <1>4, <1>5, <1>6 DEF Catalog!CatalogHandle

(* A purchase whose price is being handed back asks for no grant.          *)
LEMMA OverStays ==
  ASSUME OrchestratorAssumption, FInv, [SystemNext]_systemVars, NEW t \in Txn,
         TypeOf[t] = "purchase", Over(t)
  PROVE  Over(t)'
<1> USE DEF PatchLedger, PublishCommand, SetStatus, SetStep, Call
<1>0. /\ TypeOK /\ IInv /\ RowsFit /\ HandlerFits /\ CreditsFit /\ MessagesFit
      /\ WritersAreNotOvertaken
      /\ [Next]_vars
  BY SystemStep DEF FInv, IInv
<1>1. PaysBack(t)'
  BY <1>0, PaysBackStays DEF Over
<1>2. ASSUME NEW q \in Queues, NEW m \in Held(queues', q), m.txn = t,
             m.key = "access.grant.requested"
      PROVE  FALSE
  <2>1. m \notin Held(queues, q)
    BY <1>2 DEF Over, Queued, Held
  <2>2. ~ Commanded(m)
    <3>1. ASSUME NEW u \in Txn, m = FirstCommand(TypeOf[u], u)
          PROVE  FALSE
      BY <1>2, <3>1
      DEF FirstCommand, Message, OrchestratorAssumption, SagaTypes
    <3>2. ASSUME About("publish"),
                 m = Message(NextCall.status, Current.txn, NextCall.step)
          PROVE  FALSE
      <4>1. /\ CallOf("purchase", Current.key, delivery.seen, delivery.at, NextCall)
            /\ NextCall.op = "publish"
            /\ NextCall.status = "access.grant.requested"
            /\ Current.txn = t
            /\ Handling
            /\ delivery.at \in 1..Len(Calls)
        BY <1>0, <1>2, <3>2, CurrentCall DEF About, NextCall, Message
      <4>2. /\ Current.key = "wallet.debited"
            /\ delivery.seen.status # "compensating"
        BY <4>1 DEF CallOf
      <4>3. Calls # << >>
        BY <4>1
      <4>4. saga[t].status # "compensating"
        BY <1>0, <4>1, <4>2, <4>3 DEF HandlerFits
      <4>5. saga[t].status # "completed"
        BY <1>0, <4>1 DEF WritersAreNotOvertaken, TerminalStatuses
      <4> QED BY <1>0, <4>4, <4>5 DEF Over, PaysBack, RowsFit, RowFits
    <3> QED BY <3>1, <3>2 DEF Commanded
  <2>3. ASSUME NEW p, NEW key, Serves(p, key),
               m = Message(key, Head(queues[p]).txn, NoStep)
        PROVE  FALSE
    BY <1>2, <2>3 DEF Serves, Message, OutcomeKeys
  <2> QED BY <1>0, <2>1, <2>2, <2>3, SystemQueueStep
<1> QED BY <1>1, <1>2 DEF Over, Queued, Held

(* The services' steps leave the saga rows alone.                         *)
LEMMA AccessChangesAlone ==
  ASSUME [SystemNext]_systemVars, access' # access
  PROVE  saga' = saga
<1>1. ServiceStep
  BY DEF SystemNext, OrchestratorStep, serviceVars, systemVars
<1> QED BY <1>1, ServicesAreParticipants
        DEF ParticipantNext, Answer, AnswerUnacked, GiveUp, vars

(* A denial by an active access stays one, or the purchase is over.        *)
LEMMA DenialStays ==
  ASSUME AccessEndsUndisputed, OrchestratorAssumption, FInv, MessagesProve,
         AccessTyped, [SystemNext]_systemVars, NEW t \in Txn,
         TypeOf[t] = "purchase", Denied(t)', access[t] = "none",
         Catalog!ActiveFor(t) # {}
  PROVE  Catalog!ActiveFor(t)' # {} \/ Over(t)'
<1>0. TypeOK /\ MessagesFit
  BY DEF FInv, IInv
<1> SUFFICES ASSUME Catalog!ActiveFor(t)' = {}
             PROVE  Over(t)'
  OBVIOUS
<1>1. access' # access
  BY DEF Catalog!ActiveFor
<1>2. saga' = saga
  BY <1>1, AccessChangesAlone
<1>3. \A q \in Queues : \A m \in Queued(q) :
        m.txn = t =>
          m.key \notin { "access.grant.requested", "access.grant.conflicted" }
  BY DEF AccessEndsUndisputed
<1>4. PaysBack(t)
  <2>1. ASSUME NEW m \in Held(queues', OutcomesQueue), m.txn = t,
               m.key = "access.grant.conflicted"
        PROVE  FALSE
    <3>1. OutcomesQueue \in Queues
      BY DEF Queues
    <3>2. m \notin Held(queues, OutcomesQueue)
      BY <1>3, <2>1, <3>1 DEF Queued, Held
    <3>3. PICK p, key : /\ Serves(p, key)
                        /\ m.key = key
                        /\ m.txn = Head(queues[p]).txn
      BY <1>0, <3>2, OutcomesHeld
    <3>4. Catalog!GrantConflicted(t)
      BY <1>0, <2>1, <3>3, ConflictIsDenial
    <3> QED BY <1>1, <3>4 DEF Catalog!GrantConflicted
  <2> QED BY <1>2, <2>1 DEF Denied, PaysBack, Queued, Held
<1>5. Over(t)
  BY <1>3, <1>4 DEF Over
<1> QED BY <1>5, OverStays

(* The invariant of the denials, on top of that of the system.             *)
DInv == SInv /\ DenialIsFinal

(* Before anything has happened nothing is denied.                        *)
LEMMA DenialInit ==
  ASSUME OrchestratorAssumption, SystemInit
  PROVE  DInv
<1>1. SInv
  BY ProvesInit
<1>2. /\ \A q \in Queues : Queued(q) = {}
      /\ OutcomesQueue \in Queues
      /\ saga = [t \in Txn |-> NoSaga]
  BY DEF SystemInit, Init, NoQueuedMessages, Queued, Queues
<1>3. \A t \in Txn : ~ Denied(t)
  BY <1>2 DEF Denied, PaysBack, NoSaga
<1> QED BY <1>1, <1>3 DEF DInv, DenialIsFinal

(* And what is denied stays so.                                           *)
LEMMA DenialStep ==
  ASSUME AccessEndsUndisputed, OrchestratorAssumption, DInv,
         [SystemNext]_systemVars
  PROVE  DInv'
<1>1. /\ SInv /\ DenialIsFinal
      /\ FInv /\ AccessTyped /\ MessagesProve /\ TypeOK /\ MessagesFit
      /\ [Next]_vars
  BY SystemStep DEF DInv, SInv, FInv, IInv
<1>2. SInv'
  BY <1>1, ProvesStep
<1>3. ASSUME NEW t \in Txn, TypeOf[t] = "purchase", Denied(t)'
      PROVE  access'[t] = "none" /\ (Catalog!ActiveFor(t)' # {} \/ Over(t)')
  <2>1. access[t] = "none" /\ (Catalog!ActiveFor(t) # {} \/ Over(t))
    BY <1>1, <1>3, DeniedStep DEF DenialIsFinal
  <2>2. access'[t] = "none"
    BY <1>1, <2>1, NotGrantedBesideAnother
  <2>3. Catalog!ActiveFor(t) # {} => Catalog!ActiveFor(t)' # {} \/ Over(t)'
    BY <1>1, <1>3, <2>1, DenialStays
  <2>4. Over(t) => Over(t)'
    BY <1>1, <1>3, OverStays
  <2> QED BY <2>1, <2>2, <2>3, <2>4
<1>4. DenialIsFinal'
  BY <1>3 DEF DenialIsFinal
<1> QED BY <1>2, <1>4 DEF DInv

(* Where access ends undisputed, denials are final.                       *)
THEOREM DInvHolds == SystemSpec /\ [][AccessEndsUndisputed]_systemVars => []DInv
<1>1. SystemInit => DInv
  BY OrchestratorAssumption, DenialInit
<1>2. DInv /\ [SystemNext]_systemVars /\ [AccessEndsUndisputed]_systemVars => DInv'
  <2> SUFFICES ASSUME DInv, [SystemNext]_systemVars,
                      [AccessEndsUndisputed]_systemVars
               PROVE  DInv'
    OBVIOUS
  <2>1. AccessEndsUndisputed
    BY DEF AccessEndsUndisputed, Catalog!ActiveFor, systemVars, serviceVars
  <2> QED BY <2>1, OrchestratorAssumption, DenialStep
<1> QED BY <1>1, <1>2, PTL DEF SystemSpec

(* Money and access are then never both the user's: what was paid back by  *)
(* compensation or by a refund gives no access.                           *)
THEOREM PayingBackEndsAccess ==
  SystemSpec /\ [][AccessEndsUndisputed]_systemVars => []PaidBackGivesNoAccess
<1>1. DInv => PaidBackGivesNoAccess
  BY DEF DInv, SInv, MovementsProve, GivenBack, Denied, DenialIsFinal,
         PaidBackGivesNoAccess, CompensationGivesNoAccess, RefundEndsAccess
<1> QED BY <1>1, DInvHolds, PTL

(* Nobody else buys again what a refund is about.                         *)
RefundsAreApart ==
  \A r, t \in Txn :
    /\ TypeOf[r] = "refund"
    /\ TypeOf[t] = "purchase"
    /\ OriginalOf[r] \in Txn
    /\ UserOf[OriginalOf[r]] = UserOf[t]
    /\ OfferingOf[OriginalOf[r]] = OfferingOf[t]
    => OriginalOf[r] = t

(* Then only its own refund ends the access that denies a purchase.        *)
LEMMA ApartStep ==
  ASSUME RefundsAreApart, TypeOK, MessagesFit, MessagesProve, RevokesFit,
         AccessTyped, [SystemNext]_systemVars
  PROVE  AccessEndsUndisputed
<1> SUFFICES ASSUME NEW t \in Txn, TypeOf[t] = "purchase", access[t] = "none",
                    Catalog!ActiveFor(t) # {}, Catalog!ActiveFor(t)' = {}
             PROVE  FALSE
  BY DEF AccessEndsUndisputed
<1>1. PICK a \in Txn : /\ access[a] = "active"
                       /\ UserOf[a] = UserOf[t]
                       /\ OfferingOf[a] = OfferingOf[t]
  BY DEF Catalog!ActiveFor
<1>2. access'[a] # "active"
  BY <1>1 DEF Catalog!ActiveFor
<1>3. PICK p, key : Serves(p, key)
  BY <1>1, <1>2, ServicesStep DEF serviceVars
<1>4. PICK msg : msg = Head(queues[p])
  OBVIOUS
<1>5. /\ msg \in Held(queues, p)
      /\ p \in Queues
      /\ Proves(msg)
  BY <1>3, <1>4, ServedHead
<1>6. Catalog!CatalogHandle(msg, key)
  BY <1>1, <1>2, <1>3, <1>4 DEF Serves, Effect, serviceVars
<1>7. CASE msg.key = "access.grant.requested"
  BY <1>1, <1>2, <1>6, <1>7
  DEF Catalog!CatalogHandle, Catalog!Granted, Catalog!GrantConflicted,
      AccessTyped
<1>8. CASE msg.key = "access.revoke.requested"
  <2>1. /\ access[OriginalOf[msg.txn]] # "none"
        /\ access' = [access EXCEPT ![OriginalOf[msg.txn]] = "revoked"]
    BY <1>1, <1>2, <1>6, <1>8
    DEF Catalog!CatalogHandle, Catalog!Revoked, Catalog!RevokeRejected
  <2>2. OriginalOf[msg.txn] = a
    BY <1>1, <1>2, <2>1 DEF AccessTyped
  <2>3. msg.txn \in Txn /\ TypeOf[msg.txn] = "refund"
    BY <1>3, <1>4, <1>5, <1>8, ServedHead DEF RevokesFit, Queued, Held
  <2>4. a = t
    BY <1>1, <2>2, <2>3 DEF RefundsAreApart
  <2> QED BY <1>1, <2>4
<1> QED BY <1>6, <1>7, <1>8 DEF Catalog!CatalogHandle

(* Where nobody else buys again what a refund is about, no access ends     *)
(* disputed.                                                              *)
THEOREM RefundsApartAreUndisputed ==
  RefundsAreApart /\ SystemSpec => [][AccessEndsUndisputed]_systemVars
<1>1. SUFFICES ASSUME RefundsAreApart
               PROVE  SystemSpec => [][AccessEndsUndisputed]_systemVars
  OBVIOUS
<1>2. SInv /\ RevokesFit /\ [SystemNext]_systemVars =>
        [AccessEndsUndisputed]_systemVars
  BY <1>1, ApartStep DEF SInv, FInv, IInv
<1> QED BY <1>2, SInvHolds, RevocationsAreRefunds, PTL DEF SystemSpec

------------------------------------------------------------------------------
(***************************************************************************)
(* Each refund has its own key and its own id, and nothing ties a refund   *)
(* to the others of its purchase except the eligibility check, which reads *)
(* the access that only the revocation ends.  Refunds that take turns      *)
(* around that window are safe, whatever else fails or is repeated.        *)
(***************************************************************************)

(* A refund that has passed its check, and whose revocation may come yet.  *)
InFlight(r) ==
  \/ start[r] \in { "register", "create", "dispatch" }
  \/ \E q \in Queues : \E m \in Queued(q) :
       m.txn = r /\ m.key = "access.revoke.requested"

(* No refund is let through its check while another one of the same        *)
(* purchase is between its check and its revocation.  The two may be       *)
(* requested one after the other, fail, crash and be repeated.            *)
RefundsTakeTurns ==
  \A r, s \in Txn :
    /\ TypeOf[r] = "refund" /\ TypeOf[s] = "refund"
    /\ r # s
    /\ OriginalOf[r] = OriginalOf[s]
    /\ start[r] = "new" /\ start'[r] = "register"
    => ~ InFlight(s)

(* A refund that has ended the access.                                    *)
Effective(r) ==
  \/ Moved(r, "refund_credit")
  \/ \E q \in Queues : \E m \in Queued(q) :
       m.txn = r /\ m.key \in { "access.revoked", "wallet.credit.requested" }

(* One refund of a purchase at a time, and after an effective one none.    *)
OneRefund ==
  \A r, s \in Txn :
    /\ TypeOf[r] = "refund" /\ TypeOf[s] = "refund"
    /\ r # s
    /\ OriginalOf[r] = OriginalOf[s]
    => ~ ((InFlight(r) \/ Effective(r)) /\ (InFlight(s) \/ Effective(s)))

(* What became effective had ended the access.                            *)
LEMMA EffectiveEndsAccess ==
  ASSUME MessagesProve, MovementsProve, NEW r \in Txn, TypeOf[r] = "refund",
         Effective(r)
  PROVE  access[OriginalOf[r]] = "revoked"
BY DEF MessagesProve, MovementsProve, Proves, Effective, GivenBack

(* A refund comes into flight by passing its check, alone.                *)
LEMMA FlightBegins ==
  ASSUME OrchestratorAssumption, TypeOK, [SystemNext]_systemVars, NEW r \in Txn,
         TypeOf[r] = "refund", InFlight(r)', ~ InFlight(r)
  PROVE  /\ access[OriginalOf[r]] = "active"
         /\ start[r] = "new"
         /\ start' = [start EXCEPT ![r] = "register"]
         /\ queues' = queues
<1> USE DEF PatchLedger, PublishCommand, SetStatus, SetStep, Call
<1>t. start \in [Txn -> StartStages]
  BY DEF TypeOK
<1>1. ~ \E q \in Queues : \E m \in Held(queues', q) :
          m.txn = r /\ m.key = "access.revoke.requested"
  <2> SUFFICES ASSUME NEW q \in Queues, NEW m \in Held(queues', q),
                      m.txn = r, m.key = "access.revoke.requested"
               PROVE  FALSE
    OBVIOUS
  <2>1. m \notin Held(queues, q)
    BY DEF InFlight, Queued, Held
  <2>2. ~ Commanded(m)
    <3>1. ASSUME NEW t \in Txn, start[t] = "dispatch",
                 m = FirstCommand(TypeOf[t], t)
          PROVE  FALSE
      <4>1. t = r
        BY <3>1, OrchestratorAssumption
        DEF FirstCommand, Message, OrchestratorAssumption, SagaTypes
      <4> QED BY <3>1, <4>1 DEF InFlight
    <3>2. ASSUME About("publish"),
                 m = Message(NextCall.status, Current.txn, NextCall.step)
          PROVE  FALSE
      <4>1. /\ CallOf(TypeOf[Current.txn], Current.key, delivery.seen,
                      delivery.at, NextCall)
            /\ NextCall.op = "publish"
            /\ NextCall.status = "access.revoke.requested"
        BY <3>2, CurrentCall DEF About, NextCall, Message
      <4> QED BY <4>1 DEF CallOf
    <3> QED BY <3>1, <3>2 DEF Commanded
  <2>3. ASSUME NEW p, NEW key, Serves(p, key),
               m = Message(key, Head(queues[p]).txn, NoStep)
        PROVE  FALSE
    BY <2>3 DEF Serves, Message, OutcomeKeys
  <2> QED BY <2>1, <2>2, <2>3, SystemQueueStep
<1>2. /\ start'[r] \in { "register", "create", "dispatch" }
      /\ start[r] \notin { "register", "create", "dispatch" }
  BY <1>1 DEF InFlight, Queued, Held
<1>3. CASE OrchestratorStep
  <2>1. ~ (ConsumerNext \/ PollerNext \/ Crash)
    BY <1>t, <1>2
    DEF ConsumerNext, ReadSaga, PatchTransaction, PublishNext,
        UpdateSagaStatus, UpdateSagaStep, AckOutcome, PatchRefused,
        LookupFails, CallFails, PollerNext, Expire, ListTimedOut,
        PatchTimedOut, MarkTimedOut, PollerCallFails, Crash, Working
  <2>2. PICK u \in Txn : StartSystem(u)
    BY <1>3, <2>1 DEF OrchestratorStep
  <2>3. Precheck(u, Eligible(u)) /\ u = r
    BY <1>t, <1>2, <2>2
    DEF StartSystem, Precheck, RegisterTransaction, CreateSaga, Dispatch,
        Finalize, StartFails, Working
  <2>4. /\ start[r] = "new"
        /\ start' = [start EXCEPT ![r] = "register"]
        /\ Eligible(r)
        /\ queues' = queues
    BY <1>t, <1>2, <2>3 DEF Precheck
  <2>5. access[OriginalOf[r]] = "active"
    BY <2>4 DEF Eligible, Catalog!RefundAllowed, Catalog!ActiveFor
  <2> QED BY <2>4, <2>5
<1>4. CASE ServiceStep \/ UNCHANGED systemVars
  <2>1. start' = start
    BY <1>4, ServicesAreParticipants
    DEF ParticipantNext, Answer, AnswerUnacked, GiveUp, vars, systemVars
  <2> QED BY <1>2, <2>1
<1> QED BY <1>3, <1>4 DEF SystemNext

(* A refund becomes effective by its revocation.                          *)
LEMMA EffectBegins ==
  ASSUME OrchestratorAssumption, TypeOK, MessagesFit, MessagesProve,
         [SystemNext]_systemVars, NEW r \in Txn, TypeOf[r] = "refund",
         Effective(r)', ~ Effective(r)
  PROVE  InFlight(r)
<1> USE DEF PatchLedger, PublishCommand, SetStatus, SetStep, Call
<1>1. ASSUME Moved(r, "refund_credit")', ~ Moved(r, "refund_credit")
      PROVE  FALSE
  <2>1. PICK p, key : /\ Serves(p, key)
                      /\ Head(queues[p]).txn = r
                      /\ Head(queues[p]).step = "refund_credit"
                      /\ Head(queues[p]).key \in
                           { "wallet.debit.requested", "wallet.credit.requested" }
    BY <1>1, MovedNow
  <2>2. /\ Head(queues[p]) \in Held(queues, p)
        /\ p \in Queues
        /\ MessageFits(Head(queues[p]))
    BY <2>1, ServedHead
  <2>3. Head(queues[p]).key = "wallet.credit.requested"
    BY <2>1, <2>2 DEF MessageFits
  <2> QED BY <2>1, <2>2, <2>3 DEF Effective, Queued, Held
<1>2. ASSUME NEW q \in Queues, NEW m \in Held(queues', q), m.txn = r,
             m.key \in { "access.revoked", "wallet.credit.requested" }
      PROVE  InFlight(r)
  <2>1. m \notin Held(queues, q)
    BY <1>2 DEF Effective, Queued, Held
  <2>2. ~ Commanded(m)
    <3>1. ASSUME NEW t \in Txn, m = FirstCommand(TypeOf[t], t)
          PROVE  FALSE
      BY <1>2, <3>1
      DEF FirstCommand, Message, OrchestratorAssumption, SagaTypes
    <3>2. ASSUME About("publish"),
                 m = Message(NextCall.status, Current.txn, NextCall.step)
          PROVE  FALSE
      <4>1. /\ CallOf("refund", Current.key, delivery.seen, delivery.at, NextCall)
            /\ NextCall.op = "publish"
            /\ Current.txn = r
            /\ queues[OutcomesQueue] # << >>
        BY <1>2, <3>2, CurrentCall DEF About, NextCall, Message, Handling
      <4>2. Current.key = "access.revoked"
        BY <4>1 DEF CallOf
      <4>3. OutcomesQueue \in Queues
        BY DEF Queues
      <4>4. Current \in Held(queues, OutcomesQueue)
        BY <4>1, <4>3, HeadIsHeld DEF Current
      <4> QED BY <4>1, <4>2, <4>3, <4>4 DEF Effective, Queued, Held
    <3> QED BY <3>1, <3>2 DEF Commanded
  <2>3. ASSUME NEW p, NEW key, Serves(p, key),
               m = Message(key, Head(queues[p]).txn, NoStep)
        PROVE  InFlight(r)
    <3>1. PICK msg : msg = Head(queues[p])
      OBVIOUS
    <3>2. msg \in Held(queues, p) /\ p \in Queues
      BY <2>3, <3>1, ServedHead
    <3>3. key = "access.revoked" /\ msg.txn = r
      BY <1>2, <2>3, <3>1 DEF Message, Serves, OutcomeKeys
    <3>4. Effect(msg, key)
      BY <2>3, <3>1 DEF Serves
    <3>5. msg.key = "access.revoke.requested"
      BY <3>3, <3>4 DEF Effect, Charge, Wallet!Handle, Catalog!CatalogHandle
    <3> QED BY <3>2, <3>3, <3>5 DEF InFlight, Queued, Held
  <2> QED BY <2>1, <2>2, <2>3, SystemQueueStep
<1> QED BY <1>1, <1>2 DEF Effective, Queued, Held

(* Refunds that take turns leave one of them.                             *)
LEMMA OneRefundStep ==
  ASSUME RefundsTakeTurns, OrchestratorAssumption, SInv, OneRefund,
         [SystemNext]_systemVars
  PROVE  OneRefund'
<1>0. TypeOK /\ MessagesFit /\ MessagesProve /\ MovementsProve
  BY DEF SInv, FInv, IInv
<1>1. ASSUME NEW r \in Txn, NEW s \in Txn, TypeOf[r] = "refund",
             TypeOf[s] = "refund", r # s, OriginalOf[r] = OriginalOf[s],
             InFlight(r)', ~ InFlight(r)
      PROVE  ~ (InFlight(s)' \/ Effective(s)')
  <2>1. /\ access[OriginalOf[r]] = "active"
        /\ start[r] = "new"
        /\ start' = [start EXCEPT ![r] = "register"]
        /\ queues' = queues
    BY <1>0, <1>1, FlightBegins
  <2>2. start \in [Txn -> StartStages]
    BY <1>0 DEF TypeOK
  <2>3. ~ InFlight(s)
    BY <1>1, <2>1, <2>2 DEF RefundsTakeTurns
  <2>4. ~ Effective(s)
    BY <1>0, <1>1, <2>1, EffectiveEndsAccess
  <2>5. ~ InFlight(s)'
    BY <1>1, <2>1, <2>2, <2>3 DEF InFlight, Queued
  <2> QED BY <1>0, <1>1, <2>3, <2>4, <2>5, EffectBegins
<1> SUFFICES ASSUME NEW r \in Txn, NEW s \in Txn, TypeOf[r] = "refund",
                    TypeOf[s] = "refund", r # s, OriginalOf[r] = OriginalOf[s],
                    InFlight(r)' \/ Effective(r)',
                    InFlight(s)' \/ Effective(s)'
             PROVE  FALSE
  BY DEF OneRefund
<1>2. /\ InFlight(r)' => InFlight(r)
      /\ InFlight(s)' => InFlight(s)
  BY <1>1
<1>3. /\ Effective(r)' => Effective(r) \/ InFlight(r)
      /\ Effective(s)' => Effective(s) \/ InFlight(s)
  BY <1>0, EffectBegins
<1> QED BY <1>2, <1>3 DEF OneRefund

(* Where refunds take turns a purchase is refunded at most once, for all   *)
(* faults and repetitions.  MCSystem_double_refund shows what happens when *)
(* they do not.                                                           *)
THEOREM RefundsInTurnAreSafe ==
  SystemSpec /\ [][RefundsTakeTurns]_systemVars => []RefundedOnce
<1>1. SystemInit => OneRefund
  <2> SUFFICES ASSUME SystemInit
               PROVE  OneRefund
    OBVIOUS
  <2>1. /\ Init
        /\ movements = {}
    BY DEF SystemInit, Wallet!Init
  <2>2. ASSUME NEW r \in Txn
        PROVE  ~ InFlight(r)
    BY <2>1 DEF Init, NoQueuedMessages, Queued, InFlight
  <2> QED BY <2>1, <2>2
          DEF OneRefund, Effective, Moved, Wallet!Exists, Wallet!Movements,
              Init, NoQueuedMessages, Queued
<1>2. SInv /\ OneRefund /\ [SystemNext]_systemVars
        /\ [RefundsTakeTurns]_systemVars => OneRefund'
  <2> SUFFICES ASSUME SInv, OneRefund, [SystemNext]_systemVars,
                      [RefundsTakeTurns]_systemVars
               PROVE  OneRefund'
    OBVIOUS
  <2>1. RefundsTakeTurns
    BY DEF RefundsTakeTurns, systemVars, vars
  <2> QED BY <2>1, OrchestratorAssumption, OneRefundStep
<1>3. OneRefund => RefundedOnce
  BY DEF OneRefund, RefundedOnce, Effective
<1> QED BY <1>1, <1>2, <1>3, SInvHolds, PTL DEF SystemSpec

------------------------------------------------------------------------------
(***************************************************************************)
(* A rejected debit is stored nowhere, so a second command may be answered *)
(* otherwise.  There is no second command unless a start is repeated: the  *)
(* same command, delivered again, is still the head of the wallets' queue  *)
(* and meets the same balance.                                             *)
(***************************************************************************)

(* The start handler of a purchase is not cut off, and so not repeated,    *)
(* between the publish of the debit and its answer.  Before that, and in   *)
(* every other thread, calls may fail and processes die.                  *)
StartsOnce ==
  \A t \in Txn :
    TypeOf[t] = "purchase" /\ start[t] \in { "dispatch", "answer" } =>
      start'[t] # "new"

NotDispatched == { "new", "register", "create", "dispatch", "denied" }

(* The places of a purchase's debit commands.                             *)
Debits(t) ==
  { i \in DOMAIN queues["wallets.commands"] :
      /\ queues["wallets.commands"][i].key = "wallet.debit.requested"
      /\ queues["wallets.commands"][i].txn = t }

Refused(t) ==
  \/ ledger[t].status = "failed"
  \/ \E m \in Queued(OutcomesQueue) :
       m.txn = t /\ m.key = "wallet.debit.rejected"

CannotPay(t) == Wallet!HasWallet(t) => balance[UserOf[t]] < AmountOf[t]

Paid(t) == Moved(t, "purchase_debit")

DebitOnce(t) ==
  /\ \A i, j \in Debits(t) : i = j
  /\ start[t] \in NotDispatched => Debits(t) = {} /\ ~ Paid(t) /\ ~ Refused(t)
  /\ \A i \in Debits(t) : i # 1 => ~ Paid(t) /\ ~ Refused(t)
  /\ Refused(t) => ~ Paid(t)
  /\ Refused(t) /\ Debits(t) # {} => CannotPay(t)

DebitsOnce == \A t \in Txn : TypeOf[t] = "purchase" => DebitOnce(t)

(* No balance is negative, and money moves where there is a wallet.       *)
WalletsFit ==
  /\ balance \in [DOMAIN Opening -> Nat]
  /\ \A m \in movements : UserOf[m.txn] \in DOMAIN Opening

(* Wallets stay, and a debit is made only where there is enough.          *)
LEMMA WalletsStay ==
  ASSUME SystemAssumption, TypeOK, MessagesFit, MessagesProve, WalletsFit,
         [SystemNext]_systemVars
  PROVE  WalletsFit'
<1>1. CASE UNCHANGED << balance, movements >>
  BY <1>1 DEF WalletsFit
<1>2. CASE ~ UNCHANGED << balance, movements >>
  <2>1. PICK p, key : Serves(p, key)
    BY <1>2, ServicesStep DEF serviceVars
  <2>2. PICK msg : msg = Head(queues[p])
    OBVIOUS
  <2>3. /\ Wallet!Handle(msg, key)
        /\ msg.txn \in Txn
    BY <1>2, <2>1, <2>2, ServedHead DEF Serves, Effect, serviceVars
  <2>4. /\ UserOf[msg.txn] \in DOMAIN Opening
        /\ \E type : \E after \in Nat :
             Wallet!Move(msg.txn, msg.step, type, after)
    <3>1. /\ balance \in [DOMAIN Opening -> Nat]
          /\ AmountOf[msg.txn] \in Nat
      BY <2>3 DEF WalletsFit, SystemAssumption
    <3>2. CASE Wallet!Debited(msg.txn, msg.step)
      BY <1>2, <3>1, <3>2 DEF Wallet!Debited, Wallet!vars, Wallet!HasWallet
    <3>3. CASE Wallet!Credited(msg.txn, msg.step)
      BY <1>2, <3>1, <3>3 DEF Wallet!Credited, Wallet!vars, Wallet!HasWallet
    <3> QED BY <1>2, <2>3, <3>2, <3>3
            DEF Wallet!Handle, Wallet!DebitRejected, Wallet!vars
  <2>4a. PICK type : \E after \in Nat :
          Wallet!Move(msg.txn, msg.step, type, after)
    BY <2>4
  <2>5. PICK after \in Nat : Wallet!Move(msg.txn, msg.step, type, after)
    BY <2>4a
  <2> DEFINE row == [txn |-> msg.txn, step |-> msg.step, type |-> type,
                     before |-> balance[UserOf[msg.txn]], after |-> after]
  <2>6. movements' = movements \cup { row } /\ row.txn = msg.txn
    BY <2>5 DEF Wallet!Move
  <2>7. balance' = [balance EXCEPT ![UserOf[msg.txn]] = after]
    BY <2>5 DEF Wallet!Move
  <2> HIDE DEF row
  <2> QED BY <2>4, <2>6, <2>7 DEF WalletsFit
<1> QED BY <1>1, <1>2

(* A start goes on, and is not dispatched again.                          *)
LEMMA StartGoesOn ==
  ASSUME StartsOnce, OrchestratorAssumption, TypeOK, [Next]_vars, NEW t \in Txn,
         TypeOf[t] = "purchase", start'[t] \in NotDispatched
  PROVE  start[t] \in NotDispatched
<1>1. start \in [Txn -> StartStages]
  BY DEF TypeOK
<1>2. CASE StartNext
  <2>1. PICK u \in Txn :
          \/ \E allowed \in BOOLEAN : Precheck(u, allowed)
          \/ RegisterTransaction(u)
          \/ CreateSaga(u)
          \/ Dispatch(u)
          \/ Finalize(u)
          \/ \E applied \in BOOLEAN : StartFails(u, applied)
    BY <1>2 DEF StartNext
  <2>2. CASE \E applied \in BOOLEAN : StartFails(u, applied)
    BY <1>1, <2>2 DEF StartFails, StartsOnce, Working, NotDispatched
  <2> QED BY <1>1, <2>1, <2>2
          DEF Precheck, RegisterTransaction, CreateSaga, Dispatch, Finalize,
              NotDispatched
<1>3. CASE Crash
  BY <1>1, <1>3 DEF Crash, StartsOnce, Working, NotDispatched
<1>4. CASE ~ StartNext /\ ~ Crash
  <2>1. start' = start
    BY <1>4
    DEF Next, ConsumerNext, ReadSaga, PatchTransaction, PublishNext,
        UpdateSagaStatus, UpdateSagaStep, AckOutcome, PatchRefused, LookupFails,
        CallFails, PollerNext, Expire, ListTimedOut, PatchTimedOut,
        MarkTimedOut, PollerCallFails, ParticipantNext, Answer,
        AnswerUnacked, GiveUp, vars
  <2> QED BY <2>1
<1> QED BY <1>2, <1>3, <1>4

(* An attempt of the consumer leaves the wallets' queue as it had made it. *)
LEMMA RetryKeepsWallets ==
  ASSUME NEW qs, RetryOrReject(qs)
  PROVE  queues'["wallets.commands"] = qs["wallets.commands"]
<1>1. /\ "wallets.commands" \in Queues
      /\ "wallets.commands" # OutcomesQueue
      /\ "wallets.commands" # DeadLetterQueue
  BY DEF Queues, CommandQueues, OutcomesQueue, DeadLetterQueue
<1> QED BY <1>1 DEF RetryOrReject, Reject

(* How the wallets' queue changes.                                        *)
LEMMA WalletsQueueStep ==
  ASSUME StartsOnce, OrchestratorAssumption, TypeOK, [Next]_vars
  PROVE  LET old == queues["wallets.commands"]
             new == queues'["wallets.commands"]
         IN \/ new = old
            \/ old # << >> /\ new = Tail(old)
            \/ \E m \in Messages :
                 /\ new = Append(old, m)
                 /\ m.key = "wallet.debit.requested" =>
                      /\ start[m.txn] = "dispatch"
                      /\ start'[m.txn] = "answer"
<1> DEFINE old == queues["wallets.commands"]
           new == queues'["wallets.commands"]
           Goal == \/ new = old
                   \/ old # << >> /\ new = Tail(old)
                   \/ \E m \in Messages :
                        /\ new = Append(old, m)
                        /\ m.key = "wallet.debit.requested" =>
                             /\ start[m.txn] = "dispatch"
                             /\ start'[m.txn] = "answer"
<1>t. /\ queues \in QueueStates
      /\ start \in [Txn -> StartStages]
      /\ "wallets.commands" \in Queues
      /\ "wallets.commands" # OutcomesQueue
      /\ "wallets.commands" # DeadLetterQueue
  BY DEF TypeOK, QueueStates, Queues, CommandQueues, OutcomesQueue,
         DeadLetterQueue
<1>p. ASSUME NEW msg, queues' = Publish(queues, msg)
      PROVE  new = old \/ new = Append(old, msg)
  BY <1>t, <1>p DEF Publish
<1>1. CASE StartNext
  <2>1. CASE queues' = queues
    BY <2>1
  <2>2. CASE queues' # queues
    <3>1. PICK t \in Txn :
            \/ Dispatch(t)
            \/ /\ start[t] = "dispatch"
               /\ \E applied \in BOOLEAN : StartFails(t, applied)
      BY <1>1, <2>2
      DEF StartNext, Precheck, RegisterTransaction, CreateSaga, Finalize,
          StartFails
    <3> DEFINE m == FirstCommand(TypeOf[t], t)
    <3>2. /\ m \in Messages /\ m.txn = t
          /\ m.key = "wallet.debit.requested" => TypeOf[t] = "purchase"
      BY FirstCommandIsTyped DEF FirstCommand, Message, OrchestratorAssumption,
                                 SagaTypes
    <3>3. /\ start[t] = "dispatch"
          /\ start'[t] \in { "answer", "new" }
          /\ queues' = Publish(queues, m)
      BY <1>t, <2>2, <3>1 DEF Dispatch, StartFails
    <3>4. m.key = "wallet.debit.requested" => start'[t] = "answer"
      BY <3>2, <3>3 DEF StartsOnce
    <3> HIDE DEF m
    <3> QED BY <1>p, <3>2, <3>3, <3>4
  <2> QED BY <2>1, <2>2
<1>2. CASE PollerNext \/ Crash \/ UNCHANGED vars
  BY <1>2 DEF PollerNext, Expire, ListTimedOut, PatchTimedOut,
                    MarkTimedOut, PollerCallFails, Crash, vars
<1>3. CASE ConsumerNext
  <2>1. CASE ReadSaga \/ PatchTransaction \/ UpdateSagaStatus \/ UpdateSagaStep
    BY <2>1 DEF ReadSaga, PatchTransaction, UpdateSagaStatus, UpdateSagaStep
  <2> DEFINE m == Message(NextCall.status, Current.txn, NextCall.step)
             sent == Publish(queues, m)
  <2>2. ASSUME About("publish"), new = old \/ new = sent["wallets.commands"]
        PROVE  Goal
    <3>1. m \in Messages
      BY <2>2, SentIsTyped DEF Sent, Commanded
    <3>2. m.key # "wallet.debit.requested"
      <4>1. /\ CallOf(TypeOf[Current.txn], Current.key, delivery.seen,
                      delivery.at, NextCall)
            /\ NextCall.op = "publish"
        BY <2>2, CurrentCall DEF About, NextCall
      <4>2. NextCall.status # "wallet.debit.requested"
        BY <4>1
        DEF CallOf, PatchLedger, PublishCommand, SetStatus, SetStep, Call
      <4> QED BY <4>2 DEF Message
    <3> HIDE DEF m
    <3>3. new = old \/ new = Append(old, m)
      BY <1>t, <2>2 DEF Publish
    <3> QED BY <3>1, <3>2, <3>3
  <2>3. CASE PublishNext
    BY <2>2, <2>3 DEF PublishNext
  <2>4. CASE AckOutcome
    BY <1>t, <2>4 DEF AckOutcome, Ack, QueueStates
  <2>5. CASE PatchRefused \/ LookupFails
    BY <2>5, RetryKeepsWallets DEF PatchRefused, LookupFails
  <2>6. ASSUME NEW applied \in BOOLEAN, CallFails(applied)
        PROVE  Goal
    <3>1. RetryOrReject(IF applied /\ NextCall.op = "publish" THEN sent
                                                             ELSE queues)
      BY <2>6 DEF CallFails
    <3>2. CASE applied /\ NextCall.op = "publish"
      <4>1. About("publish")
        BY <2>6, <3>2 DEF CallFails, About, NextCall
      <4> HIDE DEF sent
      <4>2. new = sent["wallets.commands"]
        BY <3>1, <3>2, RetryKeepsWallets
      <4> QED BY <2>2, <4>1, <4>2
    <3>3. CASE ~ (applied /\ NextCall.op = "publish")
      BY <3>1, <3>3, RetryKeepsWallets
    <3> QED BY <3>2, <3>3
  <2> QED BY <1>3, <2>1, <2>3, <2>4, <2>5, <2>6 DEF ConsumerNext
<1>4. CASE ParticipantNext
  <2>1. PICK p \in CommandQueues :
          \/ \E key \in OutcomeKeys : Answer(p, key) \/ AnswerUnacked(p, key)
          \/ GiveUp(p)
    BY <1>4 DEF ParticipantNext
  <2>2. ASSUME NEW key \in OutcomeKeys, Answer(p, key) \/ AnswerUnacked(p, key)
        PROVE  Goal
    <3> DEFINE sent == Publish(queues, Message(key, Head(queues[p]).txn, NoStep))
    <3>1. sent["wallets.commands"] = old
      BY <1>t DEF Publish, Message, RoutingKeys, OutcomeKeys
    <3>2. queues[p] # << >> /\ (queues' = sent \/ queues' = Ack(sent, p))
      BY <2>2 DEF Answer, AnswerUnacked
    <3>3. Ack(sent, p)["wallets.commands"] =
            IF p = "wallets.commands" THEN Tail(old) ELSE old
      BY <1>t, <3>1 DEF Ack, Publish
    <3> HIDE DEF sent
    <3> QED BY <3>1, <3>2, <3>3
  <2>3. CASE GiveUp(p)
    BY <1>t, <2>3 DEF GiveUp, Reject
  <2> QED BY <2>1, <2>2, <2>3
<1> QED BY <1>1, <1>2, <1>3, <1>4 DEF Next

(* A debit that is served is the head of the wallets' queue.              *)
LEMMA ServedDebit ==
  ASSUME TypeOK, MessagesFit, MessagesProve, NEW p, NEW key, Serves(p, key),
         Head(queues[p]).key \in
           { "wallet.debit.requested", "wallet.credit.requested" }
  PROVE  /\ p = "wallets.commands"
         /\ Head(queues[p]).key = "wallet.debit.requested" =>
              1 \in Debits(Head(queues[p]).txn)
<1>1. /\ p \in CommandQueues
      /\ Head(queues[p]) \in Held(queues, p)
      /\ p \in Queues
  BY ServedHead DEF Serves
<1>2. Head(queues[p]).key \in RoutingKeys(p)
  BY <1>1 DEF MessagesFit, Queued, Held
<1>3. p = "wallets.commands"
  BY <1>1, <1>2 DEF RoutingKeys, CommandQueues
<1>4. queues["wallets.commands"] \in Seq(Messages)
  BY <1>1, <1>3 DEF TypeOK
<1>5. queues["wallets.commands"] # << >>
  BY <1>3 DEF Serves
<1> QED BY <1>3, <1>4, <1>5 DEF Debits

(* And the head, if it is a debit, is what the wallets serve.             *)
LEMMA HeadIsServed ==
  ASSUME TypeOK, MessagesFit, MessagesProve, WalletsFit, [SystemNext]_systemVars,
         NEW t \in Txn, 1 \in Debits(t), ~ UNCHANGED << balance, movements >>
  PROVE  Wallet!Debited(t, "purchase_debit")
<1>1. PICK p, key : Serves(p, key)
  BY ServicesStep DEF serviceVars
<1>2. PICK msg : msg = Head(queues[p])
  OBVIOUS
<1>3. Wallet!Handle(msg, key)
  BY <1>1, <1>2 DEF Serves, Effect, serviceVars
<1>4. msg.key \in { "wallet.debit.requested", "wallet.credit.requested" }
  BY <1>3 DEF Wallet!Handle
<1>5. p = "wallets.commands"
  BY <1>1, <1>2, <1>4, ServedDebit
<1>6. /\ queues["wallets.commands"] \in Seq(Messages)
      /\ queues["wallets.commands"] # << >>
  BY <1>1, <1>5 DEF TypeOK, Serves, Queues, CommandQueues
<1>7. msg.key = "wallet.debit.requested" /\ msg.txn = t
  BY <1>2, <1>5, <1>6 DEF Debits
<1>8. MessageFits(msg)
  BY <1>1, <1>2, ServedHead
<1> QED BY <1>3, <1>7, <1>8
        DEF MessageFits, Wallet!Handle, Wallet!DebitRejected, Wallet!vars

(* A purchase is paid by its debit, and only where there is enough.       *)
LEMMA PaidNow ==
  ASSUME SystemAssumption, TypeOK, MessagesFit, MessagesProve, WalletsFit,
         [SystemNext]_systemVars, NEW t \in Txn, TypeOf[t] = "purchase",
         ~ Paid(t), Paid(t)'
  PROVE  1 \in Debits(t) /\ ~ CannotPay(t)
<1>1. PICK p, key : /\ Serves(p, key)
                    /\ Head(queues[p]).txn = t
                    /\ Head(queues[p]).step = "purchase_debit"
                    /\ Head(queues[p]).key \in
                         { "wallet.debit.requested", "wallet.credit.requested" }
  BY MovedNow DEF Paid
<1>2. Head(queues[p]).key = "wallet.debit.requested"
  BY <1>1, ServedHead DEF MessageFits, CreditStep
<1>3. 1 \in Debits(t)
  BY <1>1, <1>2, ServedDebit
<1>4. movements' # movements
  BY DEF Paid, Moved, Wallet!Exists, Wallet!Movements
<1>5. Wallet!Debited(t, "purchase_debit")
  BY <1>3, <1>4, HeadIsServed
<1>6. UserOf[t] \in DOMAIN balance /\ balance[UserOf[t]] >= AmountOf[t]
  BY <1>4, <1>5 DEF Wallet!Debited, Wallet!vars, Wallet!HasWallet
<1>7. balance[UserOf[t]] \in Nat /\ AmountOf[t] \in Nat
  BY <1>6 DEF WalletsFit, SystemAssumption
<1> QED BY <1>3, <1>6, <1>7 DEF CannotPay, Wallet!HasWallet

(* A debit is refused only where there is not enough, and moves nothing.   *)
LEMMA RefusedNow ==
  ASSUME OrchestratorAssumption, SystemAssumption, FInv, MessagesProve,
         WalletsFit, [SystemNext]_systemVars, NEW t \in Txn,
         TypeOf[t] = "purchase", ~ Refused(t), Refused(t)'
  PROVE  /\ 1 \in Debits(t)
         /\ ~ Paid(t)
         /\ CannotPay(t)
         /\ UNCHANGED << balance, movements >>
<1>0. /\ TypeOK /\ MessagesFit
      /\ IInv
      /\ [Next]_vars
  BY SystemStep DEF FInv, IInv
<1>1. ~ (ledger'[t].status = "failed" /\ ledger[t].status # "failed")
  <2> SUFFICES ASSUME ledger'[t].status = "failed", ledger[t].status # "failed"
               PROVE  FALSE
    OBVIOUS
  <2>1. CASE LedgerRegistered(t)
    BY <1>0, <2>1 DEF LedgerRegistered, TypeOK, LedgerRows
  <2>2. CASE LedgerTimedOut(t)
    BY <2>2 DEF LedgerTimedOut, WithStatus
  <2>3. CASE LedgerPatched(t)
    <3>1. /\ ledger'[t].status = NextCall.status
          /\ NextCall.op = "patch"
          /\ Handling
          /\ Current.txn = t
          /\ CallOf(TypeOf[t], Current.key, delivery.seen, delivery.at, NextCall)
      BY <1>0, <2>3, CurrentCall DEF LedgerPatched, WithStatus, About, NextCall
    <3>2. Current.key = "wallet.debit.rejected"
      BY <3>1
      DEF CallOf, PatchLedger, PublishCommand, SetStatus, SetStep, Call
    <3>3. Current \in Queued(OutcomesQueue)
      <4>1. OutcomesQueue \in Queues /\ queues[OutcomesQueue] # << >>
        BY <3>1 DEF Queues, Handling
      <4> QED BY <1>0, <4>1, HeadIsHeld DEF Queued, Held, Current
    <3> QED BY <3>1, <3>2, <3>3 DEF Refused
  <2> QED BY <1>0, <2>1, <2>2, <2>3, LedgerRowStep
<1>2. PICK m \in Held(queues', OutcomesQueue) :
        /\ m \notin Held(queues, OutcomesQueue)
        /\ m.txn = t
        /\ m.key = "wallet.debit.rejected"
  BY <1>1 DEF Refused, Queued, Held
<1>3. PICK p, key : /\ Serves(p, key)
                    /\ m.key = key
                    /\ m.txn = Head(queues[p]).txn
  BY <1>0, <1>2, OutcomesHeld
<1>4. PICK msg : msg = Head(queues[p])
  OBVIOUS
<1>5. /\ msg.key = "wallet.debit.requested"
      /\ Wallet!DebitRejected(t, "purchase_debit")
  <2>1. /\ msg.key = "wallet.debit.requested"
        /\ Wallet!DebitRejected(msg.txn, msg.step)
    BY <1>2, <1>3, <1>4
    DEF Serves, Effect, Charge, Wallet!Handle, Catalog!CatalogHandle
  <2>2. MessageFits(msg)
    BY <1>0, <1>3, <1>4, ServedHead
  <2> QED BY <1>2, <1>3, <1>4, <2>1, <2>2 DEF MessageFits
<1>6. 1 \in Debits(t)
  BY <1>0, <1>2, <1>3, <1>4, <1>5, ServedDebit
<1>7. CannotPay(t) /\ UNCHANGED << balance, movements >>
  BY <1>5 DEF Wallet!DebitRejected, CannotPay, Wallet!vars
<1>8. ~ Paid(t)
  <2> SUFFICES ASSUME Paid(t)
               PROVE  FALSE
    OBVIOUS
  <2>1. Wallet!Exists(t, "purchase_debit")
    BY DEF Paid, Moved
  <2>2. Wallet!HasWallet(t)
    BY <2>1 DEF WalletsFit, Wallet!HasWallet, Wallet!Exists, Wallet!Movements
  <2> QED BY <1>5, <2>1, <2>2 DEF Wallet!DebitRejected
<1> QED BY <1>6, <1>7, <1>8

(* How the debits of a purchase change.                                   *)
LEMMA DebitsStep ==
  ASSUME StartsOnce, OrchestratorAssumption, TypeOK, [Next]_vars, NEW t \in Txn
  PROVE  \/ Debits(t)' = Debits(t)
         \/ \A i \in Debits(t)' : i + 1 \in Debits(t)
         \/ /\ start[t] = "dispatch"
            /\ start'[t] = "answer"
            /\ \E n : Debits(t)' = Debits(t) \cup { n }
<1> DEFINE old == queues["wallets.commands"]
           new == queues'["wallets.commands"]
<1>t. old \in Seq(Messages)
  BY DEF TypeOK, Queues, CommandQueues
<1>1. CASE new = old
  BY <1>1 DEF Debits
<1>2. CASE old # << >> /\ new = Tail(old)
  <2>1. \A i \in DOMAIN new : i + 1 \in DOMAIN old /\ new[i] = old[i + 1]
    BY <1>t, <1>2, TailHeld
  <2> QED BY <2>1 DEF Debits
<1>3. ASSUME NEW m \in Messages, new = Append(old, m),
             m.key = "wallet.debit.requested" =>
               start[m.txn] = "dispatch" /\ start'[m.txn] = "answer"
      PROVE  \/ Debits(t)' = Debits(t)
             \/ /\ start[t] = "dispatch"
                /\ start'[t] = "answer"
                /\ \E n : Debits(t)' = Debits(t) \cup { n }
  <2>1. /\ DOMAIN new = DOMAIN old \cup { Len(old) + 1 }
        /\ \A i \in DOMAIN old : new[i] = old[i]
        /\ new[Len(old) + 1] = m
    BY <1>t, <1>3
  <2>2. CASE m.key = "wallet.debit.requested" /\ m.txn = t
    <3>1. Debits(t)' = Debits(t) \cup { Len(old) + 1 }
      BY <2>1, <2>2 DEF Debits
    <3> QED BY <1>3, <2>2, <3>1
  <2>3. CASE ~ (m.key = "wallet.debit.requested" /\ m.txn = t)
    BY <2>1, <2>3 DEF Debits
  <2> QED BY <2>2, <2>3
<1> QED BY <1>1, <1>2, <1>3, WalletsQueueStep

(* One debit, and one answer to it.                                       *)
LEMMA DebitOnceStep ==
  ASSUME StartsOnce, OrchestratorAssumption, SystemAssumption, FInv,
         MessagesProve, WalletsFit, [SystemNext]_systemVars,
         NEW t \in Txn, TypeOf[t] = "purchase", DebitOnce(t)
  PROVE  DebitOnce(t)'
<1>0. /\ TypeOK /\ MessagesFit
      /\ [Next]_vars
  BY SystemStep DEF FInv, IInv
<1>2. Paid(t)' => Paid(t) \/ (1 \in Debits(t) /\ ~ CannotPay(t))
  BY <1>0, PaidNow
<1>3. Refused(t)' => \/ Refused(t)
                     \/ /\ 1 \in Debits(t)
                        /\ ~ Paid(t)
                        /\ CannotPay(t)
                        /\ UNCHANGED << balance, movements >>
  BY RefusedNow
<1>4. start'[t] \in NotDispatched => start[t] \in NotDispatched
  BY <1>0, StartGoesOn
<1> DEFINE Same == Debits(t)' = Debits(t)
           Shifted == \A i \in Debits(t)' : i + 1 \in Debits(t)
           Sent1 == /\ start[t] = "dispatch"
                    /\ start'[t] = "answer"
                    /\ \E n : Debits(t)' = Debits(t) \cup { n }
<1>5. Same \/ Shifted \/ Sent1
  BY <1>0, DebitsStep
<1>6. Debits(t)' \subseteq Nat \ { 0 }
  <2>1. TypeOK'
    BY <1>0, OrchestratorAssumption, TypeStep
  <2> QED BY <2>1 DEF TypeOK, Queues, CommandQueues, Debits
<1>m. \A i \in Debits(t)' : i + 1 # 1
  BY <1>6
<1>7. Sent1 => Debits(t) = {} /\ ~ Paid(t) /\ ~ Refused(t)
  BY DEF DebitOnce, NotDispatched
<1>8. \A i, j \in Debits(t)' : i = j
  <2>1. CASE Shifted
    BY <1>6, <2>1 DEF DebitOnce
  <2> QED BY <1>5, <1>7, <2>1 DEF DebitOnce
<1>9. start'[t] \in NotDispatched =>
        Debits(t)' = {} /\ ~ Paid(t)' /\ ~ Refused(t)'
  BY <1>2, <1>3, <1>4, <1>5 DEF DebitOnce, NotDispatched
<1>10. \A i \in Debits(t)' : i # 1 => ~ Paid(t)' /\ ~ Refused(t)'
  <2>1. CASE Same
    BY <1>2, <1>3, <2>1 DEF DebitOnce
  <2>2. CASE Shifted
    <3> SUFFICES ASSUME NEW i \in Debits(t)', i # 1
                 PROVE  ~ Paid(t)' /\ ~ Refused(t)'
      OBVIOUS
    <3>1. i + 1 \in Debits(t) /\ i + 1 # 1
      BY <1>m, <2>2
    <3> QED BY <1>2, <1>3, <3>1 DEF DebitOnce
  <2>3. CASE Sent1
    BY <1>2, <1>3, <1>7, <2>3
  <2> QED BY <1>5, <2>1, <2>2, <2>3
<1>11. Refused(t)' => ~ Paid(t)'
  <2>1. UNCHANGED << balance, movements >> => (Paid(t)' <=> Paid(t))
    BY DEF Paid, Moved, Wallet!Exists, Wallet!Movements
  <2> QED BY <1>2, <1>3, <2>1 DEF DebitOnce
<1>12. Refused(t)' /\ Debits(t)' # {} => CannotPay(t)'
  <2>1. UNCHANGED << balance, movements >> => (CannotPay(t)' <=> CannotPay(t))
    BY DEF CannotPay, Wallet!HasWallet
  <2>2. Refused(t) /\ Debits(t)' # {} =>
          1 \in Debits(t) /\ CannotPay(t)
    <3>1. CASE Same
      BY <3>1 DEF DebitOnce
    <3>2. CASE Shifted
      <4> SUFFICES ASSUME NEW i \in Debits(t)', Refused(t)
                   PROVE  FALSE
        OBVIOUS
      <4>1. i + 1 \in Debits(t) /\ i + 1 # 1
        BY <1>m, <3>2
      <4> QED BY <4>1 DEF DebitOnce
    <3>3. CASE Sent1
      BY <1>7, <3>3
    <3> QED BY <1>5, <3>1, <3>2, <3>3
  <2>3. 1 \in Debits(t) /\ CannotPay(t) /\ Refused(t) =>
          UNCHANGED << balance, movements >>
    <3> SUFFICES ASSUME 1 \in Debits(t), CannotPay(t), Refused(t),
                        ~ UNCHANGED << balance, movements >>
                 PROVE  FALSE
      OBVIOUS
    <3>1. Wallet!Debited(t, "purchase_debit")
      BY <1>0, HeadIsServed
    <3>2. UserOf[t] \in DOMAIN balance /\ balance[UserOf[t]] >= AmountOf[t]
      BY <3>1 DEF Wallet!Debited, Wallet!vars, Wallet!HasWallet
    <3>3. balance[UserOf[t]] \in Nat /\ AmountOf[t] \in Nat
      BY <3>2 DEF WalletsFit, SystemAssumption
    <3> QED BY <3>2, <3>3 DEF CannotPay, Wallet!HasWallet
  <2> QED BY <1>3, <2>1, <2>2, <2>3
<1> QED BY <1>8, <1>9, <1>10, <1>11, <1>12 DEF DebitOnce

(* The invariant of the debits, on top of that of the system.             *)
BInv == SInv /\ WalletsFit /\ DebitsOnce

(* Where no start is repeated, every purchase has one debit and one answer *)
(* to it.                                                                  *)
THEOREM BInvHolds == SystemSpec /\ [][StartsOnce]_systemVars => []BInv
<1>2. SystemInit => BInv
  <2> SUFFICES ASSUME SystemInit
               PROVE  BInv
    OBVIOUS
  <2>1. /\ Init
        /\ balance = Opening
        /\ movements = {}
    BY DEF SystemInit, Wallet!Init
  <2>2. WalletsFit
    BY <2>1, SystemAssumption DEF WalletsFit, SystemAssumption
  <2>3. ASSUME NEW t \in Txn
        PROVE  Debits(t) = {} /\ ~ Paid(t) /\ ~ Refused(t)
    <3>1. /\ queues["wallets.commands"] = << >>
          /\ Queued(OutcomesQueue) = {}
          /\ ledger[t].status = "absent"
      BY <2>1 DEF Init, NoQueuedMessages, Queued, Queues, CommandQueues, NoRow
    <3> QED BY <2>1, <3>1
            DEF Debits, Paid, Moved, Wallet!Exists, Wallet!Movements, Refused
  <2>4. DebitsOnce
    BY <2>3 DEF DebitsOnce, DebitOnce
  <2> QED BY <2>2, <2>4, OrchestratorAssumption, ProvesInit DEF BInv
<1>3. BInv /\ [SystemNext]_systemVars /\ [StartsOnce]_systemVars => BInv'
  <2> SUFFICES ASSUME BInv, [SystemNext]_systemVars, [StartsOnce]_systemVars
               PROVE  BInv'
    OBVIOUS
  <2>0. StartsOnce
    BY DEF StartsOnce, systemVars, vars
  <2>1. /\ FInv /\ MessagesProve /\ TypeOK /\ MessagesFit /\ SInv
        /\ WalletsFit /\ DebitsOnce
    BY DEF BInv, SInv, FInv, IInv
  <2>2. SInv' /\ WalletsFit'
    BY <2>1, OrchestratorAssumption, SystemAssumption, ProvesStep, WalletsStay
  <2>3. DebitsOnce'
    BY <2>0, <2>1, OrchestratorAssumption, SystemAssumption, DebitOnceStep
    DEF DebitsOnce
  <2> QED BY <2>2, <2>3 DEF BInv
<1> QED BY <1>2, <1>3, PTL DEF SystemSpec

(* Where no start is repeated, a purchase that the ledger reports as       *)
(* failed took no money.                                                  *)
THEOREM FailuresKeepMoney ==
  SystemSpec /\ [][StartsOnce]_systemVars => []FailedPurchaseKeepsMoney
<1>1. BInv => FailedPurchaseKeepsMoney
  BY DEF BInv, DebitsOnce, DebitOnce, Refused, Paid, FailedPurchaseKeepsMoney
<1> QED BY <1>1, BInvHolds, PTL

(* Where no start is repeated and access ends undisputed, what the ledger  *)
(* says of a purchase is what happened to the money and to the access.    *)
THEOREM PurchaseVerdictsAreWholeTruth ==
  SystemSpec /\ [][StartsOnce /\ AccessEndsUndisputed]_systemVars =>
    []PurchaseVerdictIsTrue
<1>1. /\ BInv
      /\ FailedPurchaseKeepsMoney
      /\ CompletedPurchaseIsTrue /\ CompensatedPurchaseIsTrue
      /\ PaidBackGivesNoAccess
      => PurchaseVerdictIsTrue
  <2> SUFFICES ASSUME BInv, FailedPurchaseKeepsMoney, CompletedPurchaseIsTrue,
                      CompensatedPurchaseIsTrue, PaidBackGivesNoAccess
               PROVE  EndedPurchaseGivesNoAccess
    BY DEF PurchaseVerdictIsTrue
  <2> SUFFICES ASSUME NEW t \in Txn, TypeOf[t] = "purchase",
                      ledger[t].status \in { "failed", "compensated" }
               PROVE  access[t] = "none"
    BY DEF EndedPurchaseGivesNoAccess
  <2>1. CASE ledger[t].status = "failed"
    BY <2>1 DEF BInv, SInv, AccessProves, FailedPurchaseKeepsMoney
  <2>2. CASE ledger[t].status = "compensated"
    BY <2>2 DEF CompensatedPurchaseIsTrue, PaidBackGivesNoAccess,
                CompensationGivesNoAccess
  <2> QED BY <2>1, <2>2
<1>2. [StartsOnce /\ AccessEndsUndisputed]_systemVars =>
        /\ [StartsOnce]_systemVars
        /\ [AccessEndsUndisputed]_systemVars
  OBVIOUS
<1> QED BY <1>1, <1>2, BInvHolds, FailuresKeepMoney, PurchaseVerdictsAreTrue,
           PayingBackEndsAccess, PTL

------------------------------------------------------------------------------
(***************************************************************************)
(* The system uses each service as its module lets it be used, so what is  *)
(* proved of a service on its own, for any sequence of commands, holds of  *)
(* it in the system.                                                       *)
(***************************************************************************)

(* A command of the wallets names a transaction and a source step.        *)
LEMMA WalletsAreUsedAsSpecified ==
  ASSUME TypeOK, MessagesFit, MessagesProve, [SystemNext]_systemVars
  PROVE  [Wallet!Next]_(Wallet!vars)
<1> SUFFICES ASSUME ~ UNCHANGED << balance, movements >>
             PROVE  Wallet!Next
  BY DEF Wallet!vars
<1>1. PICK p, key : Serves(p, key)
  BY ServicesStep DEF serviceVars
<1>2. PICK msg : msg = Head(queues[p])
  OBVIOUS
<1>3. Wallet!Handle(msg, key)
  BY <1>1, <1>2 DEF Serves, Effect, serviceVars
<1>4. msg \in Held(queues, p) /\ p \in Queues
  BY <1>1, <1>2, ServedHead
<1>5. msg.txn \in Txn /\ msg.step \in SourceSteps
  BY <1>4, HeldIsTyped DEF Messages
<1> QED BY <1>3, <1>4, <1>5 DEF Wallet!Handle, Wallet!Next

(* So the wallets behave in the system as their module specifies.          *)
THEOREM SystemImplementsWallets == SystemSpec => Wallet!Spec
<1>1. SystemInit => Wallet!Init
  BY DEF SystemInit
<1>2. SInv /\ [SystemNext]_systemVars => [Wallet!Next]_(Wallet!vars)
  BY WalletsAreUsedAsSpecified DEF SInv, FInv, IInv
<1> QED BY <1>1, <1>2, SInvHolds, PTL DEF SystemSpec, Wallet!Spec

(* A command of catalog-access names a transaction, and a revocation one   *)
(* that names a purchase.                                                 *)
LEMMA CatalogIsUsedAsSpecified ==
  ASSUME SystemAssumption, TypeOK, MessagesFit, MessagesProve, RevokesFit,
         [SystemNext]_systemVars
  PROVE  [Catalog!CatalogNext]_access
<1> SUFFICES ASSUME access' # access
             PROVE  Catalog!CatalogNext
  OBVIOUS
<1>1. PICK p, key : Serves(p, key)
  BY ServicesStep DEF serviceVars
<1>2. PICK msg : msg = Head(queues[p])
  OBVIOUS
<1>3. Catalog!CatalogHandle(msg, key)
  BY <1>1, <1>2 DEF Serves, Effect, serviceVars
<1>4. /\ msg.txn \in Txn
      /\ msg \in Held(queues, p)
      /\ p \in Queues
  BY <1>1, <1>2, ServedHead
<1>5. CASE msg.key = "access.grant.requested"
  BY <1>3, <1>4, <1>5 DEF Catalog!CatalogHandle, Catalog!CatalogNext
<1>6. CASE msg.key = "access.revoke.requested"
  <2>1. msg.txn \in DOMAIN OriginalOf
    BY <1>4, <1>6 DEF RevokesFit, Queued, Held, SystemAssumption
  <2> QED BY <1>3, <1>6, <2>1 DEF Catalog!CatalogHandle, Catalog!CatalogNext
<1> QED BY <1>3, <1>5, <1>6 DEF Catalog!CatalogHandle

(* And so do the access records.                                           *)
THEOREM SystemImplementsCatalog == SystemSpec => Catalog!CatalogSpec
<1>1. SystemInit => Catalog!CatalogInit
  BY DEF SystemInit
<1>2. SInv /\ RevokesFit /\ [SystemNext]_systemVars =>
        [Catalog!CatalogNext]_access
  BY SystemAssumption, CatalogIsUsedAsSpecified DEF SInv, FInv, IInv
<1> QED BY <1>1, <1>2, SInvHolds, RevocationsAreRefunds, PTL
        DEF SystemSpec, Catalog!CatalogSpec

(* Whatever is repeated, redelivered or started again, no step of a        *)
(* transaction moves money twice.                                         *)
THEOREM MoneyMovesOnce == SystemSpec => []Wallet!MovedOnce
<1>1. Wallet!Init => Wallet!MovedOnce
  BY DEF Wallet!Init, Wallet!MovedOnce
<1>2. Wallet!MovedOnce /\ [Wallet!Next]_(Wallet!vars) => Wallet!MovedOnce'
  <2> SUFFICES ASSUME Wallet!MovedOnce, [Wallet!Next]_(Wallet!vars)
               PROVE  Wallet!MovedOnce'
    OBVIOUS
  <2>1. CASE UNCHANGED Wallet!vars
    BY <2>1 DEF Wallet!MovedOnce, Wallet!vars
  <2>2. ASSUME NEW t, NEW step, NEW type, NEW after, ~ Wallet!Exists(t, step),
               Wallet!Move(t, step, type, after)
        PROVE  Wallet!MovedOnce'
    BY <2>2 DEF Wallet!MovedOnce, Wallet!Exists, Wallet!Movements, Wallet!Move
  <2>3. ASSUME NEW t, NEW step, ~ UNCHANGED Wallet!vars,
               \/ Wallet!Debited(t, step)
               \/ Wallet!DebitRejected(t, step)
               \/ Wallet!Credited(t, step)
        PROVE  Wallet!MovedOnce'
    BY <2>2, <2>3
    DEF Wallet!Debited, Wallet!DebitRejected, Wallet!Credited
  <2> QED BY <2>1, <2>3 DEF Wallet!Next
<1> QED BY <1>1, <1>2, SystemImplementsWallets, PTL DEF Wallet!Spec


------------------------------------------------------------------------------
(***************************************************************************)
(* The wallets and the ledger.  A balance is the opening one with the net  *)
(* of each of its user's transactions: the credit of its workflow, if it   *)
(* was made, less its debit.  Once a saga has ended the ledger tells this  *)
(* net, so the sums over all transactions agree.                           *)
(***************************************************************************)

(* What the movements of a transaction come to.                           *)
Net(t) ==
  (IF Moved(t, CreditStep(TypeOf[t])) THEN AmountOf[t] ELSE 0)
    - (IF Paid(t) THEN AmountOf[t] ELSE 0)

NetOf == [t \in Txn |-> Net(t)]

(* The transactions of a user.                                            *)
OfUser(u) == { t \in Txn : UserOf[t] = u }

BalanceIsNet ==
  \A u \in DOMAIN Opening :
    balance[u] = Opening[u] + Sigma(NetOf, OfUser(u))

(* Debits are for purchases.                                              *)
DebitsFit ==
  \A q \in Queues : \A m \in Queued(q) :
    m.key = "wallet.debit.requested" => TypeOf[m.txn] = "purchase"

(* Money moves for sagas that there are, and debits only for purchases.   *)
MovementsFit ==
  \A t \in Txn : \A step :
    Moved(t, step) =>
      /\ saga[t].status # "absent"
      /\ step = "purchase_debit" => TypeOf[t] = "purchase"

(* Only purchases end compensated.                                        *)
OutcomesFit ==
  \A t \in Txn : saga[t].outcome = "compensated" => TypeOf[t] = "purchase"

(* Only the start of a purchase publishes a debit.                        *)
LEMMA DebitsFitStep ==
  ASSUME OrchestratorAssumption, TypeOK, DebitsFit, [Next]_vars
  PROVE  DebitsFit'
<1>1. ASSUME NEW q \in Queues, NEW m \in Held(queues', q),
             m.key = "wallet.debit.requested"
      PROVE  TypeOf[m.txn] = "purchase"
  <2>1. CASE m \in Held(queues, q)
    BY <1>1, <2>1 DEF DebitsFit, Queued, Held
  <2>2. CASE Sent(m)
    <3>1. ASSUME NEW t \in Txn, m = FirstCommand(TypeOf[t], t)
          PROVE  TypeOf[m.txn] = "purchase"
      BY <1>1, <3>1 DEF FirstCommand, Message, OrchestratorAssumption, SagaTypes
    <3>2. ASSUME About("publish"),
                 m = Message(NextCall.status, Current.txn, NextCall.step)
          PROVE  FALSE
      <4>1. /\ CallOf(TypeOf[Current.txn], Current.key, delivery.seen,
                      delivery.at, NextCall)
            /\ NextCall.op = "publish"
            /\ NextCall.status = "wallet.debit.requested"
        BY <1>1, <3>2, CurrentCall DEF About, NextCall, Message
      <4> QED BY <4>1
              DEF CallOf, PatchLedger, PublishCommand, SetStatus, SetStep, Call
    <3>3. ASSUME NEW p, NEW key \in OutcomeKeys, m = Message(key, p, NoStep)
          PROVE  FALSE
      BY <1>1, <3>3 DEF Message, OutcomeKeys
    <3> QED BY <2>2, <3>1, <3>2, <3>3 DEF Sent, Commanded
  <2> QED BY <1>1, <2>1, <2>2, QueueStep
<1> QED BY <1>1 DEF DebitsFit, Queued, Held

(* A movement has a saga to move for, and if it is a debit, a purchase.   *)
LEMMA MovementsFitStep ==
  ASSUME OrchestratorAssumption, TypeOK, MessagesFit, MessagesProve, DebitsFit,
         MovementsFit, AccessTyped, [SystemNext]_systemVars
  PROVE  MovementsFit'
<1> SUFFICES ASSUME NEW t \in Txn, NEW step, Moved(t, step)'
             PROVE  /\ saga'[t].status # "absent"
                    /\ step = "purchase_debit" => TypeOf[t] = "purchase"
  BY DEF MovementsFit
<1>1. saga[t].status # "absent" => saga'[t].status # "absent"
  BY SystemStep, RowsStay
<1>2. CASE Moved(t, step)
  BY <1>1, <1>2 DEF MovementsFit
<1>3. CASE ~ Moved(t, step)
  <2>1. PICK p, key :
          /\ Serves(p, key)
          /\ Head(queues[p]).txn = t
          /\ Head(queues[p]).step = step
          /\ Head(queues[p]).key \in
               { "wallet.debit.requested", "wallet.credit.requested" }
    BY <1>3, MovedNow
  <2> DEFINE msg == Head(queues[p])
  <2>2. /\ msg \in Held(queues, p)
        /\ p \in Queues
        /\ MessageFits(msg)
    BY <2>1, ServedHead
  <2> HIDE DEF msg
  <2>3. /\ msg.txn = t /\ msg.step = step
        /\ msg.key \in { "wallet.debit.requested", "wallet.credit.requested" }
    BY <2>1 DEF msg
  <2>4. msg.key = "wallet.debit.requested" => TypeOf[t] = "purchase"
    BY <2>2, <2>3 DEF DebitsFit, Queued, Held
  <2>5. TypeOf[t] \in SagaTypes
    BY DEF OrchestratorAssumption
  <2> QED BY <1>1, <2>2, <2>3, <2>4, <2>5 DEF MessageFits, CreditStep, SagaTypes
<1> QED BY <1>2, <1>3


(* A saga is written as compensated by the handler of a purchase only.    *)
LEMMA OutcomesFitStep ==
  ASSUME OrchestratorAssumption, TypeOK, OutcomesFit, [Next]_vars
  PROVE  OutcomesFit'
<1> SUFFICES ASSUME NEW t \in Txn, saga'[t].outcome = "compensated"
             PROVE  TypeOf[t] = "purchase"
  BY DEF OutcomesFit
<1>0. CASE saga'[t] = saga[t]
  BY <1>0 DEF OutcomesFit
<1>1. CASE SagaCreated(t) \/ SagaTimedOut(t)
  <2>1. PICK status, step :
          saga'[t] = [status |-> status, outcome |-> "none", step |-> step]
    BY <1>1, Zenon DEF SagaCreated, SagaTimedOut
  <2>2. saga'[t].outcome = "none"
    BY <2>1
  <2> QED BY <2>2
<1>2. CASE SagaRestatused(t)
  <2>1. /\ CallOf(TypeOf[t], Current.key, delivery.seen, delivery.at, NextCall)
        /\ NextCall.op = "status"
        /\ NextCall.detail = "compensated"
    BY <1>2, CurrentCall DEF SagaRestatused, About, NextCall
  <2> QED BY <2>1 DEF CallOf, PatchLedger, PublishCommand, SetStatus, SetStep, Call
<1>3. CASE SagaStepped(t)
  <2>1. saga[t] \in SagaRows
    BY DEF TypeOK
  <2> QED BY <1>3, <2>1 DEF SagaStepped, SagaRows, OutcomesFit
<1> QED BY <1>0, <1>1, <1>2, <1>3, SagaRowStep

(* A step leaves the wallets alone, or credits or debits one transaction   *)
(* that had not been credited or debited before.                          *)
LEMMA WalletsStep ==
  ASSUME TypeOK, MessagesFit, MessagesProve, WalletsFit, [SystemNext]_systemVars
  PROVE  \/ UNCHANGED << balance, movements >>
         \/ \E t \in Txn : \E step, type, after :
              /\ Wallet!Move(t, step, type, after)
              /\ ~ Moved(t, step)
              /\ UserOf[t] \in DOMAIN Opening
              /\ \/ /\ step = "purchase_debit"
                    /\ after = balance[UserOf[t]] - AmountOf[t]
                 \/ /\ step = CreditStep(TypeOf[t])
                    /\ after = balance[UserOf[t]] + AmountOf[t]
<1> SUFFICES ASSUME ~ UNCHANGED << balance, movements >>
             PROVE  \E t \in Txn : \E step, type, after :
                      /\ Wallet!Move(t, step, type, after)
                      /\ ~ Moved(t, step)
                      /\ UserOf[t] \in DOMAIN Opening
                      /\ \/ /\ step = "purchase_debit"
                            /\ after = balance[UserOf[t]] - AmountOf[t]
                         \/ /\ step = CreditStep(TypeOf[t])
                            /\ after = balance[UserOf[t]] + AmountOf[t]
  OBVIOUS
<1>1. PICK p, key : Serves(p, key)
  BY ServicesStep DEF serviceVars
<1>2. PICK msg : msg = Head(queues[p])
  OBVIOUS
<1>3. Wallet!Handle(msg, key)
  BY <1>1, <1>2 DEF Serves, Effect, serviceVars
<1>4. msg.txn \in Txn /\ MessageFits(msg)
  BY <1>1, <1>2, ServedHead
<1>5. /\ Wallet!HasWallet(msg.txn)
      /\ ~ Moved(msg.txn, msg.step)
      /\ \/ /\ msg.key = "wallet.debit.requested"
            /\ Wallet!Move(msg.txn, msg.step, "debit",
                           balance[UserOf[msg.txn]] - AmountOf[msg.txn])
         \/ /\ msg.key = "wallet.credit.requested"
            /\ Wallet!Move(msg.txn, msg.step, "credit",
                           balance[UserOf[msg.txn]] + AmountOf[msg.txn])
  BY <1>3 DEF Wallet!Handle, Wallet!Debited, Wallet!DebitRejected,
              Wallet!Credited, Wallet!vars, Moved
<1>6. UserOf[msg.txn] \in DOMAIN Opening
  BY <1>5 DEF Wallet!HasWallet, WalletsFit
<1>7. CASE msg.key = "wallet.debit.requested"
  BY <1>4, <1>5, <1>6, <1>7 DEF MessageFits
<1>8. CASE msg.key = "wallet.credit.requested"
  BY <1>4, <1>5, <1>6, <1>8 DEF MessageFits
<1> QED BY <1>5, <1>7, <1>8

(* A movement changes what its transaction comes to, and no other.        *)
LEMMA MoveChangesNet ==
  ASSUME OrchestratorAssumption, SystemAssumption, NEW t \in Txn, NEW step,
         NEW type, NEW after, Wallet!Move(t, step, type, after), ~ Moved(t, step)
  PROVE  /\ \A x \in Txn \ { t } : Net(x)' = Net(x)
         /\ step = "purchase_debit" => Net(t)' = Net(t) - AmountOf[t]
         /\ step = CreditStep(TypeOf[t]) => Net(t)' = Net(t) + AmountOf[t]
<1> DEFINE row == [txn |-> t, step |-> step, type |-> type,
                   before |-> balance[UserOf[t]], after |-> after]
<1>1. /\ movements' = movements \cup { row }
      /\ row.txn = t /\ row.step = step
  BY DEF Wallet!Move
<1> HIDE DEF row
<1>2. \A x, s : Moved(x, s)' <=> Moved(x, s) \/ (x = t /\ s = step)
  BY <1>1 DEF Moved, Wallet!Exists, Wallet!Movements
<1>3. CreditStep(TypeOf[t]) # "purchase_debit"
  <2>1. TypeOf[t] \in SagaTypes
    BY DEF OrchestratorAssumption
  <2> QED BY <2>1 DEF CreditStep, SagaTypes
<1>4. AmountOf[t] \in Int
  BY DEF SystemAssumption
<1>5. ASSUME NEW x \in Txn \ { t }
      PROVE  Net(x)' = Net(x)
  BY <1>2, <1>5 DEF Net, Paid
<1>6. CASE step = "purchase_debit"
  <2>1. /\ ~ Paid(t) /\ Paid(t)'
        /\ Moved(t, CreditStep(TypeOf[t]))' <=> Moved(t, CreditStep(TypeOf[t]))
    BY <1>2, <1>3, <1>6 DEF Paid
  <2> QED BY <1>3, <1>4, <1>5, <1>6, <2>1 DEF Net
<1>7. CASE step = CreditStep(TypeOf[t])
  <2>1. /\ ~ Moved(t, CreditStep(TypeOf[t]))
        /\ Moved(t, CreditStep(TypeOf[t]))'
        /\ Paid(t)' <=> Paid(t)
    BY <1>2, <1>3, <1>7 DEF Paid
  <2> QED BY <1>3, <1>4, <1>5, <1>7, <2>1 DEF Net
<1> QED BY <1>5, <1>6, <1>7

(* So every balance goes on being the opening one with the nets.          *)
LEMMA BalanceIsNetStep ==
  ASSUME IsFiniteSet(Txn), OrchestratorAssumption, SystemAssumption, TypeOK,
         MessagesFit, MessagesProve, WalletsFit, BalanceIsNet,
         [SystemNext]_systemVars
  PROVE  BalanceIsNet'
<1>1. CASE UNCHANGED << balance, movements >>
  <2>1. NetOf' = NetOf
    BY <1>1 DEF NetOf, Net, Paid, Moved, Wallet!Exists, Wallet!Movements
  <2> QED BY <1>1, <2>1 DEF BalanceIsNet, OfUser
<1>2. CASE ~ UNCHANGED << balance, movements >>
  <2>1. PICK t, step, type, after :
          /\ t \in Txn
          /\ Wallet!Move(t, step, type, after)
          /\ ~ Moved(t, step)
          /\ UserOf[t] \in DOMAIN Opening
          /\ \/ /\ step = "purchase_debit"
                /\ after = balance[UserOf[t]] - AmountOf[t]
             \/ /\ step = CreditStep(TypeOf[t])
                /\ after = balance[UserOf[t]] + AmountOf[t]
    BY <1>2, WalletsStep
  <2>2. /\ \A x \in Txn \ { t } : Net(x)' = Net(x)
        /\ step = "purchase_debit" => Net(t)' = Net(t) - AmountOf[t]
        /\ step = CreditStep(TypeOf[t]) => Net(t)' = Net(t) + AmountOf[t]
    BY <2>1, MoveChangesNet
  <2>3. /\ balance \in [DOMAIN Opening -> Nat]
        /\ balance' = [balance EXCEPT ![UserOf[t]] = after]
        /\ Opening \in [DOMAIN Opening -> Nat]
        /\ AmountOf \in [Txn -> Nat \ { 0 }]
    BY <2>1 DEF Wallet!Move, WalletsFit, SystemAssumption
  <2>4. \A x \in Txn : Net(x) \in Int /\ Net(x)' \in Int
    BY <2>3 DEF Net
  <2>5. after - balance[UserOf[t]] = Net(t)' - Net(t)
    <3>1. /\ balance[UserOf[t]] \in Int /\ AmountOf[t] \in Int
          /\ Net(t) \in Int
      BY <2>1, <2>3, <2>4
    <3> QED BY <2>1, <2>2, <3>1
  <2>6. ASSUME NEW u \in DOMAIN Opening
        PROVE  balance'[u] = Opening[u] + Sigma(NetOf', OfUser(u))
    <3> DEFINE D == OfUser(u)
               v == NetOf
               w == NetOf'
    <3>1. /\ IsFiniteSet(D)
          /\ D \subseteq Txn
          /\ balance[u] = Opening[u] + Sigma(v, D)
      BY FS_Subset DEF OfUser, BalanceIsNet
    <3>2. \A x \in Txn : v[x] = Net(x) /\ w[x] = Net(x)'
      BY DEF NetOf
    <3>3. t \in D <=> UserOf[t] = u
      BY <2>1 DEF OfUser
    <3>4. Opening[u] \in Int /\ balance[u] \in Int
      BY <2>3
    <3> HIDE DEF D, v, w
    <3>5. \A x \in D : v[x] \in Int /\ w[x] \in Int
      BY <2>4, <3>1, <3>2
    <3>6. Sigma(v, D) \in Int /\ Sigma(w, D) \in Int
      BY <3>1, <3>5, SigmaIsTyped
    <3>7. \A x \in D \ { t } : v[x] = w[x]
      BY <2>2, <3>1, <3>2
    <3>8. CASE UserOf[t] # u
      <4>1. \A x \in D : v[x] = w[x]
        BY <3>3, <3>7, <3>8
      <4>2. Sigma(v, D) = Sigma(w, D)
        BY <3>1, <4>1, SigmaOfSame
      <4>3. balance'[u] = balance[u]
        BY <2>3, <3>8
      <4> QED BY <3>1, <4>2, <4>3 DEF w, D
    <3>9. CASE UserOf[t] = u
      <4>1. Sigma(w, D) = Sigma(v, D) + (w[t] - v[t])
        BY <3>1, <3>3, <3>5, <3>7, <3>9, SigmaChanges
      <4>2. balance'[u] = after
        BY <2>3, <3>9
      <4>3. after - balance[u] = w[t] - v[t]
        BY <2>1, <2>5, <3>2, <3>9
      <4>4. /\ after \in Int
            /\ v[t] \in Int /\ w[t] \in Int
        <5>1. AmountOf[t] \in Int
          BY <2>1, <2>3
        <5> QED BY <2>1, <3>3, <3>4, <3>5, <3>9, <5>1
      <4>5. balance'[u] = Opening[u] + Sigma(w, D)
        BY <3>1, <3>4, <3>6, <4>1, <4>2, <4>3, <4>4
      <4> QED BY <4>5 DEF w, D
    <3> QED BY <3>8, <3>9
  <2> QED BY <2>6 DEF BalanceIsNet, OfUser
<1> QED BY <1>1, <1>2


(* The invariant of the nets, on top of that of the debits.               *)
NInv ==
  /\ BInv
  /\ DebitsFit
  /\ MovementsFit
  /\ OutcomesFit
  /\ BalanceIsNet

(* Nothing has moved at the beginning.                                    *)
LEMMA NetsInit ==
  ASSUME IsFiniteSet(Txn), OrchestratorAssumption, SystemAssumption,
         SystemInit
  PROVE  /\ DebitsFit
         /\ MovementsFit
         /\ OutcomesFit
         /\ BalanceIsNet
<1>1. /\ Init /\ balance = Opening /\ movements = {}
  BY DEF SystemInit, Wallet!Init
<1>2. \A t, step : ~ Moved(t, step)
  BY <1>1 DEF Moved, Wallet!Exists, Wallet!Movements
<1>3. DebitsFit
  <2>1. \A q \in Queues : Queued(q) = {}
    BY <1>1 DEF Init, NoQueuedMessages, Queued, Queues
  <2> QED BY <2>1 DEF DebitsFit
<1>4. MovementsFit
  BY <1>2 DEF MovementsFit
<1>5. OutcomesFit
  BY <1>1 DEF Init, OutcomesFit, NoSaga
<1>6. ASSUME NEW u \in DOMAIN Opening
      PROVE  balance[u] = Opening[u] + Sigma(NetOf, OfUser(u))
  <2> DEFINE D == OfUser(u)
             v == NetOf
  <2>1. IsFiniteSet(D) /\ D \subseteq Txn
    BY FS_Subset DEF OfUser
  <2>2. \A x \in D : v[x] = 0
    BY <1>2, <2>1 DEF NetOf, Net, Paid
  <2> HIDE DEF D, v
  <2>3. Sigma(v, D) = 0
    BY <2>1, <2>2, SigmaOfNothing
  <2>4. Opening[u] \in Nat
    BY DEF SystemAssumption
  <2> QED BY <1>1, <2>3, <2>4 DEF D, v
<1> QED BY <1>3, <1>4, <1>5, <1>6 DEF BalanceIsNet

(* Where no start is repeated and transactions are finitely many, every    *)
(* balance is the opening one with the nets.                              *)
THEOREM NInvHolds ==
  IsFiniteSet(Txn) /\ SystemSpec /\ [][StartsOnce]_systemVars => []NInv
<1>1. SUFFICES ASSUME IsFiniteSet(Txn)
               PROVE  SystemSpec /\ [][StartsOnce]_systemVars => []NInv
  OBVIOUS
<1>2. SystemSpec /\ [][StartsOnce]_systemVars => []BInv
  BY BInvHolds
<1>3. SystemInit /\ BInv => NInv
  BY <1>1, OrchestratorAssumption, SystemAssumption, NetsInit DEF NInv
<1>4. NInv /\ BInv' /\ [SystemNext]_systemVars => NInv'
  <2> SUFFICES ASSUME NInv, BInv', [SystemNext]_systemVars
               PROVE  NInv'
    OBVIOUS
  <2>1. /\ TypeOK /\ MessagesFit /\ MessagesProve /\ AccessTyped /\ WalletsFit
        /\ DebitsFit /\ MovementsFit /\ OutcomesFit /\ BalanceIsNet
    BY DEF NInv, BInv, SInv, FInv, IInv
  <2>2. [Next]_vars
    BY OrchestratorAssumption, SystemStep
  <2>3. DebitsFit' /\ OutcomesFit'
    BY <2>1, <2>2, OrchestratorAssumption, DebitsFitStep, OutcomesFitStep
  <2>4. MovementsFit'
    BY <2>1, OrchestratorAssumption, MovementsFitStep
  <2>5. BalanceIsNet'
    BY <1>1, <2>1, OrchestratorAssumption, SystemAssumption, BalanceIsNetStep
  <2> QED BY <2>3, <2>4, <2>5 DEF NInv
<1> QED BY <1>2, <1>3, <1>4, PTL DEF SystemSpec

(* The ledger tells what a transaction comes to, once its saga has ended.  *)
LEMMA EndedNetIsDelta ==
  ASSUME OrchestratorAssumption, NInv, NEW t \in Txn,
         saga[t].status \in TerminalStatuses \cup { "absent" }
  PROVE  Net(t) = Delta(t)
<1>0. /\ TerminalSagaMatchesLedger /\ LedgerProves /\ MovementsProve
      /\ AccessProves /\ DebitsOnce /\ MovementsFit /\ OutcomesFit
      /\ TypeOf[t] \in SagaTypes
  BY DEF NInv, BInv, SInv, FInv, IInv, OrchestratorAssumption
<1>1. /\ RowProves(t, ledger[t].status)
      /\ saga[t].status = "absent" =>
           ~ Moved(t, CreditStep(TypeOf[t])) /\ ~ Paid(t)
      /\ Paid(t) => TypeOf[t] = "purchase"
  BY <1>0 DEF LedgerProves, MovementsFit, Paid
<1>2. saga[t].status # "absent" =>
        /\ ledger[t].status = Verdict(saga[t])
        /\ saga[t].status # "compensating"
  BY <1>0 DEF TerminalSagaMatchesLedger, TerminalStatuses
<1>3. CASE TypeOf[t] = "purchase"
  <2>1. ledger[t].status = "completed" => Paid(t)
    BY <1>0, <1>1, <1>3 DEF RowProves, AccessProves, Paid
  <2>2. ledger[t].status = "compensated" =>
          Paid(t) /\ Moved(t, "purchase_compensation")
    BY <1>1, <1>3 DEF RowProves, Paid
  <2>3. ledger[t].status = "failed" => ~ Paid(t)
    BY <1>0, <1>3 DEF DebitsOnce, DebitOnce, Refused
  <2>4. Moved(t, "purchase_compensation") => PaysBack(t)
    BY <1>0, <1>3 DEF MovementsProve
  <2>5. saga[t].status # "absent" /\ PaysBack(t) =>
          ledger[t].status = "compensated"
    BY <1>2 DEF PaysBack, Verdict
  <2>6. saga[t].status # "absent" =>
          ledger[t].status \in { "completed", "compensated", "failed" }
    BY <1>2 DEF Verdict
  <2>7. CreditStep(TypeOf[t]) = "purchase_compensation"
    BY <1>3 DEF CreditStep
  <2>8. CASE saga[t].status = "absent"
    <3>1. ledger[t].status # "completed"
      BY <1>1, <2>1, <2>8
    <3> QED BY <1>1, <2>8, <3>1 DEF Net, Delta
  <2>9. CASE saga[t].status # "absent" /\ ledger[t].status = "completed"
    <3>1. Paid(t) /\ ~ Moved(t, CreditStep(TypeOf[t]))
      BY <2>1, <2>4, <2>5, <2>7, <2>9
    <3>2. 0 - AmountOf[t] = - AmountOf[t]
      BY SystemAssumption DEF SystemAssumption
    <3> QED BY <1>3, <2>9, <3>1, <3>2 DEF Net, Delta
  <2>10. CASE saga[t].status # "absent" /\ ledger[t].status = "compensated"
    <3>1. Paid(t) /\ Moved(t, CreditStep(TypeOf[t]))
      BY <2>2, <2>7, <2>10
    <3>2. AmountOf[t] - AmountOf[t] = 0
      BY SystemAssumption DEF SystemAssumption
    <3> QED BY <2>10, <3>1, <3>2 DEF Net, Delta
  <2>11. CASE saga[t].status # "absent" /\ ledger[t].status = "failed"
    <3>1. ~ Paid(t) /\ ~ Moved(t, CreditStep(TypeOf[t]))
      BY <2>3, <2>4, <2>5, <2>7, <2>11
    <3> QED BY <2>11, <3>1 DEF Net, Delta
  <2> QED BY <2>6, <2>8, <2>9, <2>10, <2>11
<1>4. CASE TypeOf[t] # "purchase"
  <2>1. ~ Paid(t)
    BY <1>1, <1>4
  <2>2. AmountOf[t] \in Nat
    BY SystemAssumption DEF SystemAssumption
  <2>3. ledger[t].status = "completed" => Moved(t, CreditStep(TypeOf[t]))
    BY <1>0, <1>1, <1>4 DEF RowProves, CreditStep, SagaTypes
  <2>4. saga[t].status # "absent" =>
          ledger[t].status \in { "completed", "failed" }
    BY <1>0, <1>2, <1>4 DEF Verdict, OutcomesFit
  <2>5. ledger[t].status = "failed" => ~ Moved(t, CreditStep(TypeOf[t]))
    BY <1>0, <1>1, <1>4 DEF RowProves, MovementsProve, CreditStep, SagaTypes
  <2>6. CASE ledger[t].status = "completed"
    BY <1>4, <2>1, <2>2, <2>3, <2>6 DEF Net, Delta
  <2>7. CASE ledger[t].status # "completed"
    BY <1>1, <2>1, <2>4, <2>5, <2>7 DEF Net, Delta
  <2> QED BY <2>6, <2>7
<1> QED BY <1>3, <1>4

(* The sum of the property, as a sum of SumTheorems.                      *)
LEMMA DeltaSum ==
  ASSUME NEW S
  PROVE  MapThenSumSet(Delta, S) = Sigma([t \in S |-> Delta(t)], S)
<1> DEFINE v == [t \in S |-> Delta(t)]
           Op(f, s) == IF s = {} THEN 0
                       ELSE Delta(Pick(s)) + f[s \ { Pick(s) }]
<1>1. MapThenSumSet(Delta, S) = (CHOOSE f : f = [s \in SUBSET S |-> Op(f, s)])[S]
  BY DEF MapThenSumSet, MapThenFoldSet, Pick
<1>2. ASSUME NEW f, NEW s \in SUBSET S
      PROVE  Op(f, s) = SumStep(v, f, s)
  BY PickIsMember DEF SumStep
<1> HIDE DEF v, Op
<1>3. \A f : [s \in SUBSET S |-> Op(f, s)] = [s \in SUBSET S |-> SumStep(v, f, s)]
  BY <1>2
<1>4. \A f : (f = [s \in SUBSET S |-> Op(f, s)]) <=> Sums(v, f, S)
  BY <1>3 DEF Sums
<1>5. (CHOOSE f : f = [s \in SUBSET S |-> Op(f, s)]) = (CHOOSE f : Sums(v, f, S))
  BY <1>4
<1> QED BY <1>1, <1>5 DEF Sigma, v

(* When every saga has ended the wallets hold what the ledger says, for    *)
(* any finite set of transactions none of which is started twice.         *)
THEOREM WalletsMatchLedger ==
  IsFiniteSet(Txn) /\ SystemSpec /\ [][StartsOnce]_systemVars =>
    []BalanceMatchesLedger
<1>1. SUFFICES ASSUME IsFiniteSet(Txn)
               PROVE  SystemSpec /\ [][StartsOnce]_systemVars =>
                        []BalanceMatchesLedger
  OBVIOUS
<1>2. NInv => BalanceMatchesLedger
  <2> SUFFICES ASSUME NInv, AllSettled, NEW u \in DOMAIN Opening
               PROVE  balance[u] =
                        Opening[u] + MapThenSumSet(Delta, OfUser(u))
    BY DEF BalanceMatchesLedger, OfUser
  <2> DEFINE D == OfUser(u)
             v == NetOf
             w == [t \in D |-> Delta(t)]
  <2>1. /\ IsFiniteSet(D) /\ D \subseteq Txn
        /\ balance[u] = Opening[u] + Sigma(v, D)
    BY <1>1, FS_Subset DEF OfUser, NInv, BalanceIsNet
  <2>2. \A t \in D : v[t] = w[t]
    BY <2>1, OrchestratorAssumption, EndedNetIsDelta DEF AllSettled, NetOf
  <2>3. MapThenSumSet(Delta, D) = Sigma(w, D)
    BY DeltaSum
  <2> HIDE DEF D, v, w
  <2>4. Sigma(v, D) = Sigma(w, D)
    BY <2>1, <2>2, SigmaOfSame
  <2>5. balance[u] = Opening[u] + MapThenSumSet(Delta, D)
    BY <2>1, <2>3, <2>4
  <2> QED BY <2>5 DEF D
<1> QED BY <1>1, <1>2, NInvHolds, PTL
===============================================================================
