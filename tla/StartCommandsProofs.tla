------------------------- MODULE StartCommandsProofs -------------------------
(***************************************************************************)
(* What the idempotency keys achieve, for any number of requests, payloads *)
(* and faults: the typing, the safety properties of module StartCommands,  *)
(* and that seen by a saga its start handlers are those that module        *)
(* SagaOrchestrator assumes.                                               *)
(***************************************************************************)
EXTENDS StartCommands, SequenceTheorems, TLAPS

(* The first command of a transaction is a message.                       *)
LEMMA FirstCommandIsMessage ==
  ASSUME StartAssumption, NEW t \in Requests
  PROVE  FirstCommand(Kind, t) \in StartMessages
BY DEF StartAssumption, SagaTypes, FirstCommand, Message, StartMessages,
       CommandKeys, SourceSteps, NoStep

(* A publish keeps what is queued and leads the first command to a queue. *)
LEMMA PublishStarts ==
  ASSUME StartAssumption, NEW t \in Requests, NEW qs \in StartQueues
  PROVE  LET after == Publish(qs, FirstCommand(Kind, t)) IN
         /\ after \in StartQueues
         /\ \A q \in Queues :
              \A i \in DOMAIN qs[q] :
                i \in DOMAIN after[q] /\ after[q][i] = qs[q][i]
         /\ \E q \in CommandQueues :
              \E i \in DOMAIN after[q] : after[q][i].txn = t
<1> DEFINE msg == FirstCommand(Kind, t)
           after == Publish(qs, msg)
<1>1. msg \in StartMessages
  BY FirstCommandIsMessage
<1>2. PICK p \in CommandQueues : msg.key \in RoutingKeys(p)
  BY DEF StartAssumption, SagaTypes, FirstCommand, Message, RoutingKeys,
         CommandQueues
<1>3. msg.txn = t
  BY DEF StartAssumption, SagaTypes, FirstCommand, Message
<1> HIDE DEF msg
<1>4. \A q \in Queues : qs[q] \in Seq(StartMessages)
  BY DEF StartQueues
<1>5. \A q \in Queues : after[q] = qs[q] \/ after[q] = Append(qs[q], msg)
  BY DEF Publish
<1>6. ASSUME NEW q \in Queues
      PROVE  after[q] \in Seq(StartMessages)
  <2>1. CASE after[q] = qs[q]
    BY <1>4, <2>1
  <2>2. CASE after[q] = Append(qs[q], msg)
    BY <1>1, <1>4, <2>2
  <2> QED BY <1>5, <2>1, <2>2
<1>7. after \in StartQueues
  <2>1. after = [q \in Queues |-> after[q]]
    BY DEF Publish
  <2>2. \A q \in Queues : after[q] \in Seq(StartMessages)
    BY <1>6
  <2> HIDE DEF after
  <2> QED BY <2>1, <2>2 DEF StartQueues
<1>8. ASSUME NEW q \in Queues, NEW i \in DOMAIN qs[q]
      PROVE  i \in DOMAIN after[q] /\ after[q][i] = qs[q][i]
  <2>1. CASE after[q] = qs[q]
    BY <2>1
  <2>2. CASE after[q] = Append(qs[q], msg)
    BY <1>1, <1>4, <2>2
  <2> QED BY <1>5, <2>1, <2>2
<1>9. p \in Queues /\ after[p] = Append(qs[p], msg)
  BY <1>2 DEF Publish, Queues
<1>10. /\ Len(qs[p]) + 1 \in DOMAIN after[p]
       /\ after[p][Len(qs[p]) + 1] = msg
  BY <1>1, <1>4, <1>9
<1> QED BY <1>2, <1>3, <1>7, <1>8, <1>10 DEF msg

------------------------------------------------------------------------------
(* Typing.                                                                *)

HandlersOK ==
  /\ handler \in [Requests -> Handlers]
  /\ \A r \in InUse : Mine(r) \in Requests /\ key.state # "absent"

(* A reservation leaves a whole row.                                      *)
LEMMA ClaimedIsTyped ==
  ASSUME StartAssumption, StartTypeOK, NEW r \in Requests
  PROVE  LET row == Claimed(key, r) IN
         /\ row \in KeyRows
         /\ row.state = "processing"
         /\ row.hash = PayloadOf[r]
         /\ row.txn \in Requests
         /\ row.answer = "none"
         /\ row.about = "none"
         /\ ~ row.lapsed
         /\ row.hash # "none"
<1>1. PayloadOf[r] \in Payloads /\ PayloadOf[r] # "none"
  BY DEF StartAssumption, Payloads
<1>2. key.state = "processing" => key.txn \in Requests
  BY DEF StartTypeOK, KeyRows
<1>3. Claimed(key, r).txn \in Requests
  BY <1>2 DEF Claimed
<1> QED BY <1>1, <1>3 DEF Claimed, KeyRows

(* A handler that ends is typed and acts no more.                         *)
LEMMA EndsIsTyped ==
  ASSUME HandlersOK, NEW r \in Requests, NEW stage \in { "stored", "done" },
         NEW said \in Responses, Ends(r, stage, said),
         key.state # "absent" => key'.state # "absent"
  PROVE  HandlersOK'
<1> DEFINE h == [handler[r] EXCEPT !.stage = stage, !.says = said]
<1>1. handler[r] \in Handlers
  BY DEF HandlersOK
<1>2. h \in Handlers /\ h.stage \notin Serving
  BY <1>1 DEF Handlers, Stages, Serving
<1>3. handler' = [handler EXCEPT ![r] = h]
  BY DEF Ends
<1> HIDE DEF h
<1> QED BY <1>2, <1>3 DEF HandlersOK, InUse, Mine

(* The steps of one request keep the types.                               *)
LEMMA RequestTypeStep ==
  ASSUME StartAssumption, StartTypeOK, NEW r \in Requests, RequestNext(r)
  PROVE  StartTypeOK'
<1>t. /\ key \in KeyRows
      /\ handler \in [Requests -> Handlers]
      /\ \A s \in InUse : Mine(s) \in Requests /\ key.state # "absent"
      /\ "none" \notin Requests
      /\ MaxFaults \in Nat
      /\ faults \in 0..MaxFaults
      /\ queues \in StartQueues
      /\ HandlersOK
  BY DEF StartTypeOK, StartAssumption, HandlersOK
<1>h. ASSUME NEW kind, Happens(kind)
      PROVE  faults' \in 0..MaxFaults
  BY <1>t, <1>h DEF Happens
<1>1. CASE Reserve(r)
  <2> DEFINE h == [handler[r] EXCEPT !.stage = "check",
                                     !.txn = Claimed(key, r).txn]
  <2>1. h \in Handlers
    <3>1. handler[r] \in Handlers /\ Claimed(key, r).txn \in Requests
      BY <1>t, ClaimedIsTyped
    <3> QED BY <3>1 DEF Handlers, Stages, Serving
  <2>2. h.txn \in Requests /\ key'.state # "absent"
    BY <1>t, <1>1, ClaimedIsTyped DEF Reserve, Handlers
  <2>3. handler' = [handler EXCEPT ![r] = h]
    BY <1>1 DEF Reserve
  <2> HIDE DEF h
  <2>4. HandlersOK'
    BY <1>t, <2>1, <2>2, <2>3 DEF HandlersOK, InUse, Mine
  <2> QED BY <1>1, <2>4, ClaimedIsTyped DEF HandlersOK, Reserve, KeyOnly, StartTypeOK
<1>2. ASSUME NEW applied \in BOOLEAN, ReserveFails(r, applied)
      PROVE  StartTypeOK'
  <2>1. HandlersOK'
    <3>1. key.state # "absent" => key'.state # "absent"
      BY <1>2, ClaimedIsTyped DEF ReserveFails
    <3> QED BY <1>t, <1>2, <3>1, EndsIsTyped DEF ReserveFails, Responses
  <2> QED BY <1>2, <2>1, ClaimedIsTyped DEF HandlersOK, ReserveFails, KeyOnly, StartTypeOK
<1>3. CASE RefuseReuse(r)
  <2>1. PICK said \in { "mismatch", "in_progress" } : Ends(r, "done", said)
    BY <1>3 DEF RefuseReuse
  <2>2. key' = key
    BY <1>3 DEF RefuseReuse
  <2>3. HandlersOK'
    BY <1>t, <2>1, <2>2, EndsIsTyped DEF Responses
  <2> QED BY <1>3, <2>3 DEF HandlersOK, RefuseReuse, KeyOnly, StartTypeOK
<1>4. CASE Replay(r)
  <2> DEFINE replayed == [stage |-> "done", txn |-> key.about,
                          says |-> key.answer]
  <2>1. replayed \in Handlers /\ replayed.stage \notin Serving
    BY <1>t DEF KeyRows, Handlers, Stages, Serving, Responses
  <2>2. handler' = [handler EXCEPT ![r] = replayed] /\ key' = key
    BY <1>4 DEF Replay
  <2> HIDE DEF replayed
  <2>3. HandlersOK'
    BY <1>t, <2>1, <2>2 DEF HandlersOK, InUse, Mine
  <2> QED BY <1>4, <2>3 DEF HandlersOK, Replay, KeyOnly, StartTypeOK
<1>5. CASE Check(r) \/ CheckFails(r)
  <2>1. HandlersOK'
    BY <1>t, <1>5 DEF HandlersOK, InUse, KeyOnly, Check, CheckFails, Goes, At, Handlers, Stages, Serving, Mine
  <2> QED BY <1>5, <2>1 DEF HandlersOK, Check, CheckFails, KeyOnly, StartTypeOK
<1>6. CASE Register(r)
  <2>1. HandlersOK'
    BY <1>t, <1>6 DEF HandlersOK, InUse, KeyOnly, Register, Goes, At, Handlers, Stages, Serving, Mine
  <2>2. ledger' \in [Requests -> LedgerRows]
    <3>1. \A row \in LedgerRows : Registered(row) \in LedgerRows
      BY DEF Registered, LedgerRows, LedgerStatuses
    <3> QED BY <1>6, <3>1 DEF Register, StartTypeOK
  <2> QED BY <1>6, <2>1, <2>2 DEF HandlersOK, Register, StartTypeOK
<1>7. CASE Create(r)
  <2>1. HandlersOK'
    BY <1>t, <1>7 DEF HandlersOK, InUse, KeyOnly, Create, Goes, At, Handlers, Stages, Serving, Mine
  <2>2. FirstStep(Kind) \in SagaSteps
    BY DEF StartAssumption, SagaTypes, FirstStep, SagaSteps
  <2> QED BY <1>7, <2>1, <2>2
          DEF HandlersOK, Create, StartTypeOK, Resumed, SagaStatuses, SagaOutcomes
<1>8. CASE PublishFirst(r)
  <2>1. HandlersOK'
    BY <1>t, <1>8 DEF HandlersOK, InUse, KeyOnly, PublishFirst, Goes, At, Handlers, Stages, Serving, Mine
  <2>2. queues' \in StartQueues
    <3>1. Mine(r) \in Requests
      BY <1>t, <1>8 DEF PublishFirst, At, InUse, Serving
    <3> QED BY <1>t, <1>8, <3>1, PublishStarts DEF PublishFirst
  <2> QED BY <1>8, <2>1, <2>2
          DEF HandlersOK, PublishFirst, StartTypeOK
<1>9. ASSUME NEW applied \in BOOLEAN, ServingFails(r, applied)
      PROVE  StartTypeOK'
  <2>1. HandlersOK'
    BY <1>t, <1>9 DEF HandlersOK, InUse, KeyOnly, ServingFails, Goes, At, Handlers, Stages, Serving, Mine
  <2>2. FirstStep(Kind) \in SagaSteps
    BY DEF StartAssumption, SagaTypes, FirstStep, SagaSteps
  <2>3. queues' \in StartQueues
    <3>1. Mine(r) \in Requests
      BY <1>t, <1>9 DEF ServingFails, At, InUse, Serving
    <3> QED BY <1>t, <1>9, <3>1, PublishStarts DEF ServingFails
  <2>4. ledger' \in [Requests -> LedgerRows]
    <3>1. \A row \in LedgerRows : Registered(row) \in LedgerRows
      BY DEF Registered, LedgerRows, LedgerStatuses
    <3> QED BY <1>9, <3>1 DEF ServingFails, StartTypeOK
  <2>5. saga' \in [Requests -> [status : SagaStatuses \cup { "absent" },
                                outcome : SagaOutcomes,
                                step : SagaSteps \cup { "none" }]]
    BY <1>9, <2>2 DEF ServingFails, StartTypeOK, Resumed, SagaStatuses, SagaOutcomes
  <2>6. faults' \in 0..MaxFaults
    BY <1>9, <1>h DEF ServingFails
  <2> QED BY <1>9, <2>1, <2>3, <2>4, <2>5, <2>6
          DEF HandlersOK, ServingFails, StartTypeOK
<1>10. CASE FinalizeAccepted(r) \/ FinalizeDenied(r)
  <2>1. r \in InUse
    BY <1>10 DEF FinalizeAccepted, FinalizeDenied, At, InUse, Serving
  <2>2. /\ key' \in KeyRows
        /\ key'.hash = key.hash /\ key'.txn = key.txn
        /\ key'.state = "completed" /\ key'.answer \in Answers
        /\ key'.about \in Requests
    <3>1. PICK answer \in Answers : key' = Completed(key, answer, Mine(r))
      BY <1>10 DEF FinalizeAccepted, FinalizeDenied, Answers
    <3> QED BY <1>t, <2>1, <3>1 DEF Completed, KeyRows
  <2>3. HandlersOK'
    BY <1>t, <1>10, <2>2, EndsIsTyped
    DEF FinalizeAccepted, FinalizeDenied, Responses, Answers
  <2> QED BY <1>t, <1>10, <2>1, <2>2, <2>3
          DEF HandlersOK, FinalizeAccepted, FinalizeDenied, KeyOnly,
              StartTypeOK, Answers
<1>11. CASE FinalizeFails(r)
  <2>1. HandlersOK'
    BY <1>t, <1>11, EndsIsTyped DEF FinalizeFails, Responses, Answers
  <2>2. faults' \in 0..MaxFaults
    BY <1>t, <1>11, <1>h DEF FinalizeFails
  <2> QED BY <1>11, <2>1, <2>2 DEF HandlersOK, FinalizeFails, StartTypeOK
<1>12. ASSUME NEW marked \in BOOLEAN, Release(r, marked)
       PROVE  StartTypeOK'
  <2>1. r \in InUse
    BY <1>12 DEF Release, At, InUse, Serving
  <2>2. /\ key' \in KeyRows
        /\ key'.hash = key.hash /\ key'.txn = key.txn
        /\ key'.state # "absent"
        /\ key'.state = "completed" <=> key'.answer # "none"
        /\ key'.state = "completed" <=> key'.about # "none"
    BY <1>t, <1>12, <2>1 DEF Release, Retryable, KeyRows, StartTypeOK
  <2>3. HandlersOK'
    BY <1>t, <1>12, <2>2, EndsIsTyped DEF Release, Responses
  <2> QED BY <1>t, <1>12, <2>1, <2>2, <2>3
          DEF HandlersOK, Release, KeyOnly, StartTypeOK
<1> QED BY <1>1, <1>2, <1>3, <1>4, <1>5, <1>6, <1>7, <1>8, <1>9, <1>10,
           <1>11, <1>12 DEF RequestNext

(* So do the clock, the crash and the rest of the system.                 *)
LEMMA StartTypeStep ==
  ASSUME StartAssumption, StartTypeOK, [StartCommandsNext]_startVars
  PROVE  StartTypeOK'
<1>t. /\ MaxFaults \in Nat
      /\ faults \in 0..MaxFaults
      /\ history \subseteq { "aged", "overrun" }
  BY DEF StartTypeOK, StartAssumption
<1>h. ASSUME NEW kind, Happens(kind)
      PROVE  faults' \in 0..MaxFaults
  BY <1>t, <1>h DEF Happens
<1>1. ASSUME NEW r \in Requests, RequestNext(r)
      PROVE  StartTypeOK'
  BY <1>1, RequestTypeStep
<1>2. CASE AnswerExpires
  BY <1>2, <1>t DEF AnswerExpires, StartTypeOK, KeyRows, InUse, Mine
<1>3. CASE LeaseLapses
  BY <1>3 DEF LeaseLapses, KeyOnly, StartTypeOK, KeyRows, InUse, Mine
<1>4. CASE LeaseOverrun
  <2>1. /\ key' = [key EXCEPT !.lapsed = TRUE]
        /\ history' \subseteq { "aged", "overrun" }
        /\ faults' \in 0..MaxFaults
        /\ UNCHANGED << handler, saga, ledger, queues, eligible >>
    BY <1>4, <1>t, <1>h DEF LeaseOverrun
  <2>2. /\ key' \in KeyRows
        /\ key'.state = key.state /\ key'.hash = key.hash
        /\ key'.txn = key.txn /\ key'.answer = key.answer
        /\ key'.about = key.about
    BY <2>1 DEF StartTypeOK, KeyRows
  <2>3. InUse' = InUse /\ \A r \in InUse : Mine(r)' = Mine(r)
    BY <2>1 DEF InUse, Mine
  <2> QED BY <2>1, <2>2, <2>3 DEF StartTypeOK
<1>5. CASE ProcessDies
  <2>1. /\ handler \in [Requests -> Handlers]
        /\ handler' = [r \in Requests |->
                         IF r \in InUse
                         THEN [handler[r] EXCEPT !.stage = "done",
                                                 !.says = "lost"]
                         ELSE handler[r]]
    BY <1>5 DEF ProcessDies, StartTypeOK
  <2>2. handler' \in [Requests -> Handlers]
    <3>1. \A h \in Handlers :
            [h EXCEPT !.stage = "done", !.says = "lost"] \in Handlers
      BY DEF Handlers, Stages, Responses
    <3> QED BY <2>1, <3>1
  <2>3. InUse' = {}
    BY <2>1 DEF InUse, Serving, Handlers
  <2> QED BY <1>5, <1>h, <2>2, <2>3 DEF ProcessDies, StartTypeOK
<1>6. CASE TakesEffect
  BY <1>6 DEF TakesEffect, StartTypeOK, InUse, Mine
<1>7. CASE UNCHANGED startVars
  BY <1>7 DEF startVars, StartTypeOK, InUse, Mine
<1> QED BY <1>1, <1>2, <1>3, <1>4, <1>5, <1>6, <1>7 DEF StartCommandsNext

(* The initial states are well typed.                                     *)
LEMMA StartTypeInit ==
  ASSUME StartAssumption, StartInit
  PROVE  StartTypeOK
<1>1. NoKey \in KeyRows
  BY DEF NoKey, KeyRows
<1>2. IdleHandler \in Handlers
  BY DEF IdleHandler, Handlers, Stages, Responses
<1>3. NoRow \in LedgerRows
  BY DEF NoRow, LedgerRows, Reasons, ProviderRefs
<1>4. 0 \in 0..MaxFaults
  BY DEF StartAssumption
<1>5. NoQueuedMessages \in StartQueues
  BY DEF NoQueuedMessages, StartQueues
<1> QED
  BY <1>1, <1>2, <1>3, <1>4, <1>5
  DEF StartInit, StartTypeOK, InUse, Serving, IdleHandler, NoKey, SagaOutcomes

(* Every reachable state is well typed.                                   *)
THEOREM StartTypeCorrect == StartCommandsSpec => []StartTypeOK
<1>1. StartInit => StartTypeOK
  BY StartAssumption, StartTypeInit
<1>2. StartTypeOK /\ [StartCommandsNext]_startVars => StartTypeOK'
  BY StartAssumption, StartTypeStep
<1> QED BY <1>1, <1>2, PTL DEF StartCommandsSpec

------------------------------------------------------------------------------
(* The steps of a request, seen from the key and the handler's record.    *)

Becomes(r, stage, txn, says) ==
  handler' = [handler EXCEPT ![r] = [stage |-> stage, txn |-> txn,
                                     says |-> says]]

(* The request takes the key.                                             *)
Takes(r) ==
  /\ At(r, "idle")
  /\ Claimable
  /\ key' = Claimed(key, r)
  /\ Becomes(r, "check", Claimed(key, r).txn, handler[r].says)
  /\ KeyOnly

(* The request takes the key, or not, and is told to come again.          *)
TakesInVain(r) ==
  /\ At(r, "idle")
  /\ key' = key \/ (Claimable /\ key' = Claimed(key, r))
  /\ Becomes(r, "done", Mine(r), "retryable")
  /\ KeyOnly

(* The request is turned away.                                            *)
TurnedAway(r) ==
  /\ At(r, "idle")
  /\ ~ Claimable
  /\ key' = key
  /\ KeyOnly
  /\ \/ key.hash # PayloadOf[r] /\ Becomes(r, "done", Mine(r), "mismatch")
     \/ key.hash = PayloadOf[r] /\ Becomes(r, "done", Mine(r), "in_progress")

(* The request is given the stored answer.                                *)
Replayed(r) ==
  /\ At(r, "idle")
  /\ key.hash = PayloadOf[r]
  /\ key.state = "completed"
  /\ Becomes(r, "done", key.about, key.answer)
  /\ key' = key
  /\ KeyOnly

(* The handler works on.                                                  *)
Goesto(r, from, to) ==
  /\ At(r, from)
  /\ Becomes(r, to, Mine(r), handler[r].says)
  /\ key' = key
  /\ UNCHANGED history

Works(r) ==
  \/ /\ \/ /\ Goesto(r, "check", "register")
           /\ Kind = "deposit" \/ eligible
        \/ /\ Goesto(r, "check", "refuse") \/ Goesto(r, "check", "release")
           /\ Kind # "deposit"
     /\ KeyOnly
  \/ Goesto(r, "register", "create") /\ Register(r)
  \/ Goesto(r, "create", "dispatch") /\ Create(r)
  \/ Goesto(r, "dispatch", "answer") /\ PublishFirst(r)
  \/ \E applied \in BOOLEAN, stage \in { "register", "create", "dispatch" } :
       Goesto(r, stage, "release") /\ ServingFails(r, applied)

(* The answer is stored.                                                  *)
Stores(r) ==
  /\ \/ /\ At(r, "answer")
        /\ key' = Completed(key, "accepted", Mine(r))
        /\ Becomes(r, "stored", Mine(r), "accepted")
     \/ /\ At(r, "refuse")
        /\ key' = Completed(key, "denied", Mine(r))
        /\ Becomes(r, "stored", Mine(r), "denied")
  /\ KeyOnly

(* The handler ends, and no answer is stored.                             *)
EndsUnstored(r) ==
  /\ UNCHANGED << saga, ledger, queues, eligible, history >>
  /\ \/ /\ At(r, "answer") /\ Happens("call")
        /\ key' = key
        /\ Becomes(r, "done", Mine(r), "accepted")
     \/ /\ At(r, "refuse") /\ faults' = faults
        /\ key' = key
        /\ Becomes(r, "done", Mine(r), "denied")
     \/ /\ At(r, "release") /\ faults' = faults
        /\ key' \in { key, Retryable(key) }
        /\ Becomes(r, "done", Mine(r), "retryable")

(* Updating fields of a handler's record.                                 *)
LEMMA HandlerUpdates ==
  ASSUME StartTypeOK, NEW r \in Requests
  PROVE  /\ \A stage : Goes(r, stage) =>
                         Becomes(r, stage, Mine(r), handler[r].says)
         /\ \A stage \in Stages, said \in Responses :
              Ends(r, stage, said) => Becomes(r, stage, Mine(r), said)
         /\ \A stage \in Stages, txn \in Requests :
              handler' = [handler EXCEPT
                            ![r] = [@ EXCEPT !.stage = stage, !.txn = txn]]
              => Becomes(r, stage, txn, handler[r].says)
<1>1. handler \in [Requests -> Handlers] /\ handler[r] \in Handlers
  BY DEF StartTypeOK
<1>e. \A a, b \in Handlers :
        a.stage = b.stage /\ a.txn = b.txn /\ a.says = b.says => a = b
  BY DEF Handlers
<1>2. ASSUME NEW stage
      PROVE  [handler[r] EXCEPT !.stage = stage]
               = [stage |-> stage, txn |-> Mine(r), says |-> handler[r].says]
  BY <1>1 DEF Handlers, Mine
<1>3. ASSUME NEW stage \in Stages, NEW said \in Responses
      PROVE  [handler[r] EXCEPT !.stage = stage, !.says = said]
               = [stage |-> stage, txn |-> Mine(r), says |-> said]
  <2> DEFINE h == [handler[r] EXCEPT !.stage = stage, !.says = said]
             k == [stage |-> stage, txn |-> Mine(r), says |-> said]
  <2>1. h \in Handlers /\ k \in Handlers
    BY <1>1 DEF Handlers, Mine
  <2>2. h.stage = k.stage /\ h.txn = k.txn /\ h.says = k.says
    BY <1>1 DEF Handlers, Mine
  <2> QED
    BY <1>e, <2>1, <2>2
<1>4. ASSUME NEW stage \in Stages, NEW txn \in Requests
      PROVE  [handler[r] EXCEPT !.stage = stage, !.txn = txn]
               = [stage |-> stage, txn |-> txn, says |-> handler[r].says]
  <2> DEFINE h == [handler[r] EXCEPT !.stage = stage, !.txn = txn]
             k == [stage |-> stage, txn |-> txn, says |-> handler[r].says]
  <2>1. h \in Handlers /\ k \in Handlers
    BY <1>1 DEF Handlers
  <2>2. h.stage = k.stage /\ h.txn = k.txn /\ h.says = k.says
    BY <1>1 DEF Handlers
  <2> QED
    BY <1>e, <2>1, <2>2
<1>5. ASSUME NEW stage, Goes(r, stage)
      PROVE  Becomes(r, stage, Mine(r), handler[r].says)
  BY <1>1, <1>2, <1>5 DEF Goes, Becomes
<1>6. ASSUME NEW stage \in Stages, NEW said \in Responses, Ends(r, stage, said)
      PROVE  Becomes(r, stage, Mine(r), said)
  BY <1>1, <1>3, <1>6 DEF Ends, Becomes
<1>7. ASSUME NEW stage \in Stages, NEW txn \in Requests,
             handler' = [handler EXCEPT
                           ![r] = [@ EXCEPT !.stage = stage, !.txn = txn]]
      PROVE  Becomes(r, stage, txn, handler[r].says)
  BY <1>1, <1>4, <1>7 DEF Becomes
<1> QED
  BY <1>5, <1>6, <1>7

(* Every step of a request is of one of these kinds.                      *)
LEMMA RequestShape ==
  ASSUME StartAssumption, StartTypeOK, NEW r \in Requests, RequestNext(r)
  PROVE  \/ Takes(r) \/ TakesInVain(r) \/ TurnedAway(r) \/ Replayed(r)
         \/ Works(r) \/ Stores(r) \/ EndsUnstored(r)
<1> USE DEF Stages, Serving, Responses, Answers
<1>1. CASE Reserve(r)
  BY <1>1, HandlerUpdates, ClaimedIsTyped DEF Reserve, Takes
<1>2. ASSUME NEW applied \in BOOLEAN, ReserveFails(r, applied)
      PROVE  TakesInVain(r)
  <2>1. Becomes(r, "done", Mine(r), "retryable")
    BY <1>2, HandlerUpdates DEF ReserveFails
  <2>2. CASE ReserveFails(r, TRUE)
    BY <2>1, <2>2 DEF ReserveFails, TakesInVain
  <2>3. CASE ReserveFails(r, FALSE)
    BY <2>1, <2>3 DEF ReserveFails, TakesInVain
  <2> QED
    BY <1>2, <2>2, <2>3
<1>3. CASE RefuseReuse(r)
  BY <1>3, HandlerUpdates DEF RefuseReuse, TurnedAway
<1>4. CASE Replay(r)
  BY <1>4 DEF Replay, Replayed, Becomes
<1>5. CASE Check(r)
  <2>1. CASE Kind = "deposit" \/ eligible
    <3>1. Becomes(r, "register", Mine(r), handler[r].says)
      BY <1>5, <2>1, HandlerUpdates DEF Check
    <3> QED
      BY <1>5, <2>1, <3>1 DEF Check, Works, Goesto, KeyOnly
  <2>2. CASE ~ (Kind = "deposit" \/ eligible)
    <3>1. Becomes(r, "refuse", Mine(r), handler[r].says)
      BY <1>5, <2>2, HandlerUpdates DEF Check
    <3> QED
      BY <1>5, <2>2, <3>1 DEF Check, Works, Goesto, KeyOnly
  <2> QED
    BY <2>1, <2>2
<1>6. CASE CheckFails(r)
  <2>1. Becomes(r, "release", Mine(r), handler[r].says)
    BY <1>6, HandlerUpdates DEF CheckFails
  <2> QED
    BY <1>6, <2>1 DEF CheckFails, Works, Goesto, KeyOnly
<1>7. CASE Register(r)
  BY <1>7, HandlerUpdates DEF Register, Works, Goesto
<1>8. CASE Create(r)
  BY <1>8, HandlerUpdates DEF Create, Works, Goesto
<1>9. CASE PublishFirst(r)
  BY <1>9, HandlerUpdates DEF PublishFirst, Works, Goesto
<1>10. ASSUME NEW applied \in BOOLEAN, ServingFails(r, applied)
       PROVE  Works(r)
  <2>1. Becomes(r, "release", Mine(r), handler[r].says)
    BY <1>10, HandlerUpdates DEF ServingFails
  <2> QED
    BY <1>10, <2>1 DEF ServingFails, Works, Goesto, At
<1>11. CASE FinalizeAccepted(r) \/ FinalizeDenied(r)
  BY <1>11, HandlerUpdates DEF FinalizeAccepted, FinalizeDenied, Stores
<1>12. CASE FinalizeFails(r)
  BY <1>12, HandlerUpdates DEF FinalizeFails, EndsUnstored
<1>13. ASSUME NEW marked \in BOOLEAN, Release(r, marked)
       PROVE  EndsUnstored(r)
  BY <1>13, HandlerUpdates DEF Release, EndsUnstored, KeyOnly
<1> QED
  BY <1>1, <1>2, <1>3, <1>4, <1>5, <1>6, <1>7, <1>8, <1>9, <1>10, <1>11,
     <1>12, <1>13
  DEF RequestNext

------------------------------------------------------------------------------
(* The inductive invariant.                                               *)

(* What a request and the key's row look like before they are used.       *)
Beginnings ==
  /\ \A r \in Requests : At(r, "idle") => handler[r] = IdleHandler
  /\ \A r \in InUse : handler[r].says = "none"
  /\ key.state = "absent" => key = NoKey
  /\ key.state = "completed" /\ key.lapsed => "aged" \in history

(* Until a lease is overrun a handler that acts under the key holds it.   *)
Lease ==
  OnTime =>
    \A r \in InUse :
      /\ key.state = "processing"
      /\ ~ key.lapsed
      /\ key.txn = Mine(r)
      /\ key.hash = PayloadOf[r]
      /\ \A s \in InUse : s = r

(* The transactions of the key, of its answer and of the handlers were    *)
(* begun for the payloads that these name.                                *)
Payed ==
  /\ key.state # "absent" => PayloadOf[key.txn] = key.hash
  /\ \A r \in InUse : PayloadOf[Mine(r)] = PayloadOf[r]
  /\ OnTime /\ key.state = "completed" => PayloadOf[key.about] = key.hash
  /\ AnswerIsToThePayload

IsRegistered(t) == ledger[t] # NoRow

HasSaga(t) == saga[t].status # "absent"

(* What a handler has done is there, and so is all that was accepted.     *)
Dispatched ==
  /\ \A r \in Requests :
       /\ handler[r].stage \in { "create", "dispatch", "answer" } =>
            IsRegistered(Mine(r))
       /\ handler[r].stage \in { "dispatch", "answer" } => HasSaga(Mine(r))
       /\ handler[r].stage = "answer" => Mine(r) \in Started
  /\ key.answer = "accepted" =>
       /\ IsRegistered(key.about)
       /\ HasSaga(key.about)
       /\ key.about \in Started
  /\ AcceptedIsDispatched

Served == { r \in Requests : ~ At(r, "idle") /\ handler[r].says # "mismatch" }

OnePayload ==
  "aged" \notin history /\ \A r, s \in Served : PayloadOf[r] = PayloadOf[s]

(* The key names a payload that was served; as long as there is only one, *)
(* every handler acts for the key's transaction.                          *)
OneTransaction ==
  /\ key.state # "absent" => \E r \in Served : PayloadOf[r] = key.hash
  /\ OnePayload => \A t \in Requests : IsRegistered(t) => key.txn = t
  /\ OnePayload => \A r \in InUse : Mine(r) = key.txn

SInv ==
  /\ StartTypeOK
  /\ Beginnings
  /\ Lease
  /\ Payed
  /\ Dispatched
  /\ OneTransaction

(* A request that takes the key joins the handlers that are at work.      *)
LEMMA TakesFacts ==
  ASSUME StartTypeOK, NEW r \in Requests, Takes(r)
  PROVE  /\ handler'[r].stage = "check"
         /\ handler'[r].txn = Claimed(key, r).txn
         /\ handler'[r].says = handler[r].says
         /\ \A s \in Requests : s # r => handler'[s] = handler[s]
         /\ InUse' = InUse \cup { r }
         /\ key' = Claimed(key, r)
         /\ history' = history
<1>1. handler \in [Requests -> Handlers]
  BY DEF StartTypeOK
<1>2. Becomes(r, "check", Claimed(key, r).txn, handler[r].says)
  BY DEF Takes
<1>3. /\ handler'[r] = [stage |-> "check", txn |-> Claimed(key, r).txn,
                        says |-> handler[r].says]
      /\ \A s \in Requests : s # r => handler'[s] = handler[s]
  BY <1>1, <1>2 DEF Becomes
<1> QED
  BY <1>3 DEF InUse, Serving, Takes, KeyOnly

(* A handler that ends leaves those that are at work.                     *)
LEMMA EndingFacts ==
  ASSUME StartTypeOK, NEW r \in Requests, NEW stage \in { "stored", "done" },
         NEW txn, NEW says, Becomes(r, stage, txn, says)
  PROVE  /\ handler'[r].stage = stage
         /\ handler'[r].txn = txn
         /\ handler'[r].says = says
         /\ \A s \in Requests : s # r => handler'[s] = handler[s]
         /\ InUse' = InUse \ { r }
<1>1. handler \in [Requests -> Handlers]
  BY DEF StartTypeOK
<1>2. /\ handler'[r] = [stage |-> stage, txn |-> txn, says |-> says]
      /\ \A s \in Requests : s # r => handler'[s] = handler[s]
  BY <1>1 DEF Becomes
<1>3. stage \notin Serving
  BY DEF Serving
<1> QED
  BY <1>2, <1>3 DEF InUse

(* So it is for a request that is told to come again, ...                 *)
LEMMA InVainFacts ==
  ASSUME StartTypeOK, NEW r \in Requests, TakesInVain(r)
  PROVE  /\ handler'[r].stage = "done"
         /\ handler'[r].txn = Mine(r)
         /\ handler'[r].says = "retryable"
         /\ \A s \in Requests : s # r => handler'[s] = handler[s]
         /\ InUse' = InUse \ { r }
         /\ key' = key \/ (Claimable /\ key' = Claimed(key, r))
         /\ UNCHANGED << saga, ledger, queues, history >>
<1>1. Becomes(r, "done", Mine(r), "retryable")
  BY DEF TakesInVain
<1> QED
  BY <1>1, EndingFacts DEF TakesInVain, KeyOnly

(* ... that is turned away, ...                                           *)
LEMMA TurnedAwayFacts ==
  ASSUME StartTypeOK, NEW r \in Requests, TurnedAway(r)
  PROVE  /\ handler'[r].stage = "done"
         /\ handler'[r].txn = Mine(r)
         /\ handler'[r].says \in { "mismatch", "in_progress" }
         /\ handler'[r].says = "mismatch" => key.hash # PayloadOf[r]
         /\ handler'[r].says = "in_progress" => key.hash = PayloadOf[r]
         /\ \A s \in Requests : s # r => handler'[s] = handler[s]
         /\ InUse' = InUse \ { r }
         /\ UNCHANGED << key, saga, ledger, queues, history >>
<1>1. PICK said \in { "mismatch", "in_progress" } :
        /\ Becomes(r, "done", Mine(r), said)
        /\ said = "mismatch" => key.hash # PayloadOf[r]
        /\ said = "in_progress" => key.hash = PayloadOf[r]
  BY DEF TurnedAway
<1>2. /\ handler'[r].stage = "done"
      /\ handler'[r].txn = Mine(r)
      /\ handler'[r].says = said
      /\ \A s \in Requests : s # r => handler'[s] = handler[s]
      /\ InUse' = InUse \ { r }
  BY <1>1, EndingFacts
<1> QED
  BY <1>1, <1>2 DEF TurnedAway, KeyOnly

(* ... that is given the stored answer, ...                               *)
LEMMA ReplayedFacts ==
  ASSUME StartTypeOK, NEW r \in Requests, Replayed(r)
  PROVE  /\ handler'[r].stage = "done"
         /\ handler'[r].txn = key.about
         /\ handler'[r].says = key.answer
         /\ \A s \in Requests : s # r => handler'[s] = handler[s]
         /\ InUse' = InUse \ { r }
         /\ UNCHANGED << key, saga, ledger, queues, history >>
<1>1. Becomes(r, "done", key.about, key.answer)
  BY DEF Replayed
<1> QED
  BY <1>1, EndingFacts DEF Replayed, KeyOnly

(* ... whose answer is stored, ...                                        *)
LEMMA StoresFacts ==
  ASSUME StartTypeOK, NEW r \in Requests, Stores(r)
  PROVE  \E said \in Answers :
           /\ handler'[r].stage = "stored"
           /\ handler'[r].txn = Mine(r)
           /\ handler'[r].says = said
           /\ key' = Completed(key, said, Mine(r))
           /\ said = "accepted" => At(r, "answer")
           /\ \A s \in Requests : s # r => handler'[s] = handler[s]
           /\ InUse' = InUse \ { r }
           /\ r \in InUse
           /\ UNCHANGED << saga, ledger, queues, history >>
<1>1. PICK said \in Answers :
        /\ Becomes(r, "stored", Mine(r), said)
        /\ key' = Completed(key, said, Mine(r))
        /\ said = "accepted" => At(r, "answer")
  BY DEF Stores, Answers
<1>2. /\ handler'[r].stage = "stored"
      /\ handler'[r].txn = Mine(r)
      /\ handler'[r].says = said
      /\ \A s \in Requests : s # r => handler'[s] = handler[s]
      /\ InUse' = InUse \ { r }
  BY <1>1, EndingFacts
<1>3. r \in InUse
  BY DEF Stores, At, InUse, Serving
<1> QED
  BY <1>1, <1>2, <1>3 DEF Stores, KeyOnly

(* ... or is not.                                                         *)
LEMMA UnstoredFacts ==
  ASSUME StartTypeOK, NEW r \in Requests, EndsUnstored(r)
  PROVE  \E said \in { "accepted", "denied", "retryable" } :
           /\ handler'[r].stage = "done"
           /\ handler'[r].txn = Mine(r)
           /\ handler'[r].says = said
           /\ key' \in { key, Retryable(key) }
           /\ said = "accepted" => At(r, "answer")
           /\ \A s \in Requests : s # r => handler'[s] = handler[s]
           /\ InUse' = InUse \ { r }
           /\ r \in InUse
           /\ UNCHANGED << saga, ledger, queues, history >>
<1>1. PICK said \in { "accepted", "denied", "retryable" } :
        /\ Becomes(r, "done", Mine(r), said)
        /\ key' \in { key, Retryable(key) }
        /\ said = "accepted" => At(r, "answer")
  BY DEF EndsUnstored
<1>2. /\ handler'[r].stage = "done"
      /\ handler'[r].txn = Mine(r)
      /\ handler'[r].says = said
      /\ \A s \in Requests : s # r => handler'[s] = handler[s]
      /\ InUse' = InUse \ { r }
  BY <1>1, EndingFacts
<1>3. r \in InUse
  BY DEF EndsUnstored, At, InUse, Serving
<1> QED
  BY <1>1, <1>2, <1>3 DEF EndsUnstored

(* A row that a request claims.                                           *)
LEMMA ClaimedFacts ==
  ASSUME StartAssumption, StartTypeOK, NEW r \in Requests
  PROVE  LET row == Claimed(key, r) IN
         /\ row.state = "processing" /\ ~ row.lapsed
         /\ row.hash = PayloadOf[r] /\ row.txn \in Requests
         /\ row.answer = "none" /\ row.about = "none"
         /\ \/ row.txn = r /\ ~ (key.state = "processing"
                                 /\ key.hash = PayloadOf[r])
            \/ /\ row.txn = key.txn
               /\ key.state = "processing"
               /\ key.hash = PayloadOf[r]
<1>1. Claimed(key, r).txn = IF key.state = "processing"
                               /\ key.hash = PayloadOf[r]
                            THEN key.txn ELSE r
  BY DEF Claimed
<1> QED
  BY <1>1, ClaimedIsTyped

(* A row with an answer, and a row without, keep payload and transaction. *)
LEMMA RowFacts ==
  ASSUME StartTypeOK, NEW answer, NEW t
  PROVE  /\ Completed(key, answer, t).state = "completed"
         /\ Completed(key, answer, t).hash = key.hash
         /\ Completed(key, answer, t).txn = key.txn
         /\ Completed(key, answer, t).answer = answer
         /\ Completed(key, answer, t).about = t
         /\ ~ Completed(key, answer, t).lapsed
         /\ Retryable(key).state = "processing"
         /\ Retryable(key).hash = key.hash
         /\ Retryable(key).txn = key.txn
         /\ Retryable(key).answer = "none"
         /\ Retryable(key).about = "none"
  BY DEF Completed, Retryable, StartTypeOK, KeyRows

(* A handler that works on stays one; its stage is another.               *)
LEMMA WorksFacts ==
  ASSUME StartTypeOK, NEW r \in Requests, Works(r)
  PROVE  /\ r \in InUse
         /\ InUse' = InUse
         /\ \A s \in Requests : s # r => handler'[s] = handler[s]
         /\ handler'[r].txn = Mine(r)
         /\ handler'[r].says = handler[r].says
         /\ handler'[r].stage \in Serving
         /\ key' = key
         /\ history' = history
<1>1. PICK from \in Serving, to \in Serving : Goesto(r, from, to)
  BY DEF Works, Serving
<1>2. handler \in [Requests -> Handlers]
  BY DEF StartTypeOK
<1>3. Becomes(r, to, Mine(r), handler[r].says)
  BY <1>1 DEF Goesto
<1>4. /\ handler'[r] = [stage |-> to, txn |-> Mine(r), says |-> handler[r].says]
      /\ \A s \in Requests : s # r => handler'[s] = handler[s]
  BY <1>2, <1>3 DEF Becomes
<1>5. r \in InUse
  BY <1>1 DEF Goesto, At, InUse
<1>6. InUse' = InUse
  BY <1>4, <1>5 DEF InUse
<1> QED
  BY <1>1, <1>4, <1>5, <1>6 DEF Goesto

(* While nobody overran a lease, a key that can be claimed is not in use. *)
LEMMA ClaimableIsFree ==
  ASSUME Lease, OnTime, Claimable
  PROVE  InUse = {}
  BY DEF Lease, Claimable

(* What a request and the row look like before they are used is kept.     *)
LEMMA BeginningsStep ==
  ASSUME StartAssumption, SInv, NEW r \in Requests, RequestNext(r)
  PROVE  Beginnings'
<1>1. StartTypeOK /\ Beginnings
  BY DEF SInv
<1>i. \A s \in InUse : s \in Requests /\ ~ At(s, "idle")
  BY DEF InUse, At, Serving
<1>2. CASE Takes(r)
  <2>1. handler[r].says = "none"
    BY <1>1, <1>2 DEF Takes, Beginnings, IdleHandler
  <2>2. /\ handler'[r].stage = "check" /\ handler'[r].says = "none"
        /\ \A s \in Requests : s # r => handler'[s] = handler[s]
        /\ InUse' = InUse \cup { r }
    BY <1>1, <1>2, <2>1, TakesFacts
  <2>3. key'.state = "processing" /\ history' = history
    BY <1>1, <1>2, TakesFacts, ClaimedFacts
  <2> QED
    BY <1>1, <1>i, <2>2, <2>3 DEF Beginnings, At
<1>3. CASE TakesInVain(r)
  <2>1. /\ handler'[r].stage = "done"
        /\ \A s \in Requests : s # r => handler'[s] = handler[s]
        /\ InUse' = InUse \ { r }
        /\ history' = history
    BY <1>1, <1>3, InVainFacts
  <2>2. key' = key \/ key'.state = "processing"
    BY <1>1, <1>3, InVainFacts, ClaimedFacts
  <2> QED
    BY <1>1, <1>i, <2>1, <2>2 DEF Beginnings, At
<1>4. CASE TurnedAway(r)
  <2>1. /\ handler'[r].stage = "done"
        /\ \A s \in Requests : s # r => handler'[s] = handler[s]
        /\ InUse' = InUse \ { r }
        /\ key' = key /\ history' = history
    BY <1>1, <1>4, TurnedAwayFacts
  <2> QED
    BY <1>1, <1>i, <2>1 DEF Beginnings, At
<1>5. CASE Replayed(r)
  BY <1>1, <1>5, <1>i, ReplayedFacts DEF Beginnings, At
<1>6. CASE Works(r)
  <2>1. ~ At(r, "idle")'
    BY <1>1, <1>6, WorksFacts DEF At, Serving
  <2> QED
    BY <1>1, <1>6, <1>i, <2>1, WorksFacts DEF Beginnings, At
<1>7. CASE Stores(r)
  <2>1. /\ handler'[r].stage = "stored"
        /\ \A s \in Requests : s # r => handler'[s] = handler[s]
        /\ InUse' = InUse \ { r }
        /\ history' = history
    BY <1>1, <1>7, StoresFacts
  <2>2. key'.state = "completed" /\ ~ key'.lapsed
    BY <1>1, <1>7, StoresFacts, RowFacts
  <2> QED
    BY <1>1, <1>i, <2>1, <2>2 DEF Beginnings, At
<1>8. CASE EndsUnstored(r)
  <2>1. /\ handler'[r].stage = "done"
        /\ \A s \in Requests : s # r => handler'[s] = handler[s]
        /\ InUse' = InUse \ { r }
        /\ history' = history
    BY <1>1, <1>8, UnstoredFacts
  <2>2. key' = key \/ key'.state = "processing"
    BY <1>1, <1>8, UnstoredFacts, RowFacts
  <2> QED
    BY <1>1, <1>i, <2>1, <2>2 DEF Beginnings, At
<1> QED
  BY <1>1, <1>2, <1>3, <1>4, <1>5, <1>6, <1>7, <1>8, RequestShape

(* A handler holds the key as long as no lease is overrun.                *)
LEMMA LeaseStep ==
  ASSUME StartAssumption, SInv, NEW r \in Requests, RequestNext(r)
  PROVE  Lease'
<1>1. StartTypeOK /\ Lease
  BY DEF SInv
<1>i. \A s \in InUse : s \in Requests
  BY DEF InUse
<1>2. CASE Takes(r)
  <2>1. OnTime => InUse = {}
    BY <1>1, <1>2, ClaimableIsFree DEF Takes
  <2> QED
    <3>1. OnTime => InUse' = { r }
      BY <1>1, <1>2, <2>1, TakesFacts
    <3>2. /\ key'.state = "processing" /\ ~ key'.lapsed
          /\ key'.txn = handler'[r].txn /\ key'.hash = PayloadOf[r]
          /\ history' = history
      BY <1>1, <1>2, TakesFacts, ClaimedFacts
    <3> QED
      BY <3>1, <3>2 DEF Lease, OnTime, Mine
<1>3. CASE TakesInVain(r)
  <2>1. OnTime => key' = key \/ InUse = {}
    BY <1>1, <1>3, ClaimableIsFree DEF TakesInVain
  <2> QED
    BY <1>1, <1>3, <1>i, <2>1, InVainFacts DEF Lease, OnTime, Mine
<1>4. CASE TurnedAway(r)
  BY <1>1, <1>4, <1>i, TurnedAwayFacts DEF Lease, OnTime, Mine
<1>5. CASE Replayed(r)
  BY <1>1, <1>5, <1>i, ReplayedFacts DEF Lease, OnTime, Mine
<1>6. CASE Works(r)
  BY <1>1, <1>6, <1>i, WorksFacts DEF Lease, OnTime, Mine
<1>7. CASE Stores(r)
  <2>1. OnTime => InUse' = {}
    BY <1>1, <1>7, <1>i, StoresFacts DEF Lease
  <2> QED
    BY <1>1, <1>7, <2>1, StoresFacts DEF Lease, OnTime
<1>8. CASE EndsUnstored(r)
  <2>1. OnTime => InUse' = {}
    BY <1>1, <1>8, <1>i, UnstoredFacts DEF Lease
  <2> QED
    BY <1>1, <1>8, <2>1, UnstoredFacts DEF Lease, OnTime
<1> QED
  BY <1>1, <1>2, <1>3, <1>4, <1>5, <1>6, <1>7, <1>8, RequestShape

(* Payloads and transactions stay matched.                                *)
LEMMA PayedStep ==
  ASSUME StartAssumption, SInv, NEW r \in Requests, RequestNext(r)
  PROVE  Payed'
<1>1. StartTypeOK /\ Beginnings /\ Lease /\ Payed
  BY DEF SInv
<1> USE DEF Payed, AnswerIsToThePayload, OnTime, Mine, Answers
<1>i. \A s \in InUse : s \in Requests
  BY DEF InUse
<1>k. PayloadOf[Claimed(key, r).txn] = PayloadOf[r]
  BY <1>1, ClaimedFacts
<1>2. CASE Takes(r)
  <2>1. handler[r].says = "none"
    BY <1>1, <1>2 DEF Takes, Beginnings, IdleHandler, At
  <2> QED
    <3>1. /\ handler'[r].txn = Claimed(key, r).txn
          /\ handler'[r].says = "none"
          /\ \A s \in Requests : s # r => handler'[s] = handler[s]
          /\ InUse' = InUse \cup { r }
      BY <1>1, <1>2, <2>1, TakesFacts
    <3>2. /\ key'.state = "processing" /\ key'.hash = PayloadOf[r]
          /\ key'.txn = Claimed(key, r).txn
          /\ history' = history
      BY <1>1, <1>2, TakesFacts, ClaimedFacts
    <3> QED
      BY <1>1, <1>i, <1>k, <3>1, <3>2
<1>3. CASE TakesInVain(r)
  <2>1. /\ handler'[r].says = "retryable"
        /\ \A s \in Requests : s # r => handler'[s] = handler[s]
        /\ InUse' = InUse \ { r }
        /\ history' = history
    BY <1>1, <1>3, InVainFacts
  <2>2. \/ key' = key
        \/ /\ key'.state = "processing" /\ key'.hash = PayloadOf[r]
           /\ key'.txn = Claimed(key, r).txn
    BY <1>1, <1>3, InVainFacts, ClaimedFacts
  <2> QED
    BY <1>1, <1>i, <1>k, <2>1, <2>2
<1>4. CASE TurnedAway(r)
  <2>1. /\ handler'[r].says \in { "mismatch", "in_progress" }
        /\ \A s \in Requests : s # r => handler'[s] = handler[s]
        /\ InUse' = InUse \ { r }
        /\ history' = history /\ key' = key
    BY <1>1, <1>4, TurnedAwayFacts
  <2> QED
    BY <1>1, <1>i, <2>1
<1>5. CASE Replayed(r)
  BY <1>1, <1>5, <1>i, ReplayedFacts DEF Replayed
<1>6. CASE Works(r)
  BY <1>1, <1>6, <1>i, WorksFacts
<1>7. CASE Stores(r)
  <2>1. r \in InUse
    BY <1>1, <1>7, StoresFacts
  <2>2. OnTime => key.hash = PayloadOf[r]
    BY <1>1, <2>1 DEF Lease
  <2>3. PayloadOf[Mine(r)] = PayloadOf[r] /\ key.state # "absent"
    BY <1>1, <2>1 DEF StartTypeOK
  <2>4. /\ key'.hash = key.hash
        /\ key'.txn = key.txn
        /\ key'.about = Mine(r)
    BY <1>1, <1>7, StoresFacts, RowFacts
  <2>5. /\ handler'[r].txn = Mine(r)
        /\ \A s \in Requests : s # r => handler'[s] = handler[s]
        /\ InUse' = InUse \ { r }
        /\ history' = history
    BY <1>1, <1>7, StoresFacts
  <2> QED
    BY <1>1, <1>i, <2>1, <2>2, <2>3, <2>4, <2>5
<1>8. CASE EndsUnstored(r)
  <2>1. r \in InUse
    BY <1>1, <1>8, UnstoredFacts
  <2>2. PayloadOf[Mine(r)] = PayloadOf[r] /\ key.state # "absent"
    BY <1>1, <2>1 DEF StartTypeOK
  <2>3. \/ key' = key
        \/ /\ key'.hash = key.hash
           /\ key'.txn = key.txn
           /\ key'.state = "processing"
    BY <1>1, <1>8, UnstoredFacts, RowFacts
  <2>4. /\ handler'[r].txn = Mine(r)
        /\ \A s \in Requests : s # r => handler'[s] = handler[s]
        /\ InUse' = InUse \ { r }
        /\ history' = history
    BY <1>1, <1>8, UnstoredFacts
  <2> QED
    BY <1>1, <1>i, <2>1, <2>2, <2>3, <2>4
<1> QED
  BY <1>1, <1>2, <1>3, <1>4, <1>5, <1>6, <1>7, <1>8, RequestShape

(* What a step makes: it takes nothing back, and a handler is at a stage   *)
(* only when what comes before it is done.                                *)
Made(r) ==
  /\ \A t \in Requests :
       /\ IsRegistered(t) => IsRegistered(t)'
       /\ HasSaga(t) => HasSaga(t)'
       /\ t \in Started => t \in Started'
  /\ handler'[r].stage = "create" => ledger'[Mine(r)] # NoRow
  /\ handler'[r].stage = "dispatch" =>
       At(r, "create") /\ saga'[Mine(r)].status # "absent"
  /\ handler'[r].stage = "answer" => At(r, "dispatch") /\ Mine(r) \in Started'

(* The ledger, the sagas or the queues may grow by what the handler does.  *)
LEMMA GrowingMakes ==
  ASSUME StartAssumption, StartTypeOK, NEW r \in Requests, r \in InUse,
         ledger' \in { ledger, [ledger EXCEPT ![Mine(r)] = Registered(@)] },
         saga' \in { saga, [saga EXCEPT ![Mine(r)] = Resumed(@)] },
         queues' \in { queues, Publish(queues, FirstCommand(Kind, Mine(r))) }
  PROVE  \A t \in Requests :
           /\ IsRegistered(t) => IsRegistered(t)'
           /\ HasSaga(t) => HasSaga(t)'
           /\ t \in Started => t \in Started'
<1>1. /\ Mine(r) \in Requests
      /\ ledger \in [Requests -> LedgerRows]
      /\ queues \in StartQueues
      /\ saga \in [Requests -> [status : SagaStatuses \cup { "absent" },
                                 outcome : SagaOutcomes,
                                 step : SagaSteps \cup { "none" }]]
  BY DEF StartTypeOK
<1>2. TAKE t \in Requests
<1>3. ASSUME IsRegistered(t)
      PROVE  IsRegistered(t)'
  <2>1. Registered(ledger[t]) # NoRow
    BY <1>1 DEF Registered, NoRow, LedgerRows
  <2> QED
    BY <1>1, <1>3, <2>1 DEF IsRegistered
<1>4. ASSUME HasSaga(t)
      PROVE  HasSaga(t)'
  BY <1>1, <1>4 DEF HasSaga, Resumed
<1>5. ASSUME t \in Started
      PROVE  t \in Started'
  <2>1. PICK q \in CommandQueues : \E i \in DOMAIN queues[q] : queues[q][i].txn = t
    BY <1>5 DEF Started
  <2>2. PICK i \in DOMAIN queues[q] : queues[q][i].txn = t
    BY <2>1
  <2>3. q \in Queues
    BY DEF Queues
  <2>4. i \in DOMAIN queues'[q] /\ queues'[q][i] = queues[q][i]
    BY <1>1, <2>3, PublishStarts
  <2> QED
    BY <2>2, <2>4 DEF Started
<1> QED
  BY <1>3, <1>4, <1>5

(* A step of a handler makes what its next stage takes for granted.       *)
LEMMA WorkMakes ==
  ASSUME StartAssumption, StartTypeOK, NEW r \in Requests, Works(r)
  PROVE  Made(r)
<1>1. /\ Mine(r) \in Requests /\ r \in InUse
      /\ ledger \in [Requests -> LedgerRows]
      /\ queues \in StartQueues
      /\ saga \in [Requests -> [status : SagaStatuses \cup { "absent" },
                                 outcome : SagaOutcomes,
                                 step : SagaSteps \cup { "none" }]]
      /\ handler \in [Requests -> Handlers]
  BY WorksFacts DEF StartTypeOK
<1>g. ASSUME NEW from, NEW to, Goesto(r, from, to)
      PROVE  handler'[r].stage = to /\ At(r, from)
  BY <1>1, <1>g DEF Goesto, Becomes
<1>2. CASE KeyOnly /\ \E to \in { "register", "refuse", "release" } :
                        Goesto(r, "check", to)
  <2>1. \A t \in Requests :
          /\ IsRegistered(t) => IsRegistered(t)'
          /\ HasSaga(t) => HasSaga(t)'
          /\ t \in Started => t \in Started'
    BY <1>2 DEF KeyOnly, IsRegistered, HasSaga, Started
  <2>2. handler'[r].stage \in { "register", "refuse", "release" }
    BY <1>2, <1>g
  <2> QED
    BY <2>1, <2>2 DEF Made
<1>3. CASE Goesto(r, "register", "create") /\ Register(r)
  <2>1. handler'[r].stage = "create"
    BY <1>3, <1>g
  <2>2. ledger'[Mine(r)] = Registered(ledger[Mine(r)])
    BY <1>1, <1>3 DEF Register
  <2>3. ledger'[Mine(r)] # NoRow
    BY <1>1, <2>2 DEF Registered, NoRow, LedgerRows
  <2> QED
    BY <1>1, <1>3, <2>1, <2>3, GrowingMakes DEF Register, Made
<1>4. CASE Goesto(r, "create", "dispatch") /\ Create(r)
  <2>1. handler'[r].stage = "dispatch" /\ At(r, "create")
    BY <1>4, <1>g
  <2>2. saga'[Mine(r)].status # "absent"
    BY <1>1, <1>4 DEF Create, Resumed
  <2> QED
    BY <1>1, <1>4, <2>1, <2>2, GrowingMakes DEF Create, Made
<1>5. CASE Goesto(r, "dispatch", "answer") /\ PublishFirst(r)
  <2>1. handler'[r].stage = "answer" /\ At(r, "dispatch")
    BY <1>5, <1>g
  <2>2. Mine(r) \in Started'
    <3>1. queues' = Publish(queues, FirstCommand(Kind, Mine(r)))
      BY <1>5 DEF PublishFirst
    <3>2. \E q \in CommandQueues :
            \E i \in DOMAIN queues'[q] : queues'[q][i].txn = Mine(r)
      BY <1>1, <3>1, PublishStarts
    <3> QED
      BY <1>1, <3>2 DEF Started
  <2> QED
    BY <1>1, <1>5, <2>1, <2>2, GrowingMakes DEF PublishFirst, Made
<1>6. ASSUME NEW applied \in BOOLEAN,
             NEW stage \in { "register", "create", "dispatch" },
             Goesto(r, stage, "release"), ServingFails(r, applied)
      PROVE  Made(r)
  <2>1. handler'[r].stage = "release"
    BY <1>6, <1>g
  <2>2. /\ ledger' \in { ledger, [ledger EXCEPT ![Mine(r)] = Registered(@)] }
        /\ saga' \in { saga, [saga EXCEPT ![Mine(r)] = Resumed(@)] }
        /\ queues' \in { queues,
                         Publish(queues, FirstCommand(Kind, Mine(r))) }
    BY <1>6 DEF ServingFails
  <2> QED
    BY <1>1, <2>1, <2>2, GrowingMakes DEF Made
<1> QED
  BY <1>2, <1>3, <1>4, <1>5, <1>6 DEF Works

(* What an accepted client relies on is there.                            *)
LEMMA DispatchedStep ==
  ASSUME StartAssumption, SInv, NEW r \in Requests, RequestNext(r)
  PROVE  Dispatched'
<1>1. StartTypeOK /\ Beginnings /\ Dispatched
  BY DEF SInv
<1>2. CASE UNCHANGED << saga, ledger, queues >>
             /\ (Takes(r) \/ TakesInVain(r) \/ TurnedAway(r) \/ Replayed(r)
                   \/ Stores(r) \/ EndsUnstored(r))
  <2>1. \A s \in Requests : s # r => handler'[s] = handler[s]
    BY <1>1, <1>2, TakesFacts, InVainFacts, TurnedAwayFacts, ReplayedFacts,
       StoresFacts, UnstoredFacts
  <2>2. handler'[r].stage \in { "check", "stored", "done" }
    BY <1>1, <1>2, TakesFacts, InVainFacts, TurnedAwayFacts, ReplayedFacts,
       StoresFacts, UnstoredFacts
  <2>3. handler'[r].says = "accepted" =>
          \/ handler'[r].txn = key.about /\ key.answer = "accepted"
          \/ handler'[r].txn = Mine(r) /\ At(r, "answer")
    <3>1. CASE Takes(r)
      <4>1. handler[r].says = "none"
        BY <1>1, <3>1 DEF Takes, Beginnings, IdleHandler
      <4> QED
        BY <1>1, <3>1, <4>1, TakesFacts
    <3>2. CASE TakesInVain(r) \/ TurnedAway(r) \/ Replayed(r)
      BY <1>1, <3>2, InVainFacts, TurnedAwayFacts, ReplayedFacts
    <3>3. CASE Stores(r)
      BY <1>1, <3>3, StoresFacts
    <3>4. CASE EndsUnstored(r)
      BY <1>1, <3>4, UnstoredFacts
    <3> QED
      BY <1>2, <3>1, <3>2, <3>3, <3>4
  <2>4. key'.answer = "accepted" =>
          \/ key'.about = key.about /\ key.answer = "accepted"
          \/ key'.about = Mine(r) /\ At(r, "answer")
    <3>1. CASE Takes(r) \/ TakesInVain(r)
      BY <1>1, <3>1, TakesFacts, InVainFacts, ClaimedFacts
    <3>2. CASE TurnedAway(r) \/ Replayed(r)
      BY <1>1, <3>2, TurnedAwayFacts, ReplayedFacts
    <3>3. CASE Stores(r)
      BY <1>1, <3>3, StoresFacts, RowFacts
    <3>4. CASE EndsUnstored(r)
      BY <1>1, <3>4, UnstoredFacts, RowFacts
    <3> QED
      BY <1>2, <3>1, <3>2, <3>3, <3>4
  <2>5. \A t : /\ IsRegistered(t)' <=> IsRegistered(t)
               /\ HasSaga(t)' <=> HasSaga(t)
    BY <1>2 DEF IsRegistered, HasSaga
  <2>6. Started' = Started
    BY <1>2 DEF Started
  <2> QED
    BY <1>1, <2>1, <2>2, <2>3, <2>4, <2>5, <2>6
    DEF Dispatched, AcceptedIsDispatched, At, Mine, IsRegistered, HasSaga
<1>3. CASE Works(r)
  <2>1. Made(r)
    BY <1>1, <1>3, WorkMakes
  <2>2. r \in InUse /\ handler[r].says = "none" /\ Mine(r) \in Requests
    BY <1>1, <1>3, WorksFacts DEF Beginnings, StartTypeOK
  <2>3. /\ \A s \in Requests : s # r => handler'[s] = handler[s]
        /\ handler'[r].txn = Mine(r)
        /\ handler'[r].says = "none"
        /\ key' = key
    BY <1>1, <1>3, <2>2, WorksFacts
  <2>4. \A s \in Requests :
          /\ handler'[s].stage \in { "create", "dispatch", "answer" } =>
               IsRegistered(Mine(s))'
          /\ handler'[s].stage \in { "dispatch", "answer" } => HasSaga(Mine(s))'
          /\ handler'[s].stage = "answer" => Mine(s)' \in Started'
    <3>1. TAKE s \in Requests
    <3>2. CASE s = r
      BY <1>1, <2>1, <2>2, <2>3, <3>2
      DEF Made, Dispatched, At, Mine, IsRegistered, HasSaga
    <3>3. CASE s # r
      <4>1. handler'[s] = handler[s]
        BY <2>3, <3>3
      <4>2. handler[s].stage \in Serving => Mine(s) \in Requests
        BY <1>1 DEF StartTypeOK, InUse
      <4> QED
        BY <1>1, <2>1, <4>1, <4>2
        DEF Made, Dispatched, Mine, IsRegistered, HasSaga, Serving
    <3> QED
      BY <3>2, <3>3
  <2>5. key.answer = "accepted" => key.about \in Requests
    BY <1>1 DEF StartTypeOK, KeyRows
  <2>6. \A s \in Requests : handler[s].says = "accepted" => Mine(s) \in Requests
    BY <1>1 DEF Dispatched, AcceptedIsDispatched, Started
  <2>7. AcceptedIsDispatched'
    BY <1>1, <2>1, <2>3, <2>6
    DEF Made, Dispatched, AcceptedIsDispatched, Mine, IsRegistered, HasSaga
  <2> QED
    BY <1>1, <2>1, <2>3, <2>4, <2>5, <2>7
    DEF Made, Dispatched, IsRegistered, HasSaga, At
<1> QED
  BY <1>1, <1>2, <1>3, RequestShape
  DEF Takes, TakesInVain, TurnedAway, Replayed, Stores, EndsUnstored, KeyOnly

(* Whoever was served stays so, and payloads do not become fewer.         *)
LEMMA ServedGrows ==
  ASSUME StartAssumption, SInv, NEW r \in Requests, RequestNext(r)
  PROVE  /\ Served \subseteq Served'
         /\ OnePayload' => OnePayload
         /\ history' = history
<1>1. StartTypeOK
  BY DEF SInv
<1>2. /\ \A s \in Requests : s # r => handler'[s] = handler[s]
      /\ history' = history
  BY <1>1, RequestShape, TakesFacts, InVainFacts, TurnedAwayFacts,
     ReplayedFacts, WorksFacts, StoresFacts, UnstoredFacts
<1>3. r \in Served => r \in Served'
  <2>1. CASE At(r, "idle")
    BY <2>1 DEF Served
  <2>2. CASE Works(r)
    BY <1>1, <2>2, WorksFacts DEF Served, At, Serving
  <2>3. CASE Stores(r)
    BY <1>1, <2>3, StoresFacts DEF Served, At, Answers
  <2>4. CASE EndsUnstored(r)
    BY <1>1, <2>4, UnstoredFacts DEF Served, At
  <2> QED
    BY <1>1, <2>1, <2>2, <2>3, <2>4, RequestShape
    DEF Takes, TakesInVain, TurnedAway, Replayed
<1>4. Served \subseteq Served'
  BY <1>2, <1>3 DEF Served, At
<1> QED
  BY <1>2, <1>4 DEF OnePayload

(* Claiming the key for the one payload there is keeps its transaction.   *)
LEMMA ClaimedIsTheOne ==
  ASSUME StartAssumption, SInv, NEW r \in Requests, Claimable, OnePayload,
         \A s \in Served : PayloadOf[s] = PayloadOf[r]
  PROVE  /\ \A t \in Requests : IsRegistered(t) => Claimed(key, r).txn = t
         /\ \A s \in InUse : Mine(s) = Claimed(key, r).txn
<1>1. StartTypeOK /\ Beginnings /\ OneTransaction
  BY DEF SInv
<1>2. CASE key.state = "absent"
  <2>1. key.txn = "none" /\ "none" \notin Requests
    BY <1>1, <1>2 DEF Beginnings, NoKey, StartAssumption
  <2>2. InUse = {}
    BY <1>1, <1>2 DEF StartTypeOK
  <2> QED
    BY <1>1, <2>1, <2>2 DEF OneTransaction
<1>3. CASE key.state # "absent"
  <2>1. key.hash = PayloadOf[r]
    BY <1>1, <1>3 DEF OneTransaction
  <2>2. key.state = "processing"
    <3>1. key.state \in { "processing", "completed" } /\ key.lapsed
      BY <1>1, <1>3 DEF StartTypeOK, KeyRows, Claimable
    <3> QED
      BY <1>1, <3>1 DEF Beginnings, OnePayload
  <2>3. Claimed(key, r).txn = key.txn
    BY <2>1, <2>2 DEF Claimed
  <2> QED
    BY <1>1, <2>3 DEF OneTransaction
<1> QED
  BY <1>2, <1>3

(* A step registers nothing but the transaction of its handler.           *)
LEMMA RegistersMine ==
  ASSUME StartAssumption, StartTypeOK, NEW r \in Requests, RequestNext(r), NEW t \in Requests,
         IsRegistered(t)'
  PROVE  IsRegistered(t) \/ (Works(r) /\ t = Mine(r))
<1>1. ledger \in [Requests -> LedgerRows]
  BY DEF StartTypeOK
<1>2. CASE ledger' = ledger
  BY <1>2 DEF IsRegistered
<1>3. CASE Works(r) /\ ledger' = [ledger EXCEPT ![Mine(r)] = Registered(@)]
  BY <1>1, <1>3 DEF IsRegistered
<1>4. \/ ledger' = ledger
      \/ ledger' = [ledger EXCEPT ![Mine(r)] = Registered(@)]
  BY DEF RequestNext, Reserve, ReserveFails, ServingFails, RefuseReuse, Replay,
     Check, CheckFails, Register, Create, PublishFirst, FinalizeAccepted,
     FinalizeDenied, FinalizeFails, Release, KeyOnly
<1> QED
  BY <1>2, <1>3, <1>4, RequestShape
  DEF Takes, TakesInVain, TurnedAway, Replayed, Stores, EndsUnstored, KeyOnly

(* As long as there is one payload there is one transaction.              *)
LEMMA OneTransactionStep ==
  ASSUME StartAssumption, SInv, NEW r \in Requests, RequestNext(r)
  PROVE  OneTransaction'
<1>1. StartTypeOK /\ Beginnings /\ OneTransaction
  BY DEF SInv
<1>2. /\ Served \subseteq Served'
      /\ OnePayload' => OnePayload
  BY ServedGrows
<1>3. \A t \in Requests :
        IsRegistered(t)' => IsRegistered(t) \/ (Works(r) /\ t = Mine(r))
  BY <1>1, RegistersMine
<1>i. \A s \in InUse : s \in Requests
  BY DEF InUse
<1>4. CASE Takes(r) \/ TakesInVain(r)
  <2>1. /\ key' = key \/ (Claimable /\ key' = Claimed(key, r))
        /\ ledger' = ledger
        /\ \A s \in Requests : s # r => handler'[s] = handler[s]
        /\ Takes(r) => /\ InUse' = InUse \cup { r }
                       /\ key' = Claimed(key, r)
                       /\ handler'[r].txn = Claimed(key, r).txn
        /\ TakesInVain(r) => InUse' = InUse \ { r }
    BY <1>1, <1>4, TakesFacts, InVainFacts DEF Takes, TakesInVain, KeyOnly
  <2>2. r \in Served'
    <3>1. CASE Takes(r)
      <4>1. handler[r].says = "none"
        BY <1>1, <3>1 DEF Takes, Beginnings, IdleHandler
      <4> QED
        BY <1>1, <3>1, <4>1, TakesFacts DEF Served, At
    <3>2. CASE TakesInVain(r)
      BY <1>1, <3>2, InVainFacts DEF Served, At
    <3> QED
      BY <1>4, <3>1, <3>2
  <2>3. key'.state # "absent" => \E s \in Served' : PayloadOf[s] = key'.hash
    <3>1. CASE key' = key
      BY <1>1, <1>2, <3>1 DEF OneTransaction
    <3>2. CASE key' = Claimed(key, r)
      BY <1>1, <2>2, <3>2, ClaimedFacts
    <3> QED
      BY <2>1, <3>1, <3>2
  <2>4. ASSUME OnePayload'
        PROVE  /\ \A t \in Requests : IsRegistered(t)' => key'.txn = t
               /\ \A s \in InUse' : handler'[s].txn = key'.txn
    <3>1. OnePayload /\ \A s \in Served : PayloadOf[s] = PayloadOf[r]
      BY <1>2, <2>2, <2>4 DEF OnePayload
    <3>2. Claimable =>
            /\ \A t \in Requests : IsRegistered(t) => Claimed(key, r).txn = t
            /\ \A s \in InUse : Mine(s) = Claimed(key, r).txn
      BY <3>1, ClaimedIsTheOne
    <3>3. /\ \A t \in Requests : IsRegistered(t) => key'.txn = t
          /\ \A s \in InUse : Mine(s) = key'.txn
      BY <1>1, <2>1, <3>1, <3>2 DEF OneTransaction
    <3>4. \A s \in InUse' : handler'[s].txn = key'.txn
      BY <1>4, <1>i, <2>1, <3>3 DEF Mine
    <3> QED
      BY <2>1, <3>3, <3>4 DEF IsRegistered
  <2> QED
    BY <2>3, <2>4 DEF OneTransaction, Mine
<1>5. CASE TurnedAway(r) \/ Replayed(r) \/ Stores(r) \/ EndsUnstored(r)
  <2>1. /\ ledger' = ledger
        /\ \A s \in Requests : s # r => handler'[s] = handler[s]
        /\ InUse' = InUse \ { r }
    BY <1>1, <1>5, TurnedAwayFacts, ReplayedFacts, StoresFacts, UnstoredFacts
  <2>2. key'.txn = key.txn /\ key'.hash = key.hash
    <3>1. CASE TurnedAway(r) \/ Replayed(r)
      BY <1>1, <3>1, TurnedAwayFacts, ReplayedFacts
    <3>2. CASE Stores(r)
      BY <1>1, <3>2, StoresFacts, RowFacts
    <3>3. CASE EndsUnstored(r)
      BY <1>1, <3>3, UnstoredFacts, RowFacts
    <3> QED
      BY <1>5, <3>1, <3>2, <3>3
  <2>3. key'.state # "absent" => key.state # "absent"
    <3>1. CASE TurnedAway(r) \/ Replayed(r)
      BY <1>1, <3>1, TurnedAwayFacts, ReplayedFacts
    <3>2. CASE Stores(r) \/ EndsUnstored(r)
      BY <1>1, <3>2, StoresFacts, UnstoredFacts DEF StartTypeOK
    <3> QED
      BY <1>5, <3>1, <3>2
  <2>4. \A s \in InUse' : s \in InUse /\ handler'[s] = handler[s]
    BY <1>i, <2>1
  <2> QED
    BY <1>1, <1>2, <2>1, <2>2, <2>3, <2>4 DEF OneTransaction, IsRegistered, Mine
<1>6. CASE Works(r)
  <2>1. /\ r \in InUse /\ InUse' = InUse /\ key' = key
        /\ \A s \in InUse : handler'[s].txn = Mine(s)
    BY <1>1, <1>6, <1>i, WorksFacts DEF Mine
  <2>2. OnePayload => Mine(r) = key.txn
    BY <1>1, <2>1 DEF OneTransaction
  <2>3. OnePayload' => \A t \in Requests : IsRegistered(t)' => key'.txn = t
    BY <1>1, <1>2, <1>3, <2>1, <2>2 DEF OneTransaction
  <2>4. OnePayload' => \A s \in InUse' : Mine(s)' = key'.txn
    BY <1>1, <1>2, <2>1 DEF OneTransaction, Mine
  <2>5. key'.state # "absent" => \E s \in Served' : PayloadOf[s] = key'.hash
    BY <1>1, <1>2, <2>1 DEF OneTransaction
  <2> QED
    BY <2>3, <2>4, <2>5 DEF OneTransaction
<1> QED
  BY <1>1, <1>4, <1>5, <1>6, RequestShape

------------------------------------------------------------------------------
(* The clock, the crash and the rest of the system.                       *)

(* The key's row grows old or a lease lapses: the handlers are not touched.*)
LEMMA AgeingStep ==
  ASSUME SInv, AnswerExpires \/ LeaseLapses \/ LeaseOverrun
  PROVE  Beginnings' /\ Lease' /\ Payed' /\ Dispatched' /\ OneTransaction'
<1>1. StartTypeOK /\ Beginnings /\ Lease /\ Payed /\ Dispatched /\ OneTransaction
  BY DEF SInv
<1>2. /\ UNCHANGED << handler, saga, ledger, queues >>
      /\ key' = [key EXCEPT !.lapsed = TRUE]
      /\ key.state # "absent"
      /\ history \subseteq history'
  BY DEF AnswerExpires, LeaseLapses, LeaseOverrun, KeyOnly
<1>3. /\ key'.state = key.state /\ key'.txn = key.txn /\ key'.hash = key.hash
      /\ key'.answer = key.answer /\ key'.about = key.about
  BY <1>1, <1>2 DEF StartTypeOK, KeyRows
<1>4. InUse' = InUse
  BY <1>2 DEF InUse
<1>5. Beginnings'
  <2>1. key.state = "completed" => "aged" \in history'
    BY DEF AnswerExpires, LeaseLapses, LeaseOverrun
  <2> QED
    BY <1>1, <1>2, <1>3, <1>4, <2>1 DEF Beginnings, At
<1>6. Lease'
  <2>1. OnTime' => OnTime /\ InUse = {}
    BY <1>1 DEF AnswerExpires, LeaseLapses, LeaseOverrun, KeyOnly, OnTime, Lease
  <2> QED
    BY <1>4, <2>1 DEF Lease
<1>7. Payed'
  <2>1. OnTime' => OnTime
    BY <1>2 DEF OnTime
  <2> QED
    BY <1>1, <1>2, <1>3, <1>4, <2>1 DEF Payed, AnswerIsToThePayload, Mine
<1>8. Dispatched'
  BY <1>1, <1>2, <1>3
  DEF Dispatched, AcceptedIsDispatched, IsRegistered, HasSaga, Started, Mine, At
<1>9. OneTransaction'
  <2>1. Served' = Served /\ (OnePayload' => OnePayload)
    BY <1>2 DEF Served, At, OnePayload
  <2> QED
    BY <1>1, <1>2, <1>3, <1>4, <2>1 DEF OneTransaction, IsRegistered, Mine
<1> QED
  BY <1>5, <1>6, <1>7, <1>8, <1>9

(* A crash ends the handlers that are at work, ...                        *)
LEMMA CrashFacts ==
  ASSUME StartTypeOK, ProcessDies
  PROVE  \A r \in Requests :
           \/ r \notin InUse /\ handler'[r] = handler[r]
           \/ /\ r \in InUse /\ handler'[r].stage = "done"
              /\ handler'[r].says = "lost" /\ handler'[r].txn = Mine(r)
<1>1. \A r \in Requests :
        handler'[r] = IF r \in InUse
                      THEN [handler[r] EXCEPT !.stage = "done", !.says = "lost"]
                      ELSE handler[r]
  BY DEF ProcessDies
<1>2. \A r \in Requests : handler[r] \in Handlers
  BY DEF StartTypeOK
<1> QED BY <1>1, <1>2 DEF Handlers, Mine

(* ... and keeps the invariant.                                           *)
LEMMA CrashStep ==
  ASSUME SInv, ProcessDies
  PROVE  Beginnings' /\ Lease' /\ Payed' /\ Dispatched' /\ OneTransaction'
<1>1. StartTypeOK /\ Beginnings /\ Lease /\ Payed /\ Dispatched /\ OneTransaction
  BY DEF SInv
<1>2. UNCHANGED << key, saga, ledger, queues, eligible, history >>
  BY DEF ProcessDies
<1>3. \A r \in Requests :
        \/ r \notin InUse /\ handler'[r] = handler[r]
        \/ /\ r \in InUse /\ handler'[r].stage = "done"
           /\ handler'[r].says = "lost" /\ handler'[r].txn = Mine(r)
  BY <1>1, CrashFacts
<1>4. InUse' = {}
  BY <1>3 DEF InUse, Serving
<1>5. Beginnings'
  BY <1>1, <1>2, <1>3, <1>4 DEF Beginnings, At
<1>6. Lease'
  BY <1>4 DEF Lease
<1>7. Payed'
  BY <1>1, <1>2, <1>3, <1>4
  DEF Payed, AnswerIsToThePayload, OnTime, Mine, Answers
<1>8. Dispatched'
  BY <1>1, <1>2, <1>3
  DEF Dispatched, AcceptedIsDispatched, IsRegistered, HasSaga, Started, Mine, At
<1>9. OneTransaction'
  <2>1. Served \subseteq Served'
    BY <1>3 DEF Served, At
  <2>2. OnePayload' => OnePayload
    BY <1>2, <2>1 DEF OnePayload
  <2> QED
    BY <1>1, <1>2, <1>4, <2>1, <2>2 DEF OneTransaction, IsRegistered
<1> QED
  BY <1>5, <1>6, <1>7, <1>8, <1>9

(* Every step keeps the invariant.                                        *)
LEMMA SInvStep ==
  ASSUME StartAssumption, SInv, [StartCommandsNext]_startVars
  PROVE  SInv'
<1>1. StartTypeOK'
  BY StartTypeStep DEF SInv
<1>2. ASSUME NEW r \in Requests, RequestNext(r)
      PROVE  SInv'
  BY <1>1, <1>2, BeginningsStep, LeaseStep, PayedStep, DispatchedStep,
     OneTransactionStep DEF SInv
<1>3. CASE AnswerExpires \/ LeaseLapses \/ LeaseOverrun
  BY <1>1, <1>3, AgeingStep DEF SInv
<1>4. CASE ProcessDies
  BY <1>1, <1>4, CrashStep DEF SInv
<1>5. CASE TakesEffect \/ UNCHANGED startVars
  <2>1. UNCHANGED << key, handler, saga, ledger, queues, history >>
    BY <1>5 DEF TakesEffect, startVars
  <2>2. Beginnings'
    BY <2>1 DEF SInv, Beginnings, InUse, At
  <2>3. Lease'
    BY <2>1 DEF SInv, Lease, InUse, Mine, OnTime
  <2>4. Payed'
    BY <2>1 DEF SInv, Payed, AnswerIsToThePayload, InUse, Mine, OnTime
  <2>5. Dispatched'
    BY <2>1 DEF SInv, Dispatched, AcceptedIsDispatched, IsRegistered, HasSaga,
                Started, Mine, At
  <2>6. OneTransaction'
    BY <2>1 DEF SInv, OneTransaction, OnePayload, Served, InUse, Mine, At,
                IsRegistered
  <2> QED
    BY <1>1, <2>2, <2>3, <2>4, <2>5, <2>6 DEF SInv
<1> QED
  BY <1>2, <1>3, <1>4, <1>5 DEF StartCommandsNext

(* The inductive invariant holds at first.                                *)
LEMMA SInvInit ==
  ASSUME StartInit
  PROVE  SInv
<1>1. StartTypeOK
  BY StartAssumption, StartTypeInit
<1>2. \A r \in Requests : handler[r] = IdleHandler
  BY DEF StartInit
<1>3. InUse = {} /\ Served = {}
  BY <1>2 DEF InUse, Served, At, Serving, IdleHandler
<1>4. key = NoKey /\ \A t \in Requests : ledger[t] = NoRow
  BY DEF StartInit
<1>5. Beginnings
  BY <1>2, <1>3, <1>4 DEF Beginnings, NoKey
<1>6. Lease
  BY <1>3 DEF Lease
<1>7. Payed
  BY <1>2, <1>3, <1>4
  DEF Payed, AnswerIsToThePayload, NoKey, IdleHandler, Answers
<1>8. Dispatched
  BY <1>2, <1>4 DEF Dispatched, AcceptedIsDispatched, NoKey, IdleHandler
<1>9. OneTransaction
  BY <1>3, <1>4 DEF OneTransaction, NoKey, IsRegistered
<1> QED
  BY <1>1, <1>5, <1>6, <1>7, <1>8, <1>9 DEF SInv

(* The inductive invariant holds in every reachable state.                *)
THEOREM SInvHolds == StartCommandsSpec => []SInv
<1>1. StartInit => SInv
  BY SInvInit
<1>2. SInv /\ [StartCommandsNext]_startVars => SInv'
  BY StartAssumption, SInvStep
<1> QED BY <1>1, <1>2, PTL DEF StartCommandsSpec

(* What a client was promised with 202 is there: the row, the saga and    *)
(* the first command of its transaction.                                  *)
THEOREM AcceptedHasEverything == StartCommandsSpec => []AcceptedIsDispatched
<1>1. SInv => AcceptedIsDispatched
  BY DEF SInv, Dispatched
<1> QED BY <1>1, SInvHolds, PTL

(* Repetitions of a request register one transaction.                     *)
THEOREM RepetitionsAreOne == StartCommandsSpec => []OneTransactionPerPayload
<1>1. SInv => OneTransactionPerPayload
  <2> SUFFICES ASSUME SInv, OnePayload
               PROVE  \A t, u \in Requests :
                        ledger[t] # NoRow /\ ledger[u] # NoRow => t = u
    BY DEF OneTransactionPerPayload, OnePayload, Served
  <2>1. \A t \in Requests : ledger[t] # NoRow => key.txn = t
    BY DEF SInv, OneTransaction, IsRegistered
  <2> QED BY <2>1
<1> QED BY <1>1, SInvHolds, PTL

(* An answer is about a transaction begun for the client's own payload.   *)
THEOREM AnswersMatchPayloads == StartCommandsSpec => []AnswerIsToThePayload
<1>1. SInv => AnswerIsToThePayload
  BY DEF SInv, Payed
<1> QED BY <1>1, SInvHolds, PTL

(* One handler acts under the key at a time, until a lease is overrun.    *)
THEOREM HandlersAreAlone == StartCommandsSpec => []OneHandlerPerTransaction
<1>1. SInv => OneHandlerPerTransaction
  BY DEF SInv, Lease, OneHandlerPerTransaction
<1> QED BY <1>1, SInvHolds, PTL

(* No handler overwrites a stored answer that has not expired.            *)
THEOREM StoredAnswersStay == StartCommandsSpec => StoredAnswerIsFinal
<1>1. ASSUME SInv, [StartCommandsNext]_startVars, OnTime,
             key.state = "completed", ~ key.lapsed
      PROVE  key' \in { key, [key EXCEPT !.lapsed = TRUE] }
  <2>1. StartTypeOK /\ InUse = {}
    BY <1>1 DEF SInv, Lease
  <2>2. ~ Claimable
    BY <1>1 DEF Claimable
  <2>3. ASSUME NEW r \in Requests, RequestNext(r)
        PROVE  key' = key
    <3>1. TakesInVain(r) \/ TurnedAway(r) \/ Replayed(r)
      BY <2>1, <2>2, <2>3, StartAssumption, RequestShape, WorksFacts,
         StoresFacts, UnstoredFacts DEF Takes
    <3> QED
      BY <2>2, <3>1 DEF TakesInVain, TurnedAway, Replayed
  <2> QED
    BY <1>1, <2>3
    DEF StartCommandsNext, AnswerExpires, LeaseLapses, LeaseOverrun,
        ProcessDies, TakesEffect, startVars
<1> QED BY <1>1, SInvHolds, PTL DEF StartCommandsSpec, StoredAnswerIsFinal

------------------------------------------------------------------------------
(***************************************************************************)
(* The refinement.  Seen by a transaction the many handlers are one, whose *)
(* stage is StageOf: first what that is before and after a step, then what *)
(* must be invariant, then each kind of step.                              *)
(***************************************************************************)

Reserved == { "register", "create", "dispatch", "answer" }

(* StageOf, and what it is made of, for any function of handlers.         *)
WorkingIn(h, t) ==
  { r \in Requests : h[r].stage \in Reserved /\ h[r].txn = t }

StoredIn(h, t, answer) ==
  \E r \in Requests :
    h[r].stage = "stored" /\ h[r].txn = t /\ h[r].says = answer

StageIn(h, t) ==
  CASE WorkingIn(h, t) # {} -> h[CHOOSE r \in WorkingIn(h, t) : TRUE].stage
    [] WorkingIn(h, t) = {} /\ StoredIn(h, t, "accepted") -> "accepted"
    [] WorkingIn(h, t) = {} /\ ~ StoredIn(h, t, "accepted")
         /\ StoredIn(h, t, "denied") -> "denied"
    [] OTHER -> "new"

LEMMA StageOfIsStageIn ==
  ASSUME handler \in [Requests -> Handlers], NEW t \in Requests
  PROVE  StageOf(t) = StageIn(handler, t)
<1>1. Working(t) = WorkingIn(handler, t)
  BY DEF Working, WorkingIn, Reserved, Mine
<1>2. ASSUME NEW answer \in Answers
      PROVE  Stored(t, answer) <=> StoredIn(handler, t, answer)
  <2>1. ASSUME NEW r \in Requests
        PROVE  handler[r] = [stage |-> "stored", txn |-> t, says |-> answer]
                 <=> /\ handler[r].stage = "stored"
                     /\ handler[r].txn = t
                     /\ handler[r].says = answer
    <3>1. handler[r] \in Handlers
      OBVIOUS
    <3> QED BY <3>1 DEF Handlers
  <2> QED BY <2>1 DEF Stored, StoredIn
<1> QED BY <1>1, <1>2 DEF StageOf, StageIn, Answers

LEMMA StageOfIsStageInNext ==
  ASSUME handler' \in [Requests -> Handlers], NEW t \in Requests
  PROVE  StageOf(t)' = StageIn(handler', t)
<1>1. Working(t)' = WorkingIn(handler', t)
  BY DEF Working, WorkingIn, Reserved, Mine
<1>2. ASSUME NEW answer \in Answers
      PROVE  Stored(t, answer)' <=> StoredIn(handler', t, answer)
  <2>1. ASSUME NEW r \in Requests
        PROVE  handler'[r] = [stage |-> "stored", txn |-> t, says |-> answer]
                 <=> /\ handler'[r].stage = "stored"
                     /\ handler'[r].txn = t
                     /\ handler'[r].says = answer
    <3>1. handler'[r] \in Handlers
      OBVIOUS
    <3> QED BY <3>1 DEF Handlers
  <2> QED BY <2>1 DEF Stored, StoredIn
<1> QED BY <1>1, <1>2 DEF StageOf, StageIn, Answers

(* The stage is that of the one handler at work, or the stored answer.    *)
LEMMA StageFacts ==
  ASSUME NEW h, NEW t
  PROVE  /\ \A r \in WorkingIn(h, t) :
              (\A s \in WorkingIn(h, t) : s = r) =>
                StageIn(h, t) = h[r].stage
         /\ WorkingIn(h, t) = {} =>
              StageIn(h, t) = IF StoredIn(h, t, "accepted") THEN "accepted"
                              ELSE IF StoredIn(h, t, "denied") THEN "denied"
                              ELSE "new"
<1>1. ASSUME NEW r \in WorkingIn(h, t), \A s \in WorkingIn(h, t) : s = r
      PROVE  StageIn(h, t) = h[r].stage
  <2> DEFINE w == CHOOSE s \in WorkingIn(h, t) : TRUE
  <2>1. w \in WorkingIn(h, t)
    BY <1>1
  <2>2. w = r
    BY <1>1, <2>1
  <2>3. StageIn(h, t) = h[w].stage
    BY <1>1 DEF StageIn
  <2> QED BY <2>2, <2>3
<1>2. ASSUME WorkingIn(h, t) = {}
      PROVE  StageIn(h, t) = IF StoredIn(h, t, "accepted") THEN "accepted"
                             ELSE IF StoredIn(h, t, "denied") THEN "denied"
                             ELSE "new"
  BY <1>2 DEF StageIn
<1> QED BY <1>1, <1>2

(* No two handlers act in h.                                              *)
Alone(h) ==
  \A r, s \in Requests :
    h[r].stage \in Serving /\ h[s].stage \in Serving => r = s

(* A transaction whose handlers do not change keeps its stage.            *)
LEMMA StageIsKept ==
  ASSUME NEW h, NEW k, Alone(h), Alone(k), NEW t,
         \A r \in Requests :
           \/ k[r] = h[r]
           \/ /\ h[r].txn = t => h[r].stage \notin Reserved \cup { "stored" }
              /\ k[r].txn = t => k[r].stage \notin Reserved \cup { "stored" }
  PROVE  StageIn(k, t) = StageIn(h, t)
<1>1. WorkingIn(k, t) = WorkingIn(h, t)
  BY DEF WorkingIn
<1>2. \A answer : StoredIn(k, t, answer) <=> StoredIn(h, t, answer)
  BY DEF StoredIn
<1>3. CASE WorkingIn(h, t) = {}
  BY <1>1, <1>2, <1>3, StageFacts
<1>4. ASSUME NEW r \in WorkingIn(h, t)
      PROVE  StageIn(k, t) = StageIn(h, t)
  <2>1. /\ \A s \in WorkingIn(h, t) : s = r
        /\ \A s \in WorkingIn(k, t) : s = r
    BY <1>1 DEF WorkingIn, Alone, Reserved, Serving
  <2>2. k[r] = h[r]
    BY DEF WorkingIn
  <2> QED BY <1>1, <2>1, <2>2, StageFacts
<1> QED BY <1>3, <1>4

(* The stage of the transaction that the only handler has.                *)
LEMMA StageOfMine ==
  ASSUME NEW h, NEW r \in Requests, NEW t, h[r].txn = t,
         \A s \in Requests : h[s].stage \in Serving => s = r,
         \A s \in Requests \ { r } : h[s].stage = "stored" => h[s].txn # t
  PROVE  /\ h[r].stage \in Reserved => StageIn(h, t) = h[r].stage
         /\ h[r].stage = "stored" /\ h[r].says \in Answers =>
              StageIn(h, t) = h[r].says
         /\ h[r].stage \notin Reserved \cup { "stored" } =>
              StageIn(h, t) = "new"
<1>1. \A s \in WorkingIn(h, t) : s = r
  BY DEF WorkingIn, Reserved, Serving
<1>2. CASE h[r].stage \in Reserved
  <2>1. r \in WorkingIn(h, t)
    BY <1>2 DEF WorkingIn
  <2> QED BY <1>1, <1>2, <2>1, StageFacts DEF Reserved
<1>3. CASE h[r].stage \notin Reserved
  <2>1. WorkingIn(h, t) = {}
    BY <1>1, <1>3 DEF WorkingIn
  <2>2. \A answer : StoredIn(h, t, answer) <=>
                      h[r].stage = "stored" /\ h[r].says = answer
    BY DEF StoredIn
  <2> QED BY <1>3, <2>1, <2>2, StageFacts DEF Answers
<1> QED BY <1>2, <1>3

------------------------------------------------------------------------------
(* The invariant of the refinement.                                       *)

(* A transaction id that no request has brought yet is new to everyone,   *)
(* and one that the key may hand out again has no answer stored.          *)
Unused ==
  \A r \in Requests :
    At(r, "idle") => /\ key.txn # r
                     /\ key.about # r
                     /\ \A s \in Requests : Mine(s) # r

Unstored ==
  OnTime /\ key.state = "processing" =>
    \A r \in Requests : At(r, "stored") => Mine(r) # key.txn

(* A deposit is never refused.                                            *)
Refusing == \A r \in Requests : At(r, "refuse") => Kind # "deposit"

RInv == SInv /\ Unused /\ Unstored /\ Refusing

(* The transaction ids that a step of a request deals with are known: the *)
(* key's, the handler's, and the one the request brought.                 *)
LEMMA IdsAreKnown ==
  ASSUME StartAssumption, StartTypeOK, NEW r \in Requests, RequestNext(r)
  PROVE  /\ handler'[r].stage # "idle"
         /\ \A s \in Requests : s # r => handler'[s] = handler[s]
         /\ key'.txn \in { key.txn, r }
         /\ key'.about \in { key.about, "none", Mine(r) }
         /\ handler'[r].txn \in { Mine(r), key.txn, key.about, r }
<1>1. CASE Takes(r)
  BY <1>1, TakesFacts, ClaimedFacts
<1>2. CASE TakesInVain(r)
  BY <1>2, InVainFacts, ClaimedFacts
<1>3. CASE TurnedAway(r)
  BY <1>3, TurnedAwayFacts
<1>4. CASE Replayed(r)
  BY <1>4, ReplayedFacts
<1>5. CASE Works(r)
  BY <1>5, WorksFacts DEF Serving
<1>6. CASE Stores(r)
  BY <1>6, StoresFacts, RowFacts
<1>7. CASE EndsUnstored(r)
  BY <1>7, UnstoredFacts, RowFacts
<1> QED BY <1>1, <1>2, <1>3, <1>4, <1>5, <1>6, <1>7, RequestShape

(* An id that is not used yet is used by the request that brings it only. *)
LEMMA UnusedStep ==
  ASSUME StartAssumption, RInv, NEW r \in Requests, RequestNext(r)
  PROVE  Unused'
<1>1. StartTypeOK /\ Unused /\ "none" \notin Requests
  BY DEF RInv, SInv, StartAssumption
<1>2. SUFFICES ASSUME NEW s \in Requests, handler'[s].stage = "idle"
               PROVE  /\ key'.txn # s
                      /\ key'.about # s
                      /\ \A u \in Requests : handler'[u].txn # s
  BY DEF Unused, At, Mine
<1>3. s # r /\ At(s, "idle")
  BY <1>1, <1>2, IdsAreKnown DEF At
<1>4. /\ key.txn # s /\ key.about # s
      /\ \A u \in Requests : Mine(u) # s
  BY <1>1, <1>3 DEF Unused
<1> QED BY <1>1, <1>3, <1>4, IdsAreKnown DEF Mine

(* No answer is stored for the transaction that a reservation hands out.  *)
LEMMA UnstoredStep ==
  ASSUME StartAssumption, RInv, NEW r \in Requests, RequestNext(r)
  PROVE  Unstored'
<1>1. StartTypeOK /\ Lease /\ Unused /\ Unstored
  BY DEF RInv, SInv
<1>2. SUFFICES ASSUME OnTime', key'.state = "processing", NEW s \in Requests,
                      handler'[s].stage = "stored"
               PROVE  handler'[s].txn # key'.txn
  BY DEF Unstored, At, Mine
<1>3. OnTime
  BY <1>2, ServedGrows DEF OnTime, RInv
<1>4. CASE Takes(r) \/ TakesInVain(r)
  <2>1. s # r /\ handler'[s] = handler[s]
    BY <1>1, <1>2, <1>4, TakesFacts, InVainFacts
  <2>2. At(r, "idle")
    BY <1>4 DEF Takes, TakesInVain
  <2>3. \/ key' = key
        \/ key'.txn = r
        \/ key'.txn = key.txn /\ key.state = "processing"
    BY <1>1, <1>4, TakesFacts, InVainFacts, ClaimedFacts
  <2> QED BY <1>1, <1>2, <1>3, <2>1, <2>2, <2>3 DEF Unused, Unstored, At, Mine
<1>5. CASE TurnedAway(r) \/ Replayed(r) \/ Works(r)
  <2>1. /\ key' = key
        /\ s # r /\ handler'[s] = handler[s]
    BY <1>1, <1>2, <1>5, TurnedAwayFacts, ReplayedFacts, WorksFacts
    DEF Serving
  <2> QED BY <1>1, <1>2, <1>3, <2>1 DEF Unstored, At, Mine
<1>6. CASE Stores(r)
  BY <1>1, <1>2, <1>6, StoresFacts, RowFacts
<1>7. CASE EndsUnstored(r)
  <2>1. r \in InUse /\ s # r /\ handler'[s] = handler[s]
    BY <1>1, <1>2, <1>7, UnstoredFacts
  <2>2. key.state = "processing"
    BY <1>1, <1>3, <2>1 DEF Lease
  <2>3. key'.txn = key.txn
    BY <1>1, <1>7, UnstoredFacts, RowFacts
  <2> QED BY <1>1, <1>2, <1>3, <2>1, <2>2, <2>3 DEF Unstored, At, Mine
<1> QED BY <1>1, <1>4, <1>5, <1>6, <1>7, RequestShape

(* Only a failed eligibility check leads to a refusal.                    *)
LEMMA RefusingStep ==
  ASSUME StartAssumption, RInv, NEW r \in Requests, RequestNext(r)
  PROVE  Refusing'
<1>1. StartTypeOK /\ Refusing
  BY DEF RInv, SInv
<1>2. \A s \in Requests : s # r => handler'[s] = handler[s]
  BY <1>1, IdsAreKnown
<1>3. handler'[r].stage = "refuse" => Kind # "deposit"
  <2>1. CASE Works(r)
    <3>1. handler \in [Requests -> Handlers]
      BY <1>1 DEF StartTypeOK
    <3> QED BY <2>1, <3>1 DEF Works, Goesto, Becomes
  <2>2. CASE ~ Works(r)
    BY <1>1, <2>2, RequestShape, TakesFacts, InVainFacts, TurnedAwayFacts,
       ReplayedFacts, StoresFacts, UnstoredFacts
  <2> QED BY <2>1, <2>2
<1> QED BY <1>1, <1>2, <1>3 DEF Refusing, At

(* Every step keeps the invariant.                                        *)
LEMMA RInvStep ==
  ASSUME StartAssumption, RInv, [StartCommandsNext]_startVars
  PROVE  RInv'
<1>1. SInv'
  BY SInvStep DEF RInv
<1>2. ASSUME NEW r \in Requests, RequestNext(r)
      PROVE  RInv'
  BY <1>1, <1>2, UnusedStep, UnstoredStep, RefusingStep DEF RInv
<1>3. CASE AnswerExpires \/ LeaseLapses \/ LeaseOverrun
  <2>1. /\ handler' = handler /\ history \subseteq history'
        /\ key' = [key EXCEPT !.lapsed = TRUE]
    BY <1>3 DEF AnswerExpires, LeaseLapses, LeaseOverrun, KeyOnly
  <2>2. key'.state = key.state /\ key'.txn = key.txn /\ key'.about = key.about
    BY <2>1 DEF RInv, SInv, StartTypeOK, KeyRows
  <2> QED BY <1>1, <2>1, <2>2
          DEF RInv, Unused, Unstored, Refusing, At, Mine, OnTime
<1>4. CASE ProcessDies
  <2>1. key' = key /\ history' = history
    BY <1>4 DEF ProcessDies
  <2>2. StartTypeOK
    BY DEF RInv, SInv
  <2>3. \A r \in Requests :
          \/ r \notin InUse /\ handler'[r] = handler[r]
          \/ /\ r \in InUse /\ handler'[r].stage = "done"
             /\ handler'[r].says = "lost" /\ handler'[r].txn = Mine(r)
    BY <1>4, <2>2, CrashFacts
  <2> QED BY <1>1, <2>1, <2>3
          DEF RInv, Unused, Unstored, Refusing, At, Mine, OnTime
<1>5. CASE TakesEffect \/ UNCHANGED startVars
  <2>1. UNCHANGED << key, handler, history >>
    BY <1>5 DEF TakesEffect, startVars
  <2> QED BY <1>1, <2>1 DEF RInv, Unused, Unstored, Refusing, At, Mine, OnTime
<1> QED BY <1>2, <1>3, <1>4, <1>5 DEF StartCommandsNext

LEMMA RInvInit ==
  ASSUME StartInit
  PROVE  RInv
<1>1. key = NoKey /\ \A r \in Requests : handler[r] = IdleHandler
  BY DEF StartInit
<1>2. "none" \notin Requests
  BY StartAssumption DEF StartAssumption
<1>3. Unused /\ Unstored /\ Refusing
  BY <1>1, <1>2 DEF Unused, Unstored, Refusing, At, Mine, NoKey, IdleHandler
<1> QED BY <1>3, SInvInit DEF RInv

(* The invariant of the refinement holds in every reachable state.        *)
THEOREM RInvHolds == StartCommandsSpec => []RInv
<1>1. StartInit => RInv
  BY RInvInit
<1>2. RInv /\ [StartCommandsNext]_startVars => RInv'
  BY StartAssumption, RInvStep
<1> QED BY <1>1, <1>2, PTL DEF StartCommandsSpec

------------------------------------------------------------------------------
(* Steps.                                                                 *)

Starts == [t \in Requests |-> StageOf(t)]

(* Nothing happens, as module SagaOrchestrator sees it.                   *)
Unseen == Starts' = Starts /\ UNCHANGED << saga, ledger, queues, faults >>

LEMMA UnseenIsAStutter ==
  ASSUME Unseen
  PROVE  UNCHANGED Orchestrator!vars
  BY DEF Unseen, Starts, Orchestrator!vars

(* The messages and rows of that module are those of this one.            *)
LEMMA SameOperators ==
  ASSUME NEW t \in Requests
  PROVE  /\ \A qs, msg : Orchestrator!Publish(qs, msg) = Publish(qs, msg)
         /\ Orchestrator!FirstCommand(Kind, t) = FirstCommand(Kind, t)
         /\ \A row : Orchestrator!Registered(row) = Registered(row)
         /\ \A row : Orchestrator!Created(row, t) = Resumed(row)
<1>1. \A qs, msg : Orchestrator!Publish(qs, msg) = Publish(qs, msg)
  BY DEF Orchestrator!Publish, Publish, Orchestrator!RoutingKeys, RoutingKeys,
         Orchestrator!Queues, Queues, Orchestrator!CommandQueues, CommandQueues,
         Orchestrator!OutcomesQueue, OutcomesQueue, Orchestrator!OutcomeKeys,
         OutcomeKeys, Orchestrator!DeadLetterQueue, DeadLetterQueue
<1>2. Orchestrator!FirstCommand(Kind, t) = FirstCommand(Kind, t)
  BY DEF Orchestrator!FirstCommand, FirstCommand, Orchestrator!Message,
         Message, Orchestrator!NoStep, NoStep
<1>3. \A row : Orchestrator!Registered(row) = Registered(row)
  BY DEF Orchestrator!Registered, Registered
<1>4. \A row : Orchestrator!Created(row, t) = Resumed(row)
  BY DEF Orchestrator!Created, Resumed, Orchestrator!FirstStep, FirstStep
<1> QED BY <1>1, <1>2, <1>3, <1>4

(* As long as no lease is overrun a handler acts alone.                   *)
LEMMA HandlersAct ==
  ASSUME RInv, OnTime
  PROVE  /\ handler \in [Requests -> Handlers]
         /\ Alone(handler)
         /\ \A t \in Requests : StageOf(t) = StageIn(handler, t)
<1>1. handler \in [Requests -> Handlers] /\ Lease
  BY DEF RInv, SInv, StartTypeOK
<1>2. Alone(handler)
  BY <1>1 DEF Lease, Alone, InUse
<1> QED BY <1>1, <1>2, StageOfIsStageIn

LEMMA HandlersActNext ==
  ASSUME RInv', OnTime'
  PROVE  /\ handler' \in [Requests -> Handlers]
         /\ Alone(handler')
         /\ \A t \in Requests : StageOf(t)' = StageIn(handler', t)
<1>1. handler' \in [Requests -> Handlers] /\ Lease'
  BY DEF RInv, SInv, StartTypeOK
<1>2. Alone(handler')
  BY <1>1 DEF Lease, Alone, InUse
<1> QED BY <1>1, <1>2, StageOfIsStageInNext

(* Handlers that neither were nor are at work or stored are not seen.     *)
LEMMA StartsAreKept ==
  ASSUME RInv, RInv', OnTime, OnTime',
         \A r \in Requests :
           \/ handler'[r] = handler[r]
           \/ /\ handler[r].stage \notin Reserved \cup { "stored" }
              /\ handler'[r].stage \notin Reserved \cup { "stored" }
  PROVE  Starts' = Starts
<1>1. \A t \in Requests : StageIn(handler', t) = StageIn(handler, t)
  BY HandlersAct, HandlersActNext, StageIsKept
<1> QED BY <1>1, HandlersAct, HandlersActNext DEF Starts

(* Of a handler at work or stored, its transaction has its stage.         *)
SeenAs(stage, says) ==
  IF stage \in Reserved THEN stage ELSE IF stage = "stored" THEN says ELSE "new"

(* A step of a handler moves its transaction and no other.                *)
LEMMA StartMoves ==
  ASSUME RInv, RInv', OnTime, OnTime', NEW r \in InUse,
         \A s \in Requests : s # r => handler'[s] = handler[s],
         handler'[r].txn = Mine(r),
         handler'[r].stage = "stored" => handler'[r].says \in Answers
  PROVE  LET after == SeenAs(handler'[r].stage, handler'[r].says) IN
         /\ Mine(r) \in Requests
         /\ Starts[Mine(r)] = SeenAs(handler[r].stage, handler[r].says)
         /\ Starts' = [Starts EXCEPT ![Mine(r)] = after]
<1> DEFINE after == SeenAs(handler'[r].stage, handler'[r].says)
<1>0. Mine(r) \in Requests
  BY DEF RInv, SInv, StartTypeOK
<1>t. PICK t \in Requests : t = Mine(r)
  BY <1>0
<1>1. /\ r \in Requests /\ handler[r].txn = t
      /\ handler[r].stage \in Serving
      /\ Lease /\ Unstored
  BY <1>t DEF RInv, SInv, InUse, Mine
<1>2. \A s \in Requests :
        /\ handler[s].stage \in Serving => s = r
        /\ handler[s].stage = "stored" => handler[s].txn # t
  BY <1>1 DEF Lease, InUse, Unstored, At, Mine
<1>3. StageOf(t) = SeenAs(handler[r].stage, handler[r].says)
  <2>1. handler[r].stage # "stored"
    BY <1>1 DEF Serving
  <2> QED BY <1>1, <1>2, <2>1, StageOfMine, HandlersAct DEF SeenAs
<1>4. StageOf(t)' = after
  <2>1. /\ handler'[r].txn = t
        /\ \A s \in Requests : handler'[s].stage \in Serving => s = r
        /\ \A s \in Requests \ { r } :
             handler'[s].stage = "stored" => handler'[s].txn # t
    BY <1>t, <1>1, <1>2
  <2>2. StageIn(handler', t) = after
    BY <1>1, <2>1, StageOfMine DEF SeenAs
  <2> QED BY <1>1, <2>2, HandlersActNext
<1>5. ASSUME NEW u \in Requests, u # t
      PROVE  StageOf(u)' = StageOf(u)
  <2>1. \A s \in Requests :
          \/ handler'[s] = handler[s]
          \/ handler[s].txn # u /\ handler'[s].txn # u
    BY <1>t, <1>1, <1>5
  <2>2. StageIn(handler', u) = StageIn(handler, u)
    BY <2>1, StageIsKept, HandlersAct, HandlersActNext
  <2> QED BY <2>2, HandlersAct, HandlersActNext
<1> HIDE DEF after
<1>6. Starts' = [Starts EXCEPT ![t] = after]
  BY <1>1, <1>4, <1>5 DEF Starts
<1> QED BY <1>t, <1>1, <1>3, <1>6 DEF Starts, after

(* A start handler's action is a step of module SagaOrchestrator.         *)
LEMMA StartActionsAreSteps ==
  ASSUME NEW t \in Requests,
         \/ \E allowed \in BOOLEAN : Orchestrator!Precheck(t, allowed)
         \/ Orchestrator!RegisterTransaction(t)
         \/ Orchestrator!CreateSaga(t)
         \/ Orchestrator!Dispatch(t)
         \/ Orchestrator!Finalize(t)
         \/ \E applied \in BOOLEAN : Orchestrator!StartFails(t, applied)
  PROVE  Orchestrator!Next
  BY DEF Orchestrator!Next, Orchestrator!StartNext

(* A fault that happens is one of those that module SagaOrchestrator has. *)
LEMMA FaultsHappen ==
  ASSUME NEW kind \in { "call", "crash" }, Happens(kind)
  PROVE  Orchestrator!Fault(kind)
  BY DEF Happens, Orchestrator!Fault

(* The steps of a handler that serves a request.                          *)
LEMMA WorksIsAStart ==
  ASSUME StartAssumption, RInv, RInv', OnTime, OnTime', NEW r \in Requests,
         Works(r)
  PROVE  Orchestrator!Next \/ UNCHANGED Orchestrator!vars
<1>1. /\ StartTypeOK /\ handler \in [Requests -> Handlers]
      /\ \A s \in Requests : s # r => handler'[s] = handler[s]
      /\ handler'[r].txn = Mine(r)
      /\ r \in InUse
      /\ Mine(r) \in Requests
  BY WorksFacts DEF RInv, SInv, StartTypeOK
<1>t. PICK t \in Requests : t = Mine(r)
  BY <1>1
<1>g. ASSUME NEW from \in Serving, NEW to \in Serving, Goesto(r, from, to)
      PROVE  /\ Starts[t] = SeenAs(from, handler[r].says)
             /\ Starts' = [Starts EXCEPT ![t] = SeenAs(to, handler[r].says)]
  <2>1. /\ handler[r].stage = from /\ handler'[r].stage = to
        /\ handler'[r].says = handler[r].says
    BY <1>1, <1>g DEF Goesto, Becomes, At
  <2>2. to # "stored"
    BY DEF Serving
  <2> QED BY <1>1, <1>t, <2>1, <2>2, StartMoves
<1> USE DEF SeenAs, Reserved, Serving
<1>2. CASE /\ Goesto(r, "check", "register") /\ KeyOnly
           /\ Kind = "deposit" \/ eligible
  <2>1. Starts[t] = "new" /\ Starts' = [Starts EXCEPT ![t] = "register"]
    BY <1>2, <1>g
  <2>2. Orchestrator!Precheck(t, TRUE)
    BY <1>2, <2>1 DEF Orchestrator!Precheck, Starts, KeyOnly
  <2> QED BY <2>2, StartActionsAreSteps
<1>3. CASE /\ Goesto(r, "check", "refuse") \/ Goesto(r, "check", "release")
           /\ KeyOnly
  <2>1. Starts[t] = "new" /\ Starts' = [Starts EXCEPT ![t] = "new"]
    BY <1>3, <1>g
  <2>2. Unseen
    BY <1>3, <2>1 DEF Unseen, Starts, KeyOnly
  <2> QED BY <2>2, UnseenIsAStutter
<1>4. CASE Goesto(r, "register", "create") /\ Register(r)
  <2>1. Starts[t] = "register" /\ Starts' = [Starts EXCEPT ![t] = "create"]
    BY <1>4, <1>g
  <2>2. Orchestrator!RegisterTransaction(t)
    BY <1>4, <1>t, <2>1, SameOperators
    DEF Orchestrator!RegisterTransaction, Starts, Register
  <2> QED BY <2>2, StartActionsAreSteps
<1>5. CASE Goesto(r, "create", "dispatch") /\ Create(r)
  <2>1. Starts[t] = "create" /\ Starts' = [Starts EXCEPT ![t] = "dispatch"]
    BY <1>5, <1>g
  <2>2. Orchestrator!CreateSaga(t)
    BY <1>5, <1>t, <2>1, SameOperators
    DEF Orchestrator!CreateSaga, Starts, Create
  <2> QED BY <2>2, StartActionsAreSteps
<1>6. CASE Goesto(r, "dispatch", "answer") /\ PublishFirst(r)
  <2>1. Starts[t] = "dispatch" /\ Starts' = [Starts EXCEPT ![t] = "answer"]
    BY <1>6, <1>g
  <2>2. Orchestrator!Dispatch(t)
    BY <1>6, <1>t, <2>1, SameOperators
    DEF Orchestrator!Dispatch, Starts, PublishFirst
  <2> QED BY <2>2, StartActionsAreSteps
<1>7. ASSUME NEW applied \in BOOLEAN,
             NEW stage \in { "register", "create", "dispatch" },
             Goesto(r, stage, "release"), ServingFails(r, applied)
      PROVE  Orchestrator!Next
  <2>1. Starts[t] = stage /\ Starts' = [Starts EXCEPT ![t] = "new"]
    BY <1>7, <1>g
  <2>2. handler[r].stage = stage /\ Orchestrator!Fault("call")
    BY <1>7, FaultsHappen DEF Goesto, At, ServingFails
  <2>3. Orchestrator!StartFails(t, applied)
    <3>1. /\ stage \in Orchestrator!Working
          /\ ledger' = IF applied /\ stage = "register"
                       THEN [ledger EXCEPT ![t] = Registered(@)] ELSE ledger
          /\ saga' = IF applied /\ stage = "create"
                     THEN [saga EXCEPT ![t] = Resumed(@)] ELSE saga
          /\ queues' = IF applied /\ stage = "dispatch"
                       THEN Publish(queues, FirstCommand(Kind, t)) ELSE queues
      BY <1>7, <1>t, <2>2 DEF ServingFails, At, Orchestrator!Working
    <3> QED BY <2>1, <2>2, <3>1, SameOperators
            DEF Orchestrator!StartFails, Starts
  <2> QED BY <2>3, StartActionsAreSteps
<1> QED BY <1>2, <1>3, <1>4, <1>5, <1>6, <1>7 DEF Works

(* A handler whose answer is stored finalizes or denies its transaction.  *)
LEMMA StoresIsAStart ==
  ASSUME StartAssumption, RInv, RInv', OnTime, OnTime', NEW r \in Requests,
         Stores(r)
  PROVE  Orchestrator!Next
<1>1. /\ StartTypeOK /\ handler \in [Requests -> Handlers]
      /\ \A s \in Requests : s # r => handler'[s] = handler[s]
      /\ handler'[r].stage = "stored"
      /\ handler'[r].says \in Answers
      /\ handler'[r].txn = Mine(r)
      /\ r \in InUse
      /\ Mine(r) \in Requests
  BY StoresFacts DEF RInv, SInv, StartTypeOK
<1>t. PICK t \in Requests : t = Mine(r)
  BY <1>1
<1>2. /\ Starts[t] = SeenAs(handler[r].stage, handler[r].says)
      /\ Starts' = [Starts EXCEPT ![t] = handler'[r].says]
  BY <1>1, <1>t, StartMoves DEF SeenAs, Reserved
<1>3. CASE At(r, "answer")
  <2>1. handler'[r].says = "accepted"
    BY <1>1, <1>3 DEF Stores, Becomes, At
  <2>2. Starts[t] = "answer"
    BY <1>2, <1>3 DEF At, SeenAs, Reserved
  <2>3. Orchestrator!Finalize(t)
    BY <1>2, <2>1, <2>2 DEF Orchestrator!Finalize, Starts, Stores, KeyOnly
  <2> QED BY <2>3, StartActionsAreSteps
<1>4. CASE At(r, "refuse")
  <2>1. handler'[r].says = "denied" /\ Kind # "deposit"
    BY <1>1, <1>4 DEF Stores, Becomes, At, RInv, Refusing
  <2>2. Starts[t] = "new"
    BY <1>2, <1>4 DEF At, SeenAs, Reserved
  <2>3. Orchestrator!Precheck(t, FALSE)
    BY <1>2, <2>1, <2>2 DEF Orchestrator!Precheck, Starts, Stores, KeyOnly
  <2> QED BY <2>3, StartActionsAreSteps
<1> QED BY <1>3, <1>4 DEF Stores

(* One whose answer is not stored fails, or was never seen.               *)
LEMMA EndIsAFailure ==
  ASSUME StartAssumption, RInv, RInv', OnTime, OnTime', NEW r \in Requests,
         EndsUnstored(r)
  PROVE  Orchestrator!Next \/ UNCHANGED Orchestrator!vars
<1>1. /\ StartTypeOK /\ handler \in [Requests -> Handlers]
      /\ \A s \in Requests : s # r => handler'[s] = handler[s]
      /\ handler'[r].stage = "done"
      /\ handler'[r].txn = Mine(r)
      /\ r \in InUse
      /\ Mine(r) \in Requests
      /\ UNCHANGED << saga, ledger, queues >>
  BY UnstoredFacts DEF RInv, SInv, StartTypeOK
<1>t. PICK t \in Requests : t = Mine(r)
  BY <1>1
<1>2. /\ Starts[t] = SeenAs(handler[r].stage, handler[r].says)
      /\ Starts' = [Starts EXCEPT ![t] = "new"]
  BY <1>1, <1>t, StartMoves DEF SeenAs, Reserved
<1>3. CASE At(r, "answer") /\ Happens("call")
  <2>1. Starts[t] = "answer" /\ Orchestrator!Fault("call")
    BY <1>2, <1>3, FaultsHappen DEF At, SeenAs, Reserved
  <2>2. Orchestrator!StartFails(t, FALSE)
    BY <1>1, <1>2, <2>1
    DEF Orchestrator!StartFails, Orchestrator!Working, Starts
  <2> QED BY <2>2, StartActionsAreSteps
<1>4. CASE At(r, "refuse") \/ At(r, "release")
  <2>1. Starts[t] = "new" /\ faults' = faults
    BY <1>2, <1>4 DEF At, SeenAs, Reserved, EndsUnstored
  <2>2. Unseen
    BY <1>1, <1>2, <2>1 DEF Unseen, Starts
  <2> QED BY <2>2, UnseenIsAStutter
<1> QED BY <1>3, <1>4 DEF EndsUnstored

(* A crash is one: the transactions that were worked on begin anew.       *)
LEMMA DeathIsACrash ==
  ASSUME StartAssumption, RInv, RInv', OnTime, OnTime', ProcessDies
  PROVE  Orchestrator!Next
<1>1. /\ StartTypeOK /\ Lease /\ Unstored
      /\ Orchestrator!Fault("crash")
      /\ UNCHANGED << saga, ledger, queues >>
  BY FaultsHappen DEF RInv, SInv, ProcessDies
<1>2. \A r \in Requests :
        \/ r \notin InUse /\ handler'[r] = handler[r]
        \/ /\ r \in InUse /\ handler'[r].stage = "done"
           /\ handler'[r].txn = Mine(r)
  BY <1>1, CrashFacts
<1>3. ASSUME NEW t \in Requests
      PROVE  StageIn(handler', t) = IF StageIn(handler, t) \in Reserved
                                    THEN "new" ELSE StageIn(handler, t)
  <2>1. WorkingIn(handler', t) = {}
    BY <1>2 DEF WorkingIn, InUse, Reserved, Serving
  <2>2. \A answer : StoredIn(handler', t, answer)
                       <=> StoredIn(handler, t, answer)
    BY <1>2 DEF StoredIn, InUse, Serving
  <2>3. CASE WorkingIn(handler, t) = {}
    BY <2>1, <2>2, <2>3, StageFacts DEF Reserved
  <2>4. ASSUME NEW r \in WorkingIn(handler, t)
        PROVE  StageIn(handler', t) = IF StageIn(handler, t) \in Reserved
                                      THEN "new" ELSE StageIn(handler, t)
    <3>1. r \in InUse /\ Mine(r) = t /\ handler[r].stage \in Reserved
      BY DEF WorkingIn, InUse, Reserved, Serving, Mine
    <3>2. \A answer : ~ StoredIn(handler, t, answer)
      BY <1>1, <3>1 DEF Lease, Unstored, StoredIn, At, Mine
    <3>3. \A s \in WorkingIn(handler, t) : s = r
      BY <1>1, <3>1 DEF Lease, WorkingIn, InUse, Reserved, Serving
    <3>4. StageIn(handler, t) = handler[r].stage
      BY <3>3, StageFacts
    <3> QED BY <2>1, <2>2, <3>1, <3>2, <3>4, StageFacts
  <2> QED BY <2>3, <2>4
<1>4. Starts' = [t \in Requests |->
                   IF Starts[t] \in Orchestrator!Working
                   THEN "new" ELSE Starts[t]]
  BY <1>3, HandlersAct, HandlersActNext
  DEF Starts, Reserved, Orchestrator!Working
<1>5. Orchestrator!Crash
  BY <1>1, <1>4 DEF Orchestrator!Crash, Starts, Orchestrator!Waiting,
                    Orchestrator!NoSaga, Orchestrator!IdlePoller
<1> QED BY <1>5 DEF Orchestrator!Next

(* Every step, until a lease is overrun.                                  *)
LEMMA StartStep ==
  ASSUME StartAssumption, RInv, RInv', OnTime', [StartCommandsNext]_startVars
  PROVE  Orchestrator!Next \/ UNCHANGED Orchestrator!vars
<1>1. StartTypeOK
  BY DEF RInv, SInv
<1>2. ASSUME NEW r \in Requests, RequestNext(r)
      PROVE  Orchestrator!Next \/ UNCHANGED Orchestrator!vars
  <2>1. OnTime
    BY <1>2, ServedGrows DEF OnTime, RInv
  <2>2. CASE Takes(r) \/ TakesInVain(r) \/ TurnedAway(r) \/ Replayed(r)
    <3>1. /\ \A s \in Requests : s # r => handler'[s] = handler[s]
          /\ handler[r].stage = "idle"
          /\ handler'[r].stage \in { "check", "done" }
          /\ UNCHANGED << saga, ledger, queues, faults >>
      BY <1>1, <2>2, TakesFacts, InVainFacts, TurnedAwayFacts, ReplayedFacts
      DEF Takes, TakesInVain, TurnedAway, Replayed, KeyOnly, At
    <3>2. Unseen
      BY <2>1, <3>1, StartsAreKept DEF Unseen, Reserved
    <3> QED BY <3>2, UnseenIsAStutter
  <2> QED BY <1>1, <1>2, <2>1, <2>2, RequestShape, WorksIsAStart,
             StoresIsAStart, EndIsAFailure
<1>3. CASE AnswerExpires \/ LeaseLapses \/ TakesEffect \/ UNCHANGED startVars
  <2>1. UNCHANGED << handler, saga, ledger, queues, faults >>
    BY <1>3 DEF AnswerExpires, LeaseLapses, TakesEffect, KeyOnly, startVars
  <2>2. OnTime
    BY <1>3 DEF AnswerExpires, LeaseLapses, TakesEffect, KeyOnly, startVars,
                OnTime
  <2>3. Unseen
    BY <2>1, <2>2, StartsAreKept DEF Unseen
  <2> QED BY <2>3, UnseenIsAStutter
<1>4. CASE LeaseOverrun
  BY <1>4 DEF LeaseOverrun, OnTime
<1>5. CASE ProcessDies
  <2>1. OnTime
    BY <1>5 DEF ProcessDies, OnTime
  <2> QED BY <1>5, <2>1, DeathIsACrash
<1> QED BY <1>2, <1>3, <1>4, <1>5 DEF StartCommandsNext

(* Seen by a transaction, the start handlers that serve a key are the one *)
(* start handler that module SagaOrchestrator gives it.                   *)
THEOREM StartsAreImplemented == StartCommandsSpec => ImplementsStarts
<1>1. StartInit => Orchestrator!Init
  <2> SUFFICES ASSUME StartInit
               PROVE  Orchestrator!Init
    OBVIOUS
  <2>1. RInv /\ OnTime
    BY RInvInit DEF StartInit, OnTime
  <2>2. ASSUME NEW t \in Requests
        PROVE  StageOf(t) = "new"
    <3>1. \A r \in Requests : handler[r].stage = "idle"
      BY DEF StartInit, IdleHandler
    <3>2. /\ WorkingIn(handler, t) = {}
          /\ \A answer : ~ StoredIn(handler, t, answer)
      BY <3>1 DEF WorkingIn, StoredIn, Reserved
    <3> QED BY <2>1, <3>2, HandlersAct, StageFacts
  <2>3. Orchestrator!NoQueuedMessages = NoQueuedMessages
    BY DEF Orchestrator!NoQueuedMessages, NoQueuedMessages,
           Orchestrator!Queues, Queues, Orchestrator!CommandQueues,
           CommandQueues, Orchestrator!OutcomesQueue, OutcomesQueue,
           Orchestrator!DeadLetterQueue, DeadLetterQueue
  <2> QED BY <2>2, <2>3
          DEF StartInit, Orchestrator!Init, Orchestrator!NoSaga, NoRow,
              Orchestrator!NoRow, Orchestrator!Waiting, Orchestrator!IdlePoller
<1>2. RInv /\ RInv' /\ [StartCommandsNext]_startVars =>
        (OnTime' => [Orchestrator!Next]_(Orchestrator!vars))
  BY StartAssumption, StartStep
<1> QED BY <1>1, <1>2, RInvHolds, PTL DEF StartCommandsSpec, ImplementsStarts
==============================================================================
