---------------------------- MODULE StartCommands ----------------------------
(***************************************************************************)
(* The requests that clients make under one idempotency key, and the start *)
(* handlers that serve them: usecases/idempotency, usecases/startdeposit,  *)
(* startpurchase and startrefund, and the key's row in saga/repository.    *)
(*                                                                         *)
(* The three handlers differ in their eligibility checks only (a deposit   *)
(* has none, a refund has two in a row) and in the command they publish,   *)
(* and keys of different kinds are different keys: Kind is one of them.    *)
(* A request brings a fresh transaction id, uuid.New(): the request itself.*)
(*                                                                         *)
(* What becomes of the command is left to module SagaOrchestrator, which   *)
(* lets in one start handler per transaction.  That this is what the keys  *)
(* achieve is the refinement at the end.                                   *)
(***************************************************************************)
EXTENDS Workflows, Ledger, Naturals, FiniteSets

CONSTANTS
  Requests,   \* the HTTP requests made with the key
  PayloadOf,  \* what each asks for: its fingerprint
  Kind,       \* the key's scope
  Faults,     \* the kinds of fault that may happen
  MaxFaults   \* bound on their number

(* "call": a call fails, before or after it took effect; "crash": the     *)
(* process dies; "overrun": a lease lapses while its handler still works.  *)
StartFaults == { "call", "crash", "overrun" }

Payloads == { PayloadOf[r] : r \in Requests }

ASSUME StartAssumption ==
  /\ Kind \in SagaTypes
  /\ Faults \subseteq StartFaults
  /\ MaxFaults \in Nat
  /\ "none" \notin Requests
  /\ PayloadOf = [r \in Requests |-> PayloadOf[r]]
  /\ "none" \notin Payloads

VARIABLES
  key,       \* the row of saga_orchestrator.idempotency_keys
  handler,   \* where the handler of each request is
  saga,      \* saga_orchestrator.saga_instances, by transaction
  ledger,    \* payments.transactions, by transaction
  queues,    \* the broker's queues
  eligible,  \* the eligibility check lets the request through
  faults,    \* history: how many faults there were
  history    \* history: which of "aged" and "overrun" there were

startVars ==
  << key, handler, saga, ledger, queues, eligible, faults, history >>

------------------------------------------------------------------------------
(* Types and null values.                                                 *)

Answers == { "accepted", "denied" }

(* "processing" and lapsed is what MarkRetryable leaves.                  *)
KeyRows ==
  [state : { "absent", "processing", "completed" },
   hash : Payloads \cup { "none" }, txn : Requests \cup { "none" },
   answer : Answers \cup { "none" }, about : Requests \cup { "none" },
   lapsed : BOOLEAN]

NoKey ==
  [state |-> "absent", hash |-> "none", txn |-> "none", answer |-> "none",
   about |-> "none", lapsed |-> FALSE]

(* The stages in which a handler acts under the reservation.              *)
Serving ==
  { "check", "register", "create", "dispatch", "answer", "refuse", "release" }

(* "stored": answered, and the key will replay it; "done": answered only. *)
Stages == Serving \cup { "idle", "stored", "done" }

(* What the client was told: 202, 422, 409 twice, 502 or 500, nothing.    *)
Responses ==
  Answers \cup { "mismatch", "in_progress", "retryable", "lost", "none" }

Handlers ==
  [stage : Stages, txn : Requests \cup { "none" }, says : Responses]

StartMessages == [key : CommandKeys, txn : Requests, step : SourceSteps]

StartQueues == [Queues -> Seq(StartMessages)]

IdleHandler == [stage |-> "idle", txn |-> "none", says |-> "none"]

StartInit ==
  /\ key = NoKey
  /\ handler = [r \in Requests |-> IdleHandler]
  /\ saga = [t \in Requests |->
               [status |-> "absent", outcome |-> "none", step |-> "none"]]
  /\ ledger = [t \in Requests |-> NoRow]
  /\ queues = NoQueuedMessages
  /\ eligible \in BOOLEAN
  /\ faults = 0
  /\ history = {}

Happens(kind) ==
  /\ kind \in Faults
  /\ faults < MaxFaults
  /\ faults' = faults + 1

At(r, stage) == handler[r].stage = stage

Goes(r, stage) == handler' = [handler EXCEPT ![r].stage = stage]

Ends(r, stage, said) ==
  handler' = [handler EXCEPT ![r] = [@ EXCEPT !.stage = stage, !.says = said]]

Mine(r) == handler[r].txn

InUse == { r \in Requests : handler[r].stage \in Serving }

(* Nothing but the key and the handler changes.                           *)
KeyOnly == UNCHANGED << saga, ledger, queues, eligible, faults, history >>

------------------------------------------------------------------------------
(* Reserving the key.                                                     *)

(* Mutant: an unexpired reservation is no obstacle.                       *)
ClaimableWhileProcessing == key.state # "completed" \/ key.lapsed

(* Mutant: only an unexpired reservation is.                              *)
ClaimableOnceCompleted == key.state # "processing" \/ key.lapsed

Claimable == key.state = "absent" \/ key.lapsed

(* Mutant: a reclaimed key always keeps its transaction.                  *)
ClaimedSameTransaction(row, r) ==
  [state |-> "processing", hash |-> PayloadOf[r],
   txn |-> IF row.state = "processing" THEN row.txn ELSE r,
   answer |-> "none", about |-> "none", lapsed |-> FALSE]

(* Mutant: a reclaimed key always gets a new transaction.                 *)
ClaimedNewTransaction(row, r) ==
  [state |-> "processing", hash |-> PayloadOf[r], txn |-> r,
   answer |-> "none", about |-> "none", lapsed |-> FALSE]

(* Mutant: reclaiming leaves the old answer in the row.                   *)
ClaimedOldAnswer(row, r) ==
  [row EXCEPT !.state = "processing", !.hash = PayloadOf[r], !.txn = r,
              !.lapsed = FALSE]

(* The row that an insert, or the reclaiming of a lapsed row, leaves.  The *)
(* transaction id survives in a reservation for the same payload.          *)
Claimed(row, r) ==
  [state |-> "processing", hash |-> PayloadOf[r],
   txn |-> IF row.state = "processing" /\ row.hash = PayloadOf[r]
           THEN row.txn ELSE r,
   answer |-> "none", about |-> "none", lapsed |-> FALSE]

(* A deposit goes on to the ledger at once.                               *)
Reserve(r) ==
  /\ At(r, "idle")
  /\ Claimable
  /\ key' = Claimed(key, r)
  /\ handler' = [handler EXCEPT
                   ![r] = [@ EXCEPT !.stage = "check",
                                    !.txn = Claimed(key, r).txn]]
  /\ KeyOnly

(* The reservation fails, after it took effect or before: status 500.     *)
ReserveFails(r, applied) ==
  /\ At(r, "idle")
  /\ applied => Claimable
  /\ key' = IF applied THEN Claimed(key, r) ELSE key
  /\ Ends(r, "done", "retryable")
  /\ KeyOnly

(* An unexpired row of another payload, or in work: status 409.           *)
RefuseReuse(r) ==
  /\ At(r, "idle")
  /\ ~ Claimable
  /\ \/ key.hash # PayloadOf[r] /\ Ends(r, "done", "mismatch")
     \/ /\ key.hash = PayloadOf[r]
        /\ key.state = "processing"
        /\ Ends(r, "done", "in_progress")
  /\ UNCHANGED key
  /\ KeyOnly

(* An unexpired answer for the same payload is given again, verbatim.     *)
Replay(r) ==
  /\ At(r, "idle")
  /\ ~ Claimable
  /\ key.hash = PayloadOf[r]
  /\ key.state = "completed"
  /\ handler' = [handler EXCEPT
                   ![r] = [stage |-> "done", txn |-> key.about,
                           says |-> key.answer]]
  /\ UNCHANGED key
  /\ KeyOnly

------------------------------------------------------------------------------
(* Serving the request under the reservation.                             *)

(* The eligibility checks of a purchase or a refund.                      *)
Check(r) ==
  /\ At(r, "check")
  /\ Goes(r, IF Kind = "deposit" \/ eligible THEN "register" ELSE "refuse")
  /\ UNCHANGED key
  /\ KeyOnly

CheckFails(r) ==
  /\ At(r, "check")
  /\ Kind # "deposit"
  /\ Goes(r, "release")
  /\ UNCHANGED key
  /\ KeyOnly

Register(r) ==
  /\ At(r, "register")
  /\ ledger' = [ledger EXCEPT ![Mine(r)] = Registered(@)]
  /\ Goes(r, "create")
  /\ UNCHANGED << key, saga, queues, eligible, faults, history >>

(* The row of a new saga; one that exists is resumed as it is.            *)
Resumed(row) ==
  IF row.status = "absent"
  THEN [status |-> "running", outcome |-> "none", step |-> FirstStep(Kind)]
  ELSE row

(* Mutant: a saga that exists already was dispatched before.              *)
CreateOrAnswer(r) ==
  /\ At(r, "create")
  /\ saga' = [saga EXCEPT ![Mine(r)] = Resumed(@)]
  /\ Goes(r, IF saga[Mine(r)].status = "absent" THEN "dispatch" ELSE "answer")
  /\ UNCHANGED << key, ledger, queues, eligible, faults, history >>

Create(r) ==
  /\ At(r, "create")
  /\ saga' = [saga EXCEPT ![Mine(r)] = Resumed(@)]
  /\ Goes(r, "dispatch")
  /\ UNCHANGED << key, ledger, queues, eligible, faults, history >>

PublishFirst(r) ==
  /\ At(r, "dispatch")
  /\ queues' = Publish(queues, FirstCommand(Kind, Mine(r)))
  /\ Goes(r, "answer")
  /\ UNCHANGED << key, saga, ledger, eligible, faults, history >>

(* A call of the handler fails, after it took effect or before.           *)
ServingFails(r, applied) ==
  /\ handler[r].stage \in { "register", "create", "dispatch" }
  /\ Happens("call")
  /\ Goes(r, "release")
  /\ ledger' = IF applied /\ At(r, "register")
               THEN [ledger EXCEPT ![Mine(r)] = Registered(@)] ELSE ledger
  /\ saga' = IF applied /\ At(r, "create")
             THEN [saga EXCEPT ![Mine(r)] = Resumed(@)] ELSE saga
  /\ queues' = IF applied /\ At(r, "dispatch")
               THEN Publish(queues, FirstCommand(Kind, Mine(r))) ELSE queues
  /\ UNCHANGED << key, eligible, history >>

(* FinalizeIdempotencyKey: whatever the row says by now.  The body that is *)
(* stored names the transaction of the handler.                            *)
Completed(row, answer, t) ==
  [row EXCEPT !.state = "completed", !.answer = answer, !.about = t,
              !.lapsed = FALSE]

FinalizeAccepted(r) ==
  /\ At(r, "answer")
  /\ key' = Completed(key, "accepted", Mine(r))
  /\ Ends(r, "stored", "accepted")
  /\ KeyOnly

FinalizeDenied(r) ==
  /\ At(r, "refuse")
  /\ key' = Completed(key, "denied", Mine(r))
  /\ Ends(r, "stored", "denied")
  /\ KeyOnly

(* The answer cannot be stored; that is logged, and the client is answered.*)
FinalizeFails(r) ==
  /\ \/ At(r, "answer") /\ Happens("call") /\ Ends(r, "done", "accepted")
     \/ At(r, "refuse") /\ UNCHANGED faults /\ Ends(r, "done", "denied")
  /\ UNCHANGED << key, saga, ledger, queues, eligible, history >>

(* MarkIdempotencyKeyRetryable: whatever the row says by now.             *)
Retryable(row) ==
  [row EXCEPT !.state = "processing", !.answer = "none", !.about = "none",
              !.lapsed = TRUE]

(* The client is told 502; marking the key may fail, for instance because  *)
(* the request was cancelled, and then the reservation stays until it      *)
(* lapses.                                                                 *)
Release(r, marked) ==
  /\ At(r, "release")
  /\ key' = IF marked THEN Retryable(key) ELSE key
  /\ Ends(r, "done", "retryable")
  /\ KeyOnly

------------------------------------------------------------------------------
(* The clock, the process and the rest of the system.                     *)

(* A stored answer is kept for 24 hours.                                  *)
AnswerExpires ==
  /\ key.state = "completed"
  /\ ~ key.lapsed
  /\ key' = [key EXCEPT !.lapsed = TRUE]
  /\ history' = history \cup { "aged" }
  /\ UNCHANGED << handler, saga, ledger, queues, eligible, faults >>

(* A reservation is held for 30 seconds, longer than a handler takes.     *)
LeaseLapses ==
  /\ key.state = "processing"
  /\ ~ key.lapsed
  /\ InUse = {}
  /\ key' = [key EXCEPT !.lapsed = TRUE]
  /\ UNCHANGED handler
  /\ KeyOnly

(* Except when it does: the calls over HTTP are bounded by two seconds     *)
(* each, those to the database and the broker are not.                     *)
LeaseOverrun ==
  /\ key.state = "processing"
  /\ ~ key.lapsed
  /\ InUse # {}
  /\ Happens("overrun")
  /\ key' = [key EXCEPT !.lapsed = TRUE]
  /\ history' = history \cup { "overrun" }
  /\ UNCHANGED << handler, saga, ledger, queues, eligible >>

(* The process dies and is started again; its clients get no response.    *)
ProcessDies ==
  /\ Happens("crash")
  /\ handler' = [r \in Requests |->
                   IF r \in InUse
                   THEN [handler[r] EXCEPT !.stage = "done", !.says = "lost"]
                   ELSE handler[r]]
  /\ UNCHANGED << key, saga, ledger, queues, eligible, history >>

(* The transactions whose first command is out.                           *)
Started ==
  { t \in Requests :
      \E q \in CommandQueues :
        \E i \in DOMAIN queues[q] : queues[q][i].txn = t }

(* A started purchase is granted, a started refund revokes the access:     *)
(* either way the same request would be denied from now on.  What other    *)
(* transactions do to the eligibility, in either direction, is left out.   *)
TakesEffect ==
  /\ Started # {}
  /\ eligible
  /\ eligible' = FALSE
  /\ UNCHANGED << key, handler, saga, ledger, queues, faults, history >>

------------------------------------------------------------------------------
RequestNext(r) ==
  \/ Reserve(r)
  \/ \E applied \in BOOLEAN : ReserveFails(r, applied) \/ ServingFails(r, applied)
  \/ RefuseReuse(r)
  \/ Replay(r)
  \/ Check(r)
  \/ CheckFails(r)
  \/ Register(r)
  \/ Create(r)
  \/ PublishFirst(r)
  \/ FinalizeAccepted(r)
  \/ FinalizeDenied(r)
  \/ FinalizeFails(r)
  \/ \E marked \in BOOLEAN : Release(r, marked)

StartCommandsNext ==
  \/ \E r \in Requests : RequestNext(r)
  \/ AnswerExpires
  \/ LeaseLapses
  \/ LeaseOverrun
  \/ ProcessDies
  \/ TakesEffect

StartCommandsSpec == StartInit /\ [][StartCommandsNext]_startVars

------------------------------------------------------------------------------
(* Properties.                                                            *)

(* Typing; a row that exists names its payload and transaction, it is     *)
(* completed exactly when it holds an answer, and whoever serves a request *)
(* under the key has a transaction and finds the row there.                *)
StartTypeOK ==
  /\ key \in KeyRows
  /\ key.state # "absent" => key.hash # "none" /\ key.txn # "none"
  /\ key.state = "completed" <=> key.answer # "none"
  /\ key.state = "completed" <=> key.about # "none"
  /\ handler \in [Requests -> Handlers]
  /\ \A r \in InUse : Mine(r) \in Requests /\ key.state # "absent"
  /\ saga \in [Requests -> [status : SagaStatuses \cup { "absent" },
                             outcome : SagaOutcomes,
                             step : SagaSteps \cup { "none" }]]
  /\ ledger \in [Requests -> LedgerRows]
  /\ queues \in StartQueues
  /\ eligible \in BOOLEAN
  /\ faults \in 0..MaxFaults
  /\ history \subseteq { "aged", "overrun" }

OnTime == "overrun" \notin history

(***************************************************************************)
(* A client that was told 202 has a transaction: it is registered, it has  *)
(* a saga and its first command is out.  Whichever attempts failed before  *)
(* it and after which of their calls, whether the answer is new or         *)
(* replayed, and even when two handlers served the key at once.            *)
(***************************************************************************)
AcceptedIsDispatched ==
  \A r \in Requests :
    handler[r].says = "accepted" =>
      /\ ledger[Mine(r)] # NoRow
      /\ saga[Mine(r)].status # "absent"
      /\ Mine(r) \in Started

(***************************************************************************)
(* Repeating a request starts nothing new: as long as no other payload is  *)
(* let in under the key and no answer has grown old, all requests together *)
(* register one transaction, however many of them failed half way.         *)
(***************************************************************************)
OneTransactionPerPayload ==
  LET served == { r \in Requests : ~ At(r, "idle")
                                   /\ handler[r].says # "mismatch" } IN
  /\ "aged" \notin history
  /\ \A r, s \in served : PayloadOf[r] = PayloadOf[s]
  => \A t, u \in Requests : ledger[t] # NoRow /\ ledger[u] # NoRow => t = u

(***************************************************************************)
(* A client is never given the answer to something it did not ask: the     *)
(* transaction it hears of was begun for its own payload, also when the    *)
(* key was reclaimed for another payload and back.                         *)
(***************************************************************************)
AnswerIsToThePayload ==
  OnTime =>
    \A r \in Requests :
      handler[r].says \in Answers => PayloadOf[Mine(r)] = PayloadOf[r]

(***************************************************************************)
(* No two handlers act under the key at once, neither on one transaction   *)
(* nor on two, although a reservation is released by a clock, by failing   *)
(* handlers and by crashes.                                                *)
(***************************************************************************)
OneHandlerPerTransaction == OnTime => \A r, s \in InUse : r = s

(***************************************************************************)
(* The update statements of Finalize and MarkRetryable do not look at the  *)
(* row they change.  Still, what is stored as the answer stays until it    *)
(* expires.                                                                *)
(***************************************************************************)
StoredAnswerIsFinal ==
  [][OnTime /\ key.state = "completed" /\ ~ key.lapsed =>
       key' \in { key, [key EXCEPT !.lapsed = TRUE] }]_startVars

(***************************************************************************)
(* A client that was refused, and whose refusal is stored for every        *)
(* repetition, has started nothing.                                        *)
(***************************************************************************)
RefusedIsNotStarted ==
  key.state = "completed" /\ key.answer = "denied" =>
    key.about \notin Started

------------------------------------------------------------------------------
(* The start handlers of module SagaOrchestrator: one per transaction.    *)
Working(t) ==
  { r \in Requests :
      /\ handler[r].stage \in { "register", "create", "dispatch", "answer" }
      /\ Mine(r) = t }

Stored(t, answer) ==
  \E r \in Requests :
    handler[r] = [stage |-> "stored", txn |-> t, says |-> answer]

StageOf(t) ==
  CASE Working(t) # {} -> handler[CHOOSE r \in Working(t) : TRUE].stage
    [] Working(t) = {} /\ Stored(t, "accepted") -> "accepted"
    [] Working(t) = {} /\ ~ Stored(t, "accepted") /\ Stored(t, "denied") ->
         "denied"
    [] OTHER -> "new"

Orchestrator == INSTANCE SagaOrchestrator WITH
  Txn <- Requests,
  TypeOf <- [t \in Requests |-> Kind],
  MayExpire <- {},
  MaxRetries <- 0,
  Faults <- Faults \ { "overrun" },
  start <- [t \in Requests |-> StageOf(t)],
  delivery <- [attempt |-> 0, at |-> 0,
               seen |-> [status |-> "absent", outcome |-> "none",
                         step |-> "none"]],
  expired <- {},
  poller <- [todo |-> {}, mark |-> {}]

(***************************************************************************)
(* The assumption of module SagaOrchestrator: seen by the saga, a          *)
(* transaction has one start handler at a time, which either gets its      *)
(* answer stored or begins anew.  So it is until a lease is overrun.       *)
(***************************************************************************)
ImplementsStarts ==
  /\ Orchestrator!Init
  /\ [][OnTime' => [Orchestrator!Next]_(Orchestrator!vars)]_startVars
==============================================================================
