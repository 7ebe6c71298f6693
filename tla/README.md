# A verification of the transaction sagas

The repository is a wallet and purchase backend: four Go services and one
broker. A client deposits money, buys access to an offering, or has a purchase
refunded. Each of these is a saga that touches several services, none of which
shares a transaction with another. These modules model the saga, the services it
drives and the broker between them; TLC checks them on small instances and TLAPS
proves the central results for every instance.

Contents: 1 the system, 2 the modules, 3 the runs, 4 bounds and fairness,
5 disagreements found, 6 proofs, 7 what is left out, 8 plan, 9 how to run.

## 1. The system

### Components

| component | state it keeps | operations that change it |
|---|---|---|
| saga-orchestrator: start handlers (`saga/usecases/start*`) | their place in a request | reserve the key, eligibility check, register, create saga, publish first command, store or release |
| saga-orchestrator: outcome consumer (`usecases/handleoutcome`) | the saga row it read | eleven outcome handlers |
| saga-orchestrator: timeout poller (`usecases/timeout`) | the rows it listed | PATCH `timed_out`, mark the saga |
| saga rows (`saga/repository`, `saga/domain`) | status, outcome, step, timeout | create, update status (validated), update step (unconditional) |
| idempotency keys (`saga/usecases/idempotency`, `saga/repository`) | reservation with its lease, stored answer | reserve, finalize, mark retryable, reclaim, expire |
| payments: ledger (`payments/domain`, `payments/repository`) | transaction status, reason, provider reference | register, PATCH status; list page by page |
| payments: deposit command and provider | cached provider answers | charge |
| wallets | balance, movement journal | debit, credit |
| catalog-access | access records | grant, revoke; eligibility checks read |
| broker (`platform/rabbitmq/topology.go`, `publisher.go`) | five queues | publish, deliver, acknowledge, reject, requeue |
| every service's process (`platform/rabbitmq/consumer.go`, `platform/lifecycle`) | a channel, a delivery and its attempt, goroutines under one context | consume, retry, back off, requeue; start, shut down, die |
| read APIs, http helpers, configuration, migrations | none of its own | none |

### How they interact

- **HTTP.** The client calls the start handlers. A start handler calls
  catalog-access (eligibility) and payments (register). The consumer and the
  poller call payments (`PATCH .../status`). A call may take effect and still
  be reported as failed.
- **Messages.** Three command queues (payments, wallets, catalog-access) and one
  outcome queue, each read by one serial consumer with prefetch 1. Delivery is at
  least once. A handler that fails is tried again in place, then rejected.
- **Shared rows.** A saga row is written by a start handler, by the consumer
  and by the poller. The ledger row of the same transaction lives in another
  database and is written by the same three over HTTP. No lock spans the two.

A purchase, when all goes well:

    client -> start handler: eligible? register, create saga, publish debit
    wallets: debit            -> wallet.debited
    consumer: publish grant, step := purchase_grant
    catalog-access: grant     -> access.granted
    consumer: PATCH completed, saga := completed

A grant that conflicts makes the consumer store `compensating` and publish a
credit; the answer to that ends the saga as compensated.

### What is hard, and what makes each component correct

The hard part is that a handler is a read followed by up to three calls, any of
which may fail or be followed by a crash, while the poller writes the same two
rows, and that every command and outcome may arrive twice or late. In front
of this stand the idempotency keys, whose rows are released by a clock, by failing
handlers and by crashes, and updated without a look at what they say by then.

| component | what must hold | properties |
|---|---|---|
| consumer and poller | the two rows of a transaction agree once the saga ended, and then never change | `TerminalSagaMatchesLedger`, `TimedOutSagaHasLedgerVerdict`, `SettledIsFinal` |
| | what a writer relies on between its calls is not undone by the other | `WritersAreNotOvertaken` |
| | a decided transaction does not leave its saga open when nothing fails | `VerdictReachesSaga` |
| | no answer is consumed before the row names the step it answers | `AnswerFindsItsStep` |
| | a credit on its way is one the saga asked for | `CompensationIsRecorded` |
| | the message that moves a running saga on is in a queue, whatever failed before | `OpenSagaIsDriven` |
| | every accepted transaction ends, none stays running | `AcceptedIsSettled`, `RunningEnds`, `CompensationEnds` |
| ledger | a verdict is never revised; a deposit completes with its provider reference | `ImplementsSettlement`, `CompletedDepositHasProviderRef` |
| start handlers and keys | who is told 202 has a transaction, a saga and a command, whatever failed before | `AcceptedIsDispatched` |
| | repetitions are one transaction, and nobody hears of somebody else's | `OneTransactionPerPayload`, `AnswerIsToThePayload` |
| | one handler at a time acts under a key, and a stored answer stays | `OneHandlerPerTransaction`, `StoredAnswerIsFinal` |
| | the keys give the orchestrator one start handler per transaction | `ImplementsStarts` |
| | who was refused for good has started nothing | `RefusedIsNotStarted` |
| consumer and process | a message is in the queue until it is handled or rejected, and is handled at its head only | `NothingIsLost`, `HeadIsHandled` |
| | the process is the serial consumer that the other modules assume | `ImplementsSerialDelivery` |
| | it stops as a whole, and drains its queue while it is up | `StopsTogether`, `BacklogDrains` |
| transaction list | pages neither repeat nor skip a transaction | `PagesAreOneList`, `NothingIsSkipped` |
| wallets | a command moves money once, balance and journal agree, never below zero | `MovedOnce`, `JournalExplainsBalance`, `TypeOK` |
| catalog-access | one active access per user and offering, and a revoked one stays revoked | `OneActiveAccess`, `RevokedStaysRevoked` |
| | paid back means no access | `PaidBackGivesNoAccess` |
| whole system | what the ledger says is what happened to money and access | `PurchaseVerdictIsTrue`, `CreditVerdictIsTrue`, `BalanceMatchesLedger`, `RefundedOnce`, `FailedPurchaseKeepsMoney` |

`PROJECT.json` lists the hazards, 39 of them, each at its line, with the
properties that watch it or the reason why none does.

## 2. The modules

| module | models | kind |
|---|---|---|
| `Messaging` | topology, envelopes, publish, acknowledge, reject | operators |
| `Ledger` | the status machine of payments and its two writes | operators |
| `Workflows` | saga state machine, the three workflow tables and the outcome handlers | operators |
| `SagaOrchestrator` | the orchestrator process and the ledger rows it writes | state machine |
| `Settlement` | what a client is promised | abstract specification |
| `Wallets` | the wallets service | state machine |
| `CatalogAccess` | the catalog-access service | state machine |
| `SagaSystem` | `SagaOrchestrator` with `Wallets`, `CatalogAccess` and the provider | composition |
| `Transactions` | the two constants that the services share | constants |
| `StartCommands` | one idempotency key, the requests made with it and their start handlers | state machine |
| `ServiceProcess` | a service's process: consumer, poller, server, shutdown, and its queue | state machine |
| `SerialDelivery` | what a handler may assume of its queue | abstract specification |
| `TransactionPages` | the paginated list of transactions | state machine |
| `MCOrchestrator`, `MCSystem`, `MCServices`, `MCStartCommands`, `MCServiceProcess` | constants for TLC | model checking |
| `SagaOrchestratorProofs`, `SagaVerdictProofs`, `SagaStepProofs`, `SagaSystemProofs`, `StartCommandsProofs`, `ServiceProcessProofs`, `ServicesProofs` | theorems | proofs |
| `SumTheorems` | sums over finite sets, for the proofs | lemmas |

The modules stand in this order, each resting on what the next one shows:

    Settlement            what a client is promised
      <- SagaOrchestrator   implements it; assumes one start handler per
                            transaction and a serial consumer per queue
           <- SagaSystem      implements it with the real services
           <- StartCommands   implements its start handlers with keys
    SerialDelivery        the consumer the others assume
      <- ServiceProcess     implements it

**Handlers as sequences of calls** (`Workflows`). A handler of the code reads
the saga row once and then decides everything from that copy. So a handler is an
operator from the row it read to the sequence of calls it will make: `patch` (the
ledger), `publish` (a command), `status` (`UpdateSagaStatus`), `step`
(`UpdateSagaStep`). The empty sequence is a handler that ignores the event.
`HandlerCalls` is the workflow table.

**One action per call** (`SagaOrchestrator`). `ReadSaga` is the lookup with which every
attempt begins; then `PatchTransaction`, `PublishNext`, `UpdateSagaStatus`,
`UpdateSagaStep` make the next call, and `AckOutcome` acknowledges. Each of
them can interleave with the poller (`ListTimedOut`, `PatchTimedOut`,
`MarkTimedOut`), with the start handlers (`Precheck`, `RegisterTransaction`,
`CreateSaga`, `Dispatch`) and with the other services. A 409 of the ledger is
`PatchRefused`. A transition the saga refuses ends the handler without an error,
as `ErrIllegalTransition` does in the code.

| variable | code |
|---|---|
| `saga` | `saga_orchestrator.saga_instances`: status, outcome, current step |
| `ledger` | `payments.transactions`: status, status reason, provider reference |
| `queues` | the five queues of `DefaultTopology` |
| `start` | where the handler of `POST /deposits`, `/purchases`, `/refunds` is |
| `delivery` | `attempt` and the local `saga` of `handleDelivery` and `Execute`; `at` is the program counter |
| `expired` | the sagas with `timeout_at < now` |
| `poller` | the slice that `ListTimedOutSagas` returned, and the row between its two writes |
| `faults` | history: how many faults have happened |

**Open participants.** In `SagaOrchestrator` a command is answered by any outcome its kind
allows. `SagaSystem` replaces this by `INSTANCE Wallets`, `INSTANCE CatalogAccess`
and the provider: its action for a command is `Answer` conjoined with the
service's own action, and the eligibility checks read the access records as they
are. `SystemImplementsOrchestrator` proves that this composition is a
refinement, so what is proved of the orchestrator holds of the whole system.

**Keys and start handlers** (`StartCommands`). One key of one scope, and the
requests made with it at the same time or one after the other. A request brings a fresh
transaction id, so the request itself stands for it, and a payload for its
fingerprint.

| variable | code |
|---|---|
| `key` | the row of `idempotency_keys`: state, hash, transaction id, response; `about` is the transaction that the stored body names; `lapsed` is `expires_at <= now` |
| `handler` | where the request is in `Execute`, its transaction id and what its client was told |
| `saga`, `ledger`, `queues` | the rows it creates, the command it publishes |
| `eligible` | what the eligibility check will say; a started purchase or refund makes it say no (`TakesEffect`); what other transactions do to it is left out |

`Reserve` is `ReserveIdempotencyKey`, an insert or a row locked for update, hence
one step; `Claimed` is where a reclaimed row keeps its transaction id or not.
`ServingFails` is any of the three calls failing before or after it took effect,
and leads to `Release`, which may fail too. `Completed` and `Retryable` are the two
updates that do not look at the row. The lease has two clocks: `LeaseLapses`
when nobody works under it, and the fault `LeaseOverrun` when somebody does. The
latter can happen, since calls to the database and the broker have no timeout,
and most properties are stated up to it (`OnTime`). The three start handlers
differ in their eligibility checks and in the command they publish, which
`Kind` selects.

**A service's process** (`ServiceProcess`). `lifecycle.Run` starts the consumer,
the poller and the server under one context, and one action stands for each way out
of a `select`: a delivery is ready, the context is done, the backoff has elapsed.
When several are, any may be taken. The broker's side is `ready` and `unacked`, the Go
side `inbox` (the channel between client library and `Consume`) and `consumer`. A lost
channel puts `unacked` back in its place while the handler works on, whose `Ack` then fails
unnoticed. A service without a poller is one whose poller never does anything
that matters.

**Serial delivery** (`SerialDelivery`). A backlog, the number of times its head
has failed, what was handled and what was given up. `ServiceProcess` implements
it with the backlog mapped to the queue with the delivered message in its place,
and the failures to the attempt as long as the channel is open. `SagaOrchestrator`
and `SagaSystem` take their consumers for this: what they call `delivery`, `RetryOrReject`
and a crash is the abstract behaviour.

**Pages** (`TransactionPages`). The query with its order and its cursor, one request
per page, and registrations in between. `created_at` is the time at which the
inserting transaction began, so rows may appear behind the cursor and share
their time with it. The query is stated by what SQL promises of `ORDER BY` and `LIMIT`
(`FirstRows`): a descending result of at most that many rows, such that whatever it leaves
out comes after a full one.

**Databases.** The wallets' debit and credit are one database transaction with
the row locked, hence one step. The statements of a grant or a revoke are one
step because their consumer is serial and the HTTP handlers of that service
only read. `ServiceCommitsOnly` separates the commit from the publish: a service
may commit, die and be given the command again.

**Abstract specification** (`Settlement`). A client sees a verdict and whether
it is settled. Verdicts move along the legal transitions, and a transaction is
settled only with a final verdict, after which nothing changes.
`SagaOrchestrator` implements it with the verdict mapped to the ledger status and the
settled set to the sagas that have ended.

Operators commented `Mutant:` stand beside the definition they vary. No
specification uses them; each is a plausible mistake in the code that makes one
of the properties fail.

## 3. The runs

Passing (distinct states in brackets):

| run | instance | question |
|---|---|---|
| `orchestrator_writers` (390,329) | a purchase that may time out, any two faults, three attempts | do the three threads ever make saga and ledger disagree, change a settled transaction, handle an answer before the row expects it, leave the saga running, or break `Settlement`? |
| `system_purchases` (901,924) | two purchases of one offering by one user, one may time out, one fault of any kind | does the verdict tell what happened to money and access? |
| `system_deposit` (417,368) | a deposit that may time out, one the provider refuses, a purchase that needs the money, one redelivery or rejection | are credits truthful; is a purchase that first lacked money right? |
| `system_settles` (169,952) | a purchase and its refund, which may time out; one failed call, crash or redelivery | does money come back once and only with the access revoked, is a running saga ever without the message that moves it, and is the purchase settled across all services? |
| `services` (38,289) | wallets: four transactions, three users, one without a wallet; catalog-access: the four as purchases, three for one offering, three refunds; payments: a listing of up to five rows with two times | does money move once, is access single and its revocation final, are pages one list, under every sequence of commands and requests? |
| `start_commands` (709,787) | three requests of one payload and one of another under one key, two failed calls, crashes or overrun leases | does the key give one transaction, one answer and one handler at a time? |
| `service_process` (37,262) | two messages and a malformed one, three attempts, any number of signals, lost channels, kills and restarts | is the process a serial at-least-once consumer that stops as a whole? |

Runs that show a disagreement, each with one property: `compensation`,
`late_credit`, `duplicate_debit`, `double_refund`, `refused_though_started`
(section 5).

Deadlock is checked in `services` and `service_process`, where there is always
another command, request or start. Everywhere else the system really stops: once
every transaction is settled or denied and the queues are empty, and once every
request under a key is answered.

## 4. Bounds and fairness

**Transactions** (`Txn`). A saga touches only its own two rows, so the
races between its writers show with one transaction, which leaves room for two
faults of any kind; the system's runs have two or three, which the serial consumer and
the poller's list mix. What transactions share are a wallet, an offering and the
purchase that a refund names, and transactions of one user meet on all of these.

**`MayExpire`** are the transactions slow enough to reach `timeout_at`; the
clock may pass it at any moment while they run.

**`MaxRetries`** is 3 in production. The runs use 1 or 2: a retry repeats the
same handler on a freshly read row, so what matters is that there is at least one
and that they can be exhausted. The proofs hold for any number.

**`Faults`, `MaxFaults`** name the kinds of fault and bound their number:
`call` (a call fails in transit, before or after it took effect), `crash` (the
orchestrator dies and is started again), `redelivery` (a service answered but
its command is delivered again), `rejection` (a command fails on every
attempt), `overrun` (a lease lapses under its handler). One fault suffices for
every violation found; `orchestrator_writers` and `start_commands` have two, as a
repetition may itself fail. `RunningEnds` needs more attempts than faults: with
`MaxRetries` 1 and two failed calls the outcome is rejected after the ledger was decided, the
poller's PATCH is then refused at each poll, and the saga stays running. That is
a limit of the code and is among the hazards. In `service_process` failures, losses and
kills are not bounded at all.

**Requests.** Three of one payload are needed for a repetition of a repetition, for
instance one that takes over a lapsed reservation while the answer of
another is stored; one of another payload shows the key reclaimed and, by the
third, reclaimed back. The three are interchangeable, and the run uses
that symmetry; it has no liveness property.

**Messages.** Two good messages show the order in which they are handled; the
malformed one may be anywhere between them.

**The poller's order.** The code visits rows by `timeout_at`; the model visits
them in any order.

**Amounts.** In the system every amount is 1 and the wallet opens with 0 or 2, so
that funds are enough or arrive only with a deposit; in `services` amounts are 1
and 2 and wallets open with 0 and 1, so that funds run out.

**Pages.** Page limits of 1 and 2 with up to five rows give listings of several pages,
with a boundary inside a group of equal times.

**Fairness.** Weak fairness of the outcome consumer, of the poller, of the clock,
and of each command consumer: all are goroutines that loop as long as their
process lives (`rabbitmq/consumer.go`, `usecases/timeout/usecase.go`), and the clock passes. There is none
for clients, who need not start or repeat anything, and none for faults. A crash is
followed by a restart: the compose file states no restart policy, so this is
an operator's doing and is assumed there. In `service_process` nobody need
start the process again; its fairness is that of goroutines, of `Shutdown`'s
timeout and of the broker, with the assumption that a handler and a poll return, although their
calls to the database and the broker have no timeout, and *strong* for the context's case of a `select`
(`ConsumerStops`, `PollerStops`): Go picks among the ready cases at random, so with
probability one it is not passed over for ever, which weak fairness would allow.
One instance of each service runs, as in the compose file.

## 5. Disagreements between code and documents

Each of these comes from a run that TLC ends with a short counterexample;
`PROJECT.json` quotes the lines.

1. `compensation`: the status `compensating` is stored before the credit is
   published. Dying in between, or a failed publish, loses the credit: the
   redelivered conflict is ignored since the saga is compensating already.
2. `compensation`, by another way: the saga may go from `timed_out` to
   `compensating`, the ledger may not go from `timed_out` to `compensated`. The
   money is handed back, the PATCH is refused on every attempt, the saga stays
   compensating.
3. `late_credit`: the poller writes back the step it copied when it listed the
   rows. A deposit that moved on in between no longer expects `wallet.credited` and
   stays timed out although it was credited.
4. `duplicate_debit`: a rejected debit is stored nowhere. A second copy of the
   command, after the wallet was filled, books it for a purchase that failed. The
   copy comes from a dispatch that was reported as failed and repeated, or
   from a crash before the answer was stored under the key.
5. `double_refund`: a revoke that finds the record revoked answers
   `access.revoked` for every refund that asks, so two refunds are credited.
6. `refused_though_started`: eligibility is checked before a repetition is
   recognised as one. A purchase whose dispatch was reported as failed, although
   the broker took the command, makes its own repetition ineligible: a 422 is
   stored under the key of a purchase that was paid for and granted.

Two more are in the model and need no run. The dead-letter queue has no routing
key and is never bound (`IsBound`), so rejected messages are dropped. And a
conflicting grant, like a rejected debit, is stored nowhere: a second copy of the
command, after the conflicting access was revoked by a refund, gives access to a
purchase that is being compensated. It takes two purchases of one offering, a refund of
the first and one failed call; the theorem `PayingBackEndsAccess` has the hypothesis
`AccessEndsUndisputed` that excludes it.

Because of 1 and 2, `system_settles` asks for settlement of a transaction
within its timeout, and no grant conflicts there; that compensation ends is what the
run `compensation` refutes. Because of 4 and 5 the passing runs of the system are
instances in which the second copy of a command finds the same funds or the
same access; `system_deposit` leaves out failed calls and crashes, which are what
publishes a command twice.

## 6. What is proved

All for every set of transactions, requests, payloads, users and messages, every
retry limit and any number of faults of any kind, except where a row names a hypothesis.

| theorem | module | says |
|---|---|---|
| `TypeCorrect` | `SagaOrchestratorProofs` | `Spec => []TypeOK` |
| `IInvHolds` | `SagaVerdictProofs` | `Spec => []IInv` |
| `SagaMatchesLedger`, `TimeoutIsInLedgerFirst`, `NobodyIsOvertaken` | `SagaVerdictProofs` | the two rows of a transaction agree |
| `SettledStaysSettled` | `SagaVerdictProofs` | the action property `SettledIsFinal` |
| `SettlementIsImplemented` | `SagaVerdictProofs` | `Spec => ImplementsSettlement` |
| `FInvHolds` | `SagaStepProofs` | rows, messages and calls fit the step they belong to |
| `DepositsKeepTheirReference`, `CompensationsAreRecorded`, `VerdictsReachTheirSaga` | `SagaStepProofs` | three safety invariants of the orchestrator |
| `AnswersFindTheirStep` | `SagaStepProofs` | `MaxFaults <= MaxRetries /\ Spec => []AnswerFindsItsStep` |
| `OInvHolds`, `OpenSagasAreDriven` | `SagaStepProofs` | no running saga is stranded, where `MaxFaults <= MaxRetries` and no command is given up on |
| `CompensationsAreDriven` | `SagaStepProofs` | nor a compensating one, until the first fault or its timeout |
| `SystemImplementsOrchestrator`, `SystemSagaMatchesLedger`, `SystemSagasAreDriven` | `SagaSystemProofs` | the system refines the orchestrator, and inherits its invariants |
| `SystemImplementsWallets`, `SystemImplementsCatalog`, `MoneyMovesOnce` | `SagaSystemProofs` | and it refines the two services, and inherits theirs |
| `SInvHolds`, `CreditVerdictsAreTrue`, `AccessIsPaidFor`, `RefundsEndAccess`, `PurchaseVerdictsAreTrue` | `SagaSystemProofs` | what the ledger and the access records say happened, happened; no hypothesis |
| `DInvHolds`, `PayingBackEndsAccess` | `SagaSystemProofs` | what was paid back gives no access, where `AccessEndsUndisputed` |
| `RefundsApartAreUndisputed` | `SagaSystemProofs` | `AccessEndsUndisputed` holds where `RefundsAreApart` |
| `RefundsInTurnAreSafe` | `SagaSystemProofs` | `RefundedOnce`, where `RefundsTakeTurns` |
| `BInvHolds`, `FailuresKeepMoney` | `SagaSystemProofs` | a failed purchase took no money, where `StartsOnce` |
| `PurchaseVerdictsAreWholeTruth` | `SagaSystemProofs` | `PurchaseVerdictIsTrue`, where both |
| `NInvHolds`, `WalletsMatchLedger` | `SagaSystemProofs` | `BalanceMatchesLedger`, where `StartsOnce` and `Txn` is finite |
| `StartTypeCorrect`, `SInvHolds` | `StartCommandsProofs` | typing and the inductive invariant of the keys |
| `AcceptedHasEverything`, `RepetitionsAreOne`, `AnswersMatchPayloads`, `HandlersAreAlone` | `StartCommandsProofs` | the four safety invariants of the keys |
| `StoredAnswersStay` | `StartCommandsProofs` | the action property `StoredAnswerIsFinal` |
| `RInvHolds`, `StartsAreImplemented` | `StartCommandsProofs` | `StartCommandsSpec => ImplementsStarts` |
| `PInvHolds`, `ProcessTypeCorrect`, `WorkIsOnTheHead` | `ServiceProcessProofs` | typing and the inductive invariant of a process; the head is what is handled |
| `DeliveryIsSerial`, `MessagesAreKept` | `ServiceProcessProofs` | `ProcessSpec => ImplementsSerialDelivery`; no message is lost |
| `WalletTypeCorrect`, `WalletMovesOnce`, `JournalIsExact` | `ServicesProofs` | no balance is negative; a command moves money once; a balance is the sum of its journal |
| `AccessTypeCorrect`, `AccessIsSingle`, `RevocationIsFinal` | `ServicesProofs` | one active access per user and offering; revoked stays revoked |
| `ListingIsOneList`, `ListingIsComplete`, `EveryPageExists` | `ServicesProofs` | pages repeat and skip nothing; the query always has a result |

Assumptions: `OrchestratorAssumption` (each transaction has a saga type, the bounds
are naturals), `SystemAssumption` and `WalletsAssumption` (amounts are positive, opening
balances are not negative, a refund names an original), `PagesAssumption` (ids and times
are ordered like naturals, the limits are positive), `StartAssumption` (`Kind` is a saga
type, the bound on faults is a natural, and the null value is no request and no payload) and
`ProcessAssumption` (the same of messages). All are evaluated by TLC in the passing runs.

**Saga and ledger.** `TerminalSagaMatchesLedger` is not inductive. The step that could
break it is `UpdateSagaStatus`: it ends the saga, and the ledger verdict was
written a call earlier, since when the poller and any retry may have run. So

    IInv == TypeOK /\ WritersAreNotOvertaken
                   /\ TerminalSagaMatchesLedger /\ TimedOutSagaHasLedgerVerdict

`WritersAreNotOvertaken` says what holds between the calls: while the
consumer handles an outcome the saga has not ended, since only the consumer
ends sagas and it holds one delivery at a time; and when its second call is next,
the verdict of its first still stands in the ledger, since the ledger's
transition table lets no timeout overwrite a verdict. For the poller it says that
between its two writes the ledger is past pending and not compensated, which needs
`TimedOutSagaHasLedgerVerdict` in turn.

The handlers enter the proof through one lemma, `HandlerShape`: every handler
makes no call, or a PATCH and a matching status update, or a publish and a step
update (preceded by a PATCH that is no verdict for a deposit), or the status
update of a compensation and a publish. With it no step of the
proof opens the workflow table again. The preservation proof has one lemma per
action, and each lemma one step per conjunct the action can disturb.

`SettledStaysSettled` and the refinement of `Settlement` follow from `IInv` and
its primed form: no action touches a row of an ended saga, and each action is a
step or a stutter of the abstract specification.

**Steps and messages** (`SagaStepProofs`). `IInv` knows nothing of the queues, so `FInv` adds
what a saga's row, a queued message and a handler's place say of each other: a row in a
step has the status and the type that step belongs to (`RowsFit`), a message is one its
transaction's type sends (`MessagesFit`), a credit on its way is recorded in the row,
also in the copy the poller holds (`CreditsFit`), a deposit past its charge has the
reference (`RefsFit`), and a ledger verdict with an open saga is one whose writer
is still at work or failed (`VerdictsFit`). `CompensationIsRecorded`,
`CompletedDepositHasProviderRef` and `VerdictReachesSaga` are parts of it.

`AnswerFindsItsStep` needs `WInv` on top: an answer waits behind the outcome whose handler
is to store the step (`AnswersWait`), each attempt but the first is paid for by a fault
(`AttemptsAreFaults`), and what the handler read is still current (`SeenIsCurrent`).
Its hypothesis `MaxFaults <= MaxRetries` is needed: if the handler may fail more often than
it is tried, its outcome is rejected after the command was published and before the
step was stored, and the answer finds the old one. TLC shows that with `MaxRetries` 1 and
`MaxFaults` 2. In production, where an outcome is tried again
three times, it means up to three failures in a whole execution: sufficient, and more than is
needed when they fall on different outcomes.

**No saga is stranded** (`SagaStepProofs`). `AcceptedIsSettled` is liveness and stays with TLC; its
safety core is proved. A saga is moved by messages only, so one that runs must have the command of its
step, or an answer to it, in some queue: `OpenSagaIsDriven`. A failed call, a crash or a
redelivery must not use up the one message before the next one is out. A service takes a command off its
queue only with an answer (or gives up on it, which is the excluded fault), so what can go wrong
is the end of a handler: the delivery of an awaited outcome is acknowledged, or rejected, and the
saga is where it was. `OInv` excludes both. Against the first: a handler that has
made its calls is not needed again (`DoneIsDone`), it publishes the next command before the
call that makes the saga wait for it (`FollowUpIsOut`, the order of `publishAccessGrant`), and a
verdict that reached the ledger but not the saga is that of the outcome being handled, which
the saga still wants, so that the next attempt repeats it (`VerdictIsCarried`).
Against the second: every attempt on an outcome of an open saga but the first was paid for by
a fault (`OpenAttemptsAreFaults`), and `MaxFaults <= MaxRetries`. The second hypothesis,
`"rejection" \notin Faults`, is as necessary: a command that its service gives up on has no answer, and only
the timeout ends its saga. The property is stated for a transaction within its timeout, since the poller
ends a running saga by itself.

`startPurchaseCompensation` has the other order: it writes the saga first. So a compensating saga is
driven only while nothing fails (`CompensationsAreDriven`): its credit is on the way or the
next call publishes it. The run `compensation` shows that one crash is enough to lose it.

**What happened to money and access** (`SagaSystemProofs`). The saga never looks into a
service; it knows an answer. `SInv` makes that knowledge exact: a queued answer, a step
stored in the row and a verdict of the ledger each prove a movement of money or an access
record (`MessagesProve`, `StepsProve`, `LedgerProves`), and each movement proves a
command that was right to send (`MovementsProve`, `AccessProves`). Most of it is
monotone, because movements are never deleted and a revoked access stays revoked, so that it
survives redelivery, lost answers and crashes. From it follows, with no hypothesis on
faults or timeouts: a completed deposit or refund was credited and a
failed one was not (`CreditVerdictIsTrue`), whoever was given access has paid
(`AccessIsPaidFor`), a refund is paid after the revocation (`RefundsEndAccess`), and a
completed or compensated purchase is what it says (`PurchaseVerdictsAreTrue`).

What remains is not true of the code in general, since a denied grant and a rejected debit
are stored nowhere (section 5). The theorems name the weakest condition found under
which it is true, and TLC has a counterexample without it:

- `AccessEndsUndisputed`: when a refund ends the access of a user to an offering, no other
  purchase of the two has a grant on its way, or a conflict that is not yet handled. It is an action
  property and says nothing of who may buy what: a user may be refunded and buy again, any
  number of times. Under it a denied purchase either stands beside the access it
  conflicted with, or is over (`Over`): its price is being handed back and no copy of its grant is
  left (`DInv`). Without it: two purchases and the refund of the first, one failed call.
  `RefundsAreApart`, that no one who has bought an offering that is refunded buys that
  offering again, is a condition on the constants that implies it (`RefundsApartAreUndisputed`).
- `RefundsTakeTurns`: a refund passes its eligibility check only while no other one of the same purchase
  is between its check and its revocation. The code has nothing that says so, which is the run
  `double_refund`. Under it the check is enough, whatever fails or is repeated, since the first refund
  has ended the access when the second one asks: a purchase is refunded once
  (`OneRefund`, `RefundsInTurnAreSafe`).
- `StartsOnce`: a purchase's start handler is not cut off between the publish of the debit and
  its stored answer. It is an action property, and a theorem has `[][StartsOnce]_systemVars` as
  a hypothesis; every other call may fail, any process may die at any other place, and
  every command may be delivered twice. Under it there is one copy of the debit
  command; a redelivered one is still the head of the wallets' queue, where it meets the
  balance it met before (`BInv`). Without it: the run `duplicate_debit`.

`BalanceMatchesLedger` is about a sum. `NInv` says that each balance is the opening one with
the sum of what its user's transactions come to (`BalanceIsNet`), where a transaction comes to its
credit less its debit; one movement changes one summand. That what an ended transaction comes to
is what its ledger status promises then needs no sum (`EndedNetIsDelta`).

The system also refines the specifications of `Wallets` and `CatalogAccess`, step by
step, so that the theorems of `ServicesProofs` hold of the whole system.

**Keys.** What makes the properties of `StartCommands` true is who holds the row. So
`SInv` is typing together with

- `Lease`: until a lease is overrun, a handler at work finds the row processing,
  unexpired, with its own transaction and payload, and is alone. `Claimable` is what
  keeps a second one out; `LeaseLapses` needs that nobody works;
- `Payed`: the transactions that the row, its answer and the handlers name were begun for
  the payloads they name. This is where reclaiming for another payload must give
  a new id;
- `Dispatched`: what a handler's place says it has done is there, and so is
  everything of a transaction whose acceptance is stored. It does not mention the
  lease, which is why `AcceptedIsDispatched` survives an overrun;
- `OneTransaction`: while only one payload is served and no answer has aged, the
  row's transaction is the only one registered. Here reclaiming for the same payload
  must keep the id.

The refinement needs three facts more (`RInv`): an id that no request has brought is
new everywhere (`Unused`), a row in processing names no transaction whose
answer was stored (`Unstored`), and a deposit is never refused (`Refusing`). A transaction's stage
(`StageOf`) is that of the handler that works on it, else the answer stored for
it, else new. Each step then is one start step of its transaction, or a stutter:
`Reserve` under an old id after a failure is a stutter, as the abstract handler has
already begun anew; `Replay` concerns no transaction. `ImplementsStarts` says
each step until the first overrun is a step of the orchestrator, as after it two
handlers do work on one transaction.

**Process.** `PInv` says who may hold a delivery: at most one of inbox and
handler does; with an open channel it is the unacknowledged one, with a lost one it
is still the head of the backlog, because nothing is delivered to a lost
channel; and a process that is down holds none. From this the refinement of
`SerialDelivery` follows step by step, and `NothingIsLost` with it.

**Services** (`ServicesProofs`). The wallets' typing and `MovedOnce` are inductive almost as they
stand. `JournalExplainsBalance` needs that the journal is finite (`JInv`), so that one
more movement adds one summand. For catalog-access, the insert's guard is the partial
unique index, and the index on `transaction_id` is why a repeated grant cannot revive a
revoked record. For the pages, `PInv` says where the cursor is: at the last row collected, with
all that was there at the beginning either collected or behind it. That the next
page has nothing of what was collected, and leaves out nothing before the new cursor, is
what the promise of `ORDER BY` and `LIMIT` gives; that the promise can be kept
(`EveryPageExists`) is proved by taking the newest row of a finite set, one after another.

**Finite sums** (`SumTheorems`). The induction theorems of the library take an operator as a
parameter, which the provers here cannot instantiate. `SetInduction` states induction over the
subsets of a finite set for a *set* of good subsets instead, and is proved from a least
counterexample under strict inclusion. With it `Sigma` is shown to exist, to add what an element adds,
and to agree with the `MapThenSumSet` of the community modules, with which the
properties are stated.

**Only model-checked.** Liveness under fairness: `AcceptedIsSettled`, `RunningEnds`, `StopsTogether`,
`BacklogDrains`. Every safety invariant and action property of the passing runs is
stated by a theorem; five of them under the hypotheses named above. `CompensationEnds` and the other
properties of the violation runs are refuted, not proved.

## 7. What is not modelled

- **Several instances of a service**, and consumers with a higher prefetch.
- **Lost publishes**: the publisher asks for no confirms. A command that vanishes
  leaves its saga to the poller, like a rejected one.
- **The publisher's channel alone**: its loss is a call that fails, of which there is a
  bounded number. That nobody reopens it is among the hazards.
- **Prices**: the price is read again on a retry; no code of the repository
  changes one, and amounts are constants of a transaction.
- **The provider's mock**: its delay, and the cache that a restart empties. Its answer is
  a function of the deposit.
- **Timing**: the pause between retries, the poll interval, HTTP timeouts, the
  provider's delay. A pause is a time at which others may step.
- **Validation errors and unknown routing keys**: they are refused or ignored
  before any state changes.
- **Dialling with retry**: it happens in `main` before anything else, and
  a failure ends the process with nothing changed.
- **Other read APIs, the cursor's encoding, logging, health, configuration, migrations**:
  they change no state of the sagas. The constraints that the migrations create
  are part of the operators of the repositories.

## 8. Plan

Done in this order: `Messaging`, `Ledger`, `Workflows`, `SagaOrchestrator`,
`Settlement` and its refinement, `Wallets`, `CatalogAccess`, `SagaSystem` and their
proofs; `StartCommands` with the refinement of the start handlers,
`ServiceProcess` with `SerialDelivery`, `TransactionPages`, and their proofs; then
the steps and messages of the orchestrator, what the whole system's verdicts
mean, the sums and the pages, and that no running saga is stranded.

What would come next:

1. `StartCommands` in front of `SagaSystem`, so that `StartsOnce` becomes a statement about
   keys and leases.
2. A publisher's channel that is lost for good, as a state of `ServiceProcess`.
3. Two instances of a service on one queue, which the compose file does not start.

## 9. Running

    tlc -config MCOrchestrator_writers.cfg MCOrchestrator
    tlc -config MCSystem_purchases.cfg MCSystem
    tlc -config MCStartCommands_keys.cfg MCStartCommands
    tlc -config MCServiceProcess.cfg MCServiceProcess
    tlapm SagaVerdictProofs.tla
    tlapm SagaSystemProofs.tla
    tlapm ServicesProofs.tla
    tlapm StartCommandsProofs.tla

`PROJECT.json` names the module, the configuration and the expected result of every
run, the lines each definition models, and the mutants.
