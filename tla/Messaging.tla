------------------------------ MODULE Messaging ------------------------------
(***************************************************************************)
(* The RabbitMQ topology of internal/platform/rabbitmq and the envelopes   *)
(* of internal/platform/messaging.  There is one durable queue per         *)
(* consuming service.  Each service reads its queue with one consumer and  *)
(* a prefetch of one, so the message being handled is the head of the      *)
(* queue: it leaves the queue when it is acknowledged or rejected and is   *)
(* delivered again, first, when the consumer goes away without doing so.   *)
(*                                                                         *)
(* An envelope is its routing key, the transaction it is about and, on a   *)
(* wallet command, the source step that names the wallet movement.  The    *)
(* rest of a payload is determined by the transaction.                     *)
(***************************************************************************)
EXTENDS Sequences

NoStep == "none"

Message(key, txn, step) == [key |-> key, txn |-> txn, step |-> step]

CommandKeys ==
  { "payments.deposit.requested", "wallet.debit.requested",
    "wallet.credit.requested", "access.grant.requested",
    "access.revoke.requested" }

OutcomeKeys ==
  { "wallet.debited", "wallet.debit.rejected", "wallet.credited",
    "access.granted", "access.grant.conflicted", "access.revoked",
    "access.revoke.rejected", "provider.charge.succeeded",
    "provider.charge.failed" }

(* The source steps the orchestrator puts on wallet commands.             *)
SourceSteps ==
  { NoStep, "purchase_debit", "purchase_compensation", "deposit_credit",
    "refund_credit" }

CommandQueues ==
  { "payments.commands", "wallets.commands", "catalog_access.commands" }

OutcomesQueue == "saga.outcomes"

DeadLetterQueue == "workflow.dlq"

Queues == CommandQueues \cup { OutcomesQueue, DeadLetterQueue }

(* The routing keys that bind a queue to the exchange it is declared on.  *)
RoutingKeys(q) ==
  CASE q = "payments.commands" -> { "payments.deposit.requested" }
    [] q = "wallets.commands" ->
         { "wallet.debit.requested", "wallet.credit.requested" }
    [] q = "catalog_access.commands" ->
         { "access.grant.requested", "access.revoke.requested" }
    [] q = "saga.outcomes" -> OutcomeKeys
    [] OTHER -> {}

(***************************************************************************)
(* DeclareTopology binds a queue once per routing key, so a queue declared *)
(* without routing keys is bound to nothing, not even to a fanout exchange.*)
(***************************************************************************)
IsBound(q) == RoutingKeys(q) # {}

NoQueuedMessages == [q \in Queues |-> << >>]

(* A topic exchange copies a message to every queue bound with its key.   *)
Publish(queues, msg) ==
  [q \in Queues |-> IF msg.key \in RoutingKeys(q)
                    THEN Append(queues[q], msg)
                    ELSE queues[q]]

(* d.Ack: the message being handled leaves its queue.                     *)
Ack(queues, q) == [queues EXCEPT ![q] = Tail(@)]

(***************************************************************************)
(* d.Nack(false, false): the message leaves its queue and the broker       *)
(* routes it through the dead-letter exchange, which keeps it only if a    *)
(* queue is bound there.                                                   *)
(***************************************************************************)
Reject(queues, q) ==
  [p \in Queues |->
     CASE p = q -> Tail(queues[q])
       [] p = DeadLetterQueue /\ p # q /\ IsBound(p) ->
            Append(queues[p], Head(queues[q]))
       [] OTHER -> queues[p]]
==============================================================================
