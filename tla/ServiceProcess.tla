---------------------------- MODULE ServiceProcess ----------------------------
(***************************************************************************)
(* The process of a service: platform/lifecycle runs an HTTP server, the   *)
(* consumer of platform/rabbitmq and, in the orchestrator, the timeout     *)
(* poller as goroutines under one context, and stops them together when    *)
(* one of them ends or a signal arrives.  The broker holds the one queue   *)
(* that the process consumes.                                              *)
(*                                                                         *)
(* The handler is open: it may succeed or fail each time.                  *)
(***************************************************************************)
EXTENDS Naturals, Sequences

CONSTANTS
  Messages,   \* the messages that are sent to the queue, each once
  Malformed,  \* those that UnmarshalEnvelope refuses
  MaxRetries  \* RetryConfig.MaxRetries (3 in production)

ASSUME ProcessAssumption ==
  /\ Malformed \subseteq Messages
  /\ "none" \notin Messages
  /\ MaxRetries \in Nat

VARIABLES
  ready,      \* the broker: messages waiting in the queue
  unacked,    \* the broker: the message delivered and not answered
  channel,    \* the AMQP channel of the consumer
  inbox,      \* a delivery in the Go channel that Consume reads
  consumer,   \* the goroutine in Consume and handleDelivery
  poller,     \* the goroutine in TimeoutPoller.Run
  server,     \* the HTTP server
  busy,       \* an HTTP request is in work
  main,       \* the goroutine in lifecycle.Run
  cancelled,  \* the context is done
  sent,       \* history: messages that were sent
  handled,    \* history: messages whose handler returned nil
  dropped     \* history: messages rejected without requeue

brokerVars == << ready, unacked, sent, dropped >>

goVars == << poller, server, busy, main >>

processVars ==
  << ready, unacked, channel, inbox, consumer, poller, server, busy, main,
     cancelled, sent, handled, dropped >>

------------------------------------------------------------------------------
(* "starting": before Qos and Consume; "select": at the select statement.  *)
ConsumerStages == { "starting", "select", "handle", "backoff", "returned" }

Consumers ==
  [at : ConsumerStages, msg : Messages \cup { "none" }, attempt : 0..MaxRetries]

NoDelivery(stage) == [at |-> stage, msg |-> "none", attempt |-> 0]

ProcessInit ==
  /\ ready = << >>
  /\ unacked = "none"
  /\ channel = "closed"
  /\ inbox = "none"
  /\ consumer = NoDelivery("returned")
  /\ poller = "returned"
  /\ server = "closed"
  /\ busy = FALSE
  /\ main = "down"
  /\ cancelled = TRUE
  /\ sent = {}
  /\ handled = {}
  /\ dropped = {}

------------------------------------------------------------------------------
(* The broker.                                                            *)

Send(m) ==
  /\ m \in Messages \ sent
  /\ sent' = sent \cup { m }
  /\ ready' = Append(ready, m)
  /\ UNCHANGED << unacked, channel, inbox, consumer, goVars, cancelled,
                  handled, dropped >>

(* Mutant: autoAck.                                                       *)
DeliverAcked ==
  /\ channel = "open"
  /\ consumer.at # "starting"
  /\ inbox = "none"
  /\ ready # << >>
  /\ ready' = Tail(ready)
  /\ inbox' = Head(ready)
  /\ UNCHANGED << unacked, channel, consumer, goVars, cancelled, sent,
                  handled, dropped >>

(* A prefetch of one: nothing is delivered while an answer is due.  The    *)
(* subscription outlives Consume, it ends with the channel.                *)
Deliver ==
  /\ channel = "open"
  /\ consumer.at # "starting"
  /\ unacked = "none"
  /\ ready # << >>
  /\ ready' = Tail(ready)
  /\ unacked' = Head(ready)
  /\ inbox' = Head(ready)
  /\ UNCHANGED << channel, consumer, goVars, cancelled, sent, handled,
                  dropped >>

(* Mutant: what comes back joins the queue at its end.                    *)
RequeuedLast == IF unacked = "none" THEN ready ELSE Append(ready, unacked)

(* A message that comes back takes its old place, the first.              *)
Requeued == IF unacked = "none" THEN ready ELSE << unacked >> \o ready

Unanswered == UNCHANGED << ready, unacked >>

(* d.Ack and d.Nack; on a closed channel they fail, which is ignored.     *)
Answer ==
  IF channel = "open"
  THEN unacked' = "none" /\ UNCHANGED ready
  ELSE Unanswered

Requeue == ready' = Requeued /\ unacked' = "none"

(* The channel fails, or its connection.  A delivery that has reached the  *)
(* Go channel may still be read from it.                                   *)
ChannelFails ==
  /\ channel = "open"
  /\ channel' = "closed"
  /\ Requeue
  /\ inbox' \in { inbox, "none" }
  /\ UNCHANGED << consumer, goVars, cancelled, sent, handled, dropped >>

------------------------------------------------------------------------------
(* The consumer.                                                          *)

(* Mutant: the end of a task is logged only.                              *)
TaskEndsAlone == UNCHANGED cancelled

(* A task has returned: the context is cancelled, if it is not already.   *)
TaskEnds == cancelled' = TRUE

(* Qos and Consume.                                                       *)
Subscribe ==
  /\ consumer.at = "starting"
  /\ IF channel = "open"
     THEN consumer' = NoDelivery("select") /\ UNCHANGED cancelled
     ELSE consumer' = NoDelivery("returned") /\ TaskEnds
  /\ Unanswered
  /\ UNCHANGED << channel, inbox, goVars, sent, handled, dropped >>

(* The select may take a delivery although the context is done.           *)
Take ==
  /\ consumer.at = "select"
  /\ inbox \notin Malformed \cup { "none" }
  /\ consumer' = [at |-> "handle", msg |-> inbox, attempt |-> 0]
  /\ inbox' = "none"
  /\ UNCHANGED << brokerVars, channel, goVars, cancelled, handled >>

TakeMalformed ==
  /\ consumer.at = "select"
  /\ inbox \in Malformed
  /\ inbox' = "none"
  /\ Answer
  /\ dropped' = IF channel = "open"
                THEN dropped \cup { inbox } ELSE dropped
  /\ UNCHANGED << channel, consumer, goVars, cancelled, sent, handled >>

HandlerSucceeds ==
  /\ consumer.at = "handle"
  /\ handled' = handled \cup { consumer.msg }
  /\ consumer' = NoDelivery("select")
  /\ Answer
  /\ UNCHANGED << channel, inbox, goVars, cancelled, sent, dropped >>

(* Mutant: one attempt too many.                                          *)
HandlerFailsOnceMore ==
  /\ consumer.at = "handle"
  /\ consumer.attempt <= MaxRetries
  /\ consumer' = [consumer EXCEPT !.at = "backoff", !.attempt = @ + 1]
  /\ UNCHANGED << brokerVars, channel, inbox, goVars, cancelled, handled >>

(* With a context that is done a handler fails sooner than it would.      *)
HandlerFails ==
  /\ consumer.at = "handle"
  /\ consumer.attempt < MaxRetries
  /\ consumer' = [consumer EXCEPT !.at = "backoff", !.attempt = @ + 1]
  /\ UNCHANGED << brokerVars, channel, inbox, goVars, cancelled, handled >>

(* Mutant: the exhausted delivery is not answered.                        *)
RetriesEndSilently ==
  /\ consumer.at = "handle"
  /\ consumer.attempt = MaxRetries
  /\ consumer' = NoDelivery("select")
  /\ UNCHANGED << brokerVars, channel, inbox, goVars, cancelled, handled >>

RetriesExhausted ==
  /\ consumer.at = "handle"
  /\ consumer.attempt = MaxRetries
  /\ consumer' = NoDelivery("select")
  /\ Answer
  /\ dropped' = IF channel = "open"
                THEN dropped \cup { consumer.msg } ELSE dropped
  /\ UNCHANGED << channel, inbox, goVars, cancelled, sent, handled >>

BackoffElapses ==
  /\ consumer.at = "backoff"
  /\ consumer' = [consumer EXCEPT !.at = "handle"]
  /\ UNCHANGED << brokerVars, channel, inbox, goVars, cancelled, handled >>

(* Mutant: on shutdown the message is rejected instead of requeued.       *)
BackoffRejected ==
  /\ consumer.at = "backoff"
  /\ cancelled
  /\ consumer' = NoDelivery("select")
  /\ Answer
  /\ dropped' = dropped \cup { consumer.msg }
  /\ UNCHANGED << channel, inbox, goVars, cancelled, sent, handled >>

BackoffCancelled ==
  /\ consumer.at = "backoff"
  /\ cancelled
  /\ consumer' = NoDelivery("select")
  /\ IF channel = "open" THEN Requeue ELSE Unanswered
  /\ UNCHANGED << channel, inbox, goVars, cancelled, sent, handled, dropped >>

ConsumerStops ==
  /\ consumer.at = "select"
  /\ cancelled
  /\ consumer' = NoDelivery("returned")
  /\ UNCHANGED << brokerVars, channel, inbox, goVars, cancelled, handled >>

DeliveriesClosed ==
  /\ consumer.at = "select"
  /\ channel = "closed"
  /\ inbox = "none"
  /\ consumer' = NoDelivery("returned")
  /\ TaskEnds
  /\ UNCHANGED << brokerVars, channel, inbox, goVars, handled >>

ConsumerStep ==
  \/ Subscribe
  \/ Take
  \/ TakeMalformed
  \/ HandlerSucceeds
  \/ HandlerFails
  \/ RetriesExhausted
  \/ BackoffElapses
  \/ BackoffCancelled
  \/ ConsumerStops
  \/ DeliveriesClosed

------------------------------------------------------------------------------
(* The poller, the server and lifecycle.Run.                              *)

OnlyGo ==
  UNCHANGED << brokerVars, channel, inbox, consumer, handled >>

PollerStep ==
  /\ \/ poller = "ticking" /\ poller' = "polling"
     \/ poller = "polling" /\ poller' = "ticking"
  /\ UNCHANGED << server, busy, main, cancelled >>
  /\ OnlyGo

PollerStops ==
  /\ poller = "ticking"
  /\ cancelled
  /\ poller' = "returned"
  /\ UNCHANGED << server, busy, main, cancelled >>
  /\ OnlyGo

ListenFails ==
  /\ server = "listening"
  /\ server' = "closed"
  /\ cancelled' = TRUE
  /\ UNCHANGED << poller, busy, main >>
  /\ OnlyGo

RequestArrives ==
  /\ server = "listening"
  /\ busy' = TRUE
  /\ UNCHANGED << poller, server, main, cancelled >>
  /\ OnlyGo

RequestEnds ==
  /\ busy' = FALSE
  /\ UNCHANGED << poller, server, main, cancelled >>
  /\ OnlyGo

(* A signal, or the context: Shutdown is called, which closes the          *)
(* listener first.                                                         *)
BeginShutdown(signalled) ==
  /\ main = "up"
  /\ signalled \/ cancelled
  /\ main' = "shutting"
  /\ cancelled' = TRUE
  /\ server' = "closed"
  /\ UNCHANGED << poller, busy >>
  /\ OnlyGo

(* When the requests in work have ended, or after ShutdownTimeout.        *)
ShutdownReturns ==
  /\ main = "shutting"
  /\ main' = "waiting"
  /\ UNCHANGED << poller, server, busy, cancelled >>
  /\ OnlyGo

(* The process ends and the broker notices: the deferred Close calls, or   *)
(* the connection breaks.                                                  *)
Exit ==
  /\ main' = "down"
  /\ channel' = "closed"
  /\ Requeue
  /\ inbox' = "none"
  /\ consumer' = NoDelivery("returned")
  /\ poller' = "returned"
  /\ server' = "closed"
  /\ busy' = FALSE
  /\ cancelled' = TRUE
  /\ UNCHANGED << sent, handled, dropped >>

(* wg.Wait: all tasks have returned.                                      *)
RunReturns ==
  /\ main = "waiting"
  /\ consumer.at = "returned"
  /\ poller = "returned"
  /\ Exit

Kill ==
  /\ main # "down"
  /\ Exit

(* main: the broker is connected to and Run is called.  A main that fails  *)
(* before that has changed nothing.                                        *)
Start ==
  /\ main = "down"
  /\ main' = "up"
  /\ channel' = "open"
  /\ consumer' = NoDelivery("starting")
  /\ poller' = "ticking"
  /\ server' = "listening"
  /\ cancelled' = FALSE
  /\ UNCHANGED << brokerVars, inbox, busy, handled >>

------------------------------------------------------------------------------
ProcessNext ==
  \/ \E m \in Messages : Send(m)
  \/ Deliver
  \/ ChannelFails
  \/ ConsumerStep
  \/ PollerStep
  \/ PollerStops
  \/ ListenFails
  \/ RequestArrives
  \/ RequestEnds
  \/ \E signalled \in BOOLEAN : BeginShutdown(signalled)
  \/ ShutdownReturns
  \/ RunReturns
  \/ Kill
  \/ Start

ProcessSpec == ProcessInit /\ [][ProcessNext]_processVars

(***************************************************************************)
(* Goroutines run and the broker delivers.  Shutdown has a timeout, and so *)
(* have the calls over HTTP.  Those to the database and the broker have    *)
(* none: that a handler and a poll return is assumed of these two, and is  *)
(* not a promise of the code.  A select with several ready                 *)
(* cases picks one at random, so the case of the context is not passed     *)
(* over for ever.  Nobody need start the process, send or request          *)
(* anything, and nothing need fail.                                        *)
(***************************************************************************)
ProcessFairness ==
  /\ WF_processVars(Deliver)
  /\ WF_processVars(ConsumerStep)
  /\ SF_processVars(ConsumerStops)
  /\ WF_processVars(PollerStep)
  /\ SF_processVars(PollerStops)
  /\ WF_processVars(BeginShutdown(FALSE))
  /\ WF_processVars(ShutdownReturns)
  /\ WF_processVars(RunReturns)

FairProcessSpec == ProcessSpec /\ ProcessFairness

------------------------------------------------------------------------------
(* Properties.                                                            *)

(* Typing; a goroutine that has returned or not begun holds no delivery.  *)
ProcessTypeOK ==
  /\ ready \in Seq(Messages)
  /\ unacked \in Messages \cup { "none" }
  /\ channel \in { "open", "closed" }
  /\ inbox \in Messages \cup { "none" }
  /\ consumer \in Consumers
  /\ consumer.msg # "none" <=> consumer.at \in { "handle", "backoff" }
  /\ poller \in { "ticking", "polling", "returned" }
  /\ server \in { "listening", "closed" }
  /\ busy \in BOOLEAN
  /\ main \in { "up", "shutting", "waiting", "down" }
  /\ cancelled \in BOOLEAN
  /\ sent \subseteq Messages
  /\ handled \subseteq Messages
  /\ dropped \subseteq Messages

(* The queue as the broker keeps it, the delivered message in its place.  *)
Backlog == Requeued

Elements(s) == { s[i] : i \in DOMAIN s }

(***************************************************************************)
(* At-least-once delivery: through failing handlers, lost channels,        *)
(* shutdowns and kills a message is in the queue until its handler has     *)
(* succeeded or it was rejected.                                           *)
(***************************************************************************)
NothingIsLost == sent \subseteq Elements(Backlog) \cup handled \cup dropped

(***************************************************************************)
(* What is handled is the first message of the queue, also by a handler    *)
(* that works on after its channel was lost and the broker has the message *)
(* back: no other handler gets it, or a later one, meanwhile.              *)
(***************************************************************************)
HeadIsHandled ==
  consumer.msg # "none" => Backlog # << >> /\ Head(Backlog) = consumer.msg

(***************************************************************************)
(* A service does not linger half dead: when a task has ended, the server  *)
(* has failed or the consumer's channel is lost, the process ends, however *)
(* many messages wait and however often their handlers fail.               *)
(***************************************************************************)
StopsTogether ==
  main # "down" /\ (cancelled \/ channel = "closed")
    ~> main = "down"

(***************************************************************************)
(* A process that stays up with its channel gets every message out of the *)
(* queue, whether its handler succeeds or fails.                           *)
(***************************************************************************)
BacklogDrains ==
  <>[](main = "up" /\ channel = "open")
    => \A m \in Messages : m \in sent ~> m \notin Elements(Backlog)

(***************************************************************************)
(* The process is a serial delivery of its queue: this is what the modules *)
(* of the services take a consumer for.                                    *)
(***************************************************************************)
Serial == INSTANCE SerialDelivery WITH
  backlog <- Backlog,
  tries <- IF channel = "open" THEN consumer.attempt ELSE 0

ImplementsSerialDelivery == Serial!Spec
==============================================================================
