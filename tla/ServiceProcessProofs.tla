------------------------- MODULE ServiceProcessProofs -------------------------
(***************************************************************************)
(* At-least-once delivery and the serial handling of a queue by a service  *)
(* process, for any messages and any retry limit, and that the process     *)
(* implements SerialDelivery.                                              *)
(***************************************************************************)
EXTENDS ServiceProcess, SequenceTheorems, TLAPS

(* What the process holds of the delivery: in work or in the Go channel.  *)
Held == IF consumer.msg # "none" THEN consumer.msg ELSE inbox

(* It holds one message, and counts the attempts of the one in work.      *)
HoldsOne ==
  /\ consumer.msg # "none" => inbox = "none"
  /\ consumer.msg = "none" => consumer.attempt = 0

(***************************************************************************)
(* The delivery and the broker: while the channel is open the broker waits *)
(* for the answer to what the process holds; once it is closed the broker  *)
(* waits for nothing, and what the process still holds is first in the     *)
(* queue again.                                                            *)
(***************************************************************************)
HeldIsFirst ==
  /\ channel = "open" => unacked = Held
  /\ channel = "closed" => unacked = "none"
  /\ channel = "closed" /\ Held # "none" => ready # << >> /\ Head(ready) = Held

(* A process that is not running holds nothing.                           *)
DownIsEmpty ==
  main = "down" => /\ channel = "closed"
                   /\ inbox = "none"
                   /\ consumer.at = "returned"

PInv == ProcessTypeOK /\ HoldsOne /\ HeldIsFirst /\ DownIsEmpty

------------------------------------------------------------------------------
(* Sequences.                                                             *)

(* A message in front of a queue.                                         *)
LEMMA InFront ==
  ASSUME NEW S, NEW u \in S, NEW r \in Seq(S)
  PROVE  /\ << u >> \o r \in Seq(S)
         /\ << u >> \o r # << >>
         /\ Head(<< u >> \o r) = u
         /\ Tail(<< u >> \o r) = r
  OBVIOUS

(* It stays in front when the queue grows.                                *)
LEMMA InFrontOfAppend ==
  ASSUME NEW S, NEW u \in S, NEW r \in Seq(S), NEW m \in S
  PROVE  << u >> \o Append(r, m) = Append(<< u >> \o r, m)
<1>1. << u >> \in Seq(S) /\ << m >> \in Seq(S)
  OBVIOUS
<1>2. Append(r, m) = r \o << m >>
  BY AppendIsConcat
<1>3. Append(<< u >> \o r, m) = (<< u >> \o r) \o << m >>
  BY InFront, AppendIsConcat
<1> QED
  BY <1>1, <1>2, <1>3, ConcatAssociative

(* Taking the first message off and putting it back.                      *)
LEMMA HeadPutBack ==
  ASSUME NEW S, NEW s \in Seq(S), s # << >>
  PROVE  /\ Head(s) \in S
         /\ Tail(s) \in Seq(S)
         /\ << Head(s) >> \o Tail(s) = s
<1>1. Head(s) \in S /\ Tail(s) \in Seq(S)
  BY HeadTailProperties
<1>2. << Head(s) >> \o Tail(s) \in Seq(S)
  BY <1>1, InFront
<1>3. Len(<< Head(s) >> \o Tail(s)) = Len(s)
  BY <1>1
<1>4. \A i \in 1 .. Len(s) : (<< Head(s) >> \o Tail(s))[i] = s[i]
  BY <1>1
<1> QED
  BY <1>1, <1>2, <1>3, <1>4, SeqEqual

(* What a sequence has in it, when it grows or loses its head.            *)
LEMMA ElementsOf ==
  ASSUME NEW S, NEW s \in Seq(S)
  PROVE  /\ \A m \in S : Elements(Append(s, m)) = Elements(s) \cup { m }
         /\ s # << >> => Elements(s) = { Head(s) } \cup Elements(Tail(s))
<1>1. ASSUME NEW m \in S
      PROVE  Elements(Append(s, m)) = Elements(s) \cup { m }
  <2>1. DOMAIN Append(s, m) = DOMAIN s \cup { Len(s) + 1 }
    OBVIOUS
  <2>2. \A i \in DOMAIN s : Append(s, m)[i] = s[i]
    OBVIOUS
  <2>3. Append(s, m)[Len(s) + 1] = m
    OBVIOUS
  <2> QED
    BY <2>1, <2>2, <2>3 DEF Elements
<1>2. ASSUME s # << >>
      PROVE  Elements(s) = { Head(s) } \cup Elements(Tail(s))
  <2>1. \A i \in DOMAIN Tail(s) : i + 1 \in DOMAIN s /\ Tail(s)[i] = s[i + 1]
    BY <1>2
  <2>2. \A i \in DOMAIN s : i = 1 \/ i - 1 \in DOMAIN Tail(s)
    BY <1>2
  <2>3. 1 \in DOMAIN s /\ s[1] = Head(s)
    BY <1>2
  <2>4. \A i \in DOMAIN s : i # 1 => s[i] = Tail(s)[i - 1]
    BY <1>2
  <2> QED
    BY <2>1, <2>2, <2>3, <2>4 DEF Elements
<1> QED
  BY <1>1, <1>2

------------------------------------------------------------------------------
(* The invariant.                                                         *)

(* The queue with the delivered message in front is a queue.              *)
LEMMA RequeuedIsTyped ==
  ASSUME ProcessTypeOK
  PROVE  /\ Requeued \in Seq(Messages)
         /\ unacked # "none" => Requeued # << >> /\ Head(Requeued) = unacked
         /\ unacked = "none" => Requeued = ready
  BY InFront DEF ProcessTypeOK, Requeued

(* A consumer without a delivery is typed.                                *)
LEMMA NoDeliveryIsTyped ==
  ASSUME ProcessAssumption, NEW stage \in { "starting", "select", "returned" }
  PROVE  /\ NoDelivery(stage) \in Consumers
         /\ NoDelivery(stage).msg = "none"
         /\ NoDelivery(stage).at = stage
         /\ NoDelivery(stage).attempt = 0
  BY DEF ProcessAssumption, NoDelivery, Consumers, ConsumerStages

(* The broker's steps keep the invariant.                                 *)
LEMMA BrokerKeepsInv ==
  ASSUME ProcessAssumption, PInv,
         (\E m \in Messages : Send(m)) \/ Deliver \/ ChannelFails
  PROVE  PInv'
<1> USE DEF PInv, ProcessTypeOK, HoldsOne, HeldIsFirst, DownIsEmpty, Held,
            goVars
<1>1. ASSUME NEW m \in Messages, Send(m)
      PROVE  PInv'
  <2>1. /\ Append(ready, m) \in Seq(Messages)
        /\ Append(ready, m) # << >>
        /\ ready # << >> => Head(Append(ready, m)) = Head(ready)
    OBVIOUS
  <2> QED
    BY <1>1, <2>1 DEF Send
<1>2. CASE Deliver
  <2>1. Head(ready) \in Messages /\ Tail(ready) \in Seq(Messages)
    BY <1>2, HeadPutBack DEF Deliver
  <2>2. inbox = "none" /\ consumer.msg = "none"
    BY <1>2 DEF Deliver
  <2> QED
    BY <1>2, <2>1, <2>2 DEF Deliver, ProcessAssumption
<1>3. CASE ChannelFails
  <2>1. ready' = Requeued /\ unacked' = "none" /\ channel' = "closed"
    BY <1>3 DEF ChannelFails, Requeue
  <2>2. inbox' \in { inbox, "none" } /\ consumer' = consumer
    BY <1>3 DEF ChannelFails
  <2>3. unacked = Held
    BY <1>3 DEF ChannelFails
  <2>4. Held' # "none" => Held' = Held
    BY <2>2
  <2>5. ProcessTypeOK'
    BY <1>3, <2>1, <2>2, RequeuedIsTyped DEF ChannelFails
  <2>6. HeldIsFirst'
    BY <2>1, <2>3, <2>4, RequeuedIsTyped
  <2> QED
    BY <1>3, <2>1, <2>2, <2>5, <2>6 DEF ChannelFails
<1> QED
  BY <1>1, <1>2, <1>3

(* The consumer's steps that leave the broker alone keep the invariant.   *)
LEMMA ConsumerMovesKeepInv ==
  ASSUME ProcessAssumption, PInv,
         \/ Subscribe \/ Take \/ HandlerFails \/ BackoffElapses
         \/ ConsumerStops \/ DeliveriesClosed
  PROVE  PInv'
<1> USE DEF PInv, ProcessTypeOK, HoldsOne, HeldIsFirst, DownIsEmpty, Held,
            brokerVars, goVars
<1>1. CASE Subscribe
  BY <1>1, NoDeliveryIsTyped DEF Subscribe, TaskEnds, Unanswered
<1>2. CASE Take
  <2>1. consumer'.msg = inbox /\ consumer'.attempt = 0 /\ inbox' = "none"
    BY <1>2 DEF Take
  <2>2. consumer' \in Consumers /\ consumer'.at = "handle"
    BY <1>2 DEF Take, Consumers, ConsumerStages, ProcessAssumption
  <2>3. consumer.msg = "none" /\ inbox # "none"
    BY <1>2 DEF Take
  <2> QED
    BY <1>2, <2>1, <2>2, <2>3 DEF Take
<1>3. CASE HandlerFails
  <2>1. consumer' = [at |-> "backoff", msg |-> consumer.msg,
                     attempt |-> consumer.attempt + 1]
    BY <1>3 DEF HandlerFails, Consumers
  <2>2. consumer.attempt + 1 \in 0..MaxRetries
    BY <1>3 DEF HandlerFails, Consumers, ProcessAssumption
  <2>3. /\ consumer' \in Consumers
        /\ consumer'.msg = consumer.msg
        /\ consumer'.at = "backoff"
    BY <2>1, <2>2 DEF Consumers, ConsumerStages
  <2> QED
    BY <1>3, <2>3 DEF HandlerFails
<1>4. CASE BackoffElapses
  <2>1. /\ consumer' \in Consumers
        /\ consumer'.msg = consumer.msg
        /\ consumer'.at = "handle"
    BY <1>4 DEF BackoffElapses, Consumers, ConsumerStages
  <2> QED
    BY <1>4, <2>1 DEF BackoffElapses
<1>5. CASE ConsumerStops
  BY <1>5, NoDeliveryIsTyped DEF ConsumerStops
<1>6. CASE DeliveriesClosed
  BY <1>6, NoDeliveryIsTyped DEF DeliveriesClosed, TaskEnds
<1> QED
  BY <1>1, <1>2, <1>3, <1>4, <1>5, <1>6

(* The consumer's answers to the broker keep the invariant.               *)
LEMMA AnswersKeepInv ==
  ASSUME ProcessAssumption, PInv,
         \/ TakeMalformed \/ HandlerSucceeds \/ RetriesExhausted
         \/ BackoffCancelled
  PROVE  PInv'
<1> USE DEF PInv, ProcessTypeOK, HoldsOne, HeldIsFirst, DownIsEmpty, Held,
            goVars
<1>1. CASE TakeMalformed
  BY <1>1 DEF TakeMalformed, Answer, Unanswered, ProcessAssumption
<1>2. CASE HandlerSucceeds
  BY <1>2, NoDeliveryIsTyped
  DEF HandlerSucceeds, Answer, Unanswered, ProcessAssumption, Consumers
<1>3. CASE RetriesExhausted
  BY <1>3, NoDeliveryIsTyped
  DEF RetriesExhausted, Answer, Unanswered, ProcessAssumption, Consumers
<1>4. CASE BackoffCancelled
  BY <1>4, NoDeliveryIsTyped, RequeuedIsTyped
  DEF BackoffCancelled, Requeue, Unanswered
<1> QED
  BY <1>1, <1>2, <1>3, <1>4

(* The other goroutines touch nothing the invariant is about.             *)
LEMMA OthersKeepInv ==
  ASSUME ProcessAssumption, PInv,
         \/ PollerStep \/ PollerStops \/ ListenFails
         \/ RequestArrives \/ RequestEnds
         \/ (\E signalled \in BOOLEAN : BeginShutdown(signalled))
         \/ ShutdownReturns \/ UNCHANGED processVars
  PROVE  PInv'
<1> USE DEF PInv, ProcessTypeOK, HoldsOne, HeldIsFirst, DownIsEmpty, Held,
            OnlyGo, brokerVars
<1>1. CASE PollerStep \/ PollerStops
  BY <1>1 DEF PollerStep, PollerStops
<1>2. CASE ListenFails
  BY <1>2 DEF ListenFails
<1>3. CASE RequestArrives \/ RequestEnds
  BY <1>3 DEF RequestArrives, RequestEnds
<1>4. ASSUME NEW signalled \in BOOLEAN, BeginShutdown(signalled)
      PROVE  PInv'
  BY <1>4 DEF BeginShutdown
<1>5. CASE ShutdownReturns
  BY <1>5 DEF ShutdownReturns
<1>6. CASE UNCHANGED processVars
  BY <1>6 DEF processVars
<1> QED
  BY <1>1, <1>2, <1>3, <1>4, <1>5, <1>6

(* The end of the process and its start keep the invariant.               *)
LEMMA ProcessEndsKeepInv ==
  ASSUME ProcessAssumption, PInv, RunReturns \/ Kill \/ Start
  PROVE  PInv'
<1> USE DEF PInv, ProcessTypeOK, HoldsOne, HeldIsFirst, DownIsEmpty, Held
<1>1. CASE Exit
  BY <1>1, NoDeliveryIsTyped, RequeuedIsTyped DEF Exit, Requeue
<1>2. CASE Start
  BY <1>2, NoDeliveryIsTyped DEF Start, brokerVars
<1> QED
  BY <1>1, <1>2 DEF RunReturns, Kill

(* The inductive invariant.                                               *)
THEOREM PInvHolds == ProcessSpec => []PInv
<1>1. ASSUME ProcessInit
      PROVE  PInv
  <2>1. ready \in Seq(Messages)
    BY <1>1 DEF ProcessInit
  <2>2. ProcessTypeOK
    BY <1>1, <2>1, ProcessAssumption, NoDeliveryIsTyped
    DEF ProcessInit, ProcessTypeOK
  <2>3. HoldsOne /\ HeldIsFirst /\ DownIsEmpty
    BY <1>1, ProcessAssumption, NoDeliveryIsTyped
    DEF ProcessInit, HoldsOne, HeldIsFirst, DownIsEmpty, Held
  <2> QED
    BY <2>2, <2>3 DEF PInv
<1>2. PInv /\ [ProcessNext]_processVars => PInv'
  <2> SUFFICES ASSUME PInv, [ProcessNext]_processVars
               PROVE  PInv'
    OBVIOUS
  <2> QED
    BY ProcessAssumption, BrokerKeepsInv, ConsumerMovesKeepInv,
       AnswersKeepInv, OthersKeepInv, ProcessEndsKeepInv
    DEF ProcessNext, ConsumerStep
<1> QED
  BY <1>1, <1>2, PTL DEF ProcessSpec

(* The process is well typed, and no goroutine that has ended holds work. *)
THEOREM ProcessTypeCorrect == ProcessSpec => []ProcessTypeOK
  BY PInvHolds, PTL DEF PInv

(* What the process holds is first in the queue.                          *)
LEMMA HeldIsHead ==
  ASSUME PInv, Held # "none"
  PROVE  Backlog # << >> /\ Head(Backlog) = Held
<1>1. CASE channel = "open"
  BY <1>1, RequeuedIsTyped DEF PInv, HeldIsFirst, Backlog
<1>2. CASE channel = "closed"
  BY <1>2, RequeuedIsTyped DEF PInv, HeldIsFirst, Backlog
<1> QED
  BY <1>1, <1>2 DEF PInv, ProcessTypeOK

(* Nothing but the first message of the queue is handled.                 *)
THEOREM WorkIsOnTheHead == ProcessSpec => []HeadIsHandled
<1>1. PInv => HeadIsHandled
  BY HeldIsHead DEF HeadIsHandled, Held
<1> QED
  BY <1>1, PInvHolds, PTL

------------------------------------------------------------------------------
(* The process as a serial delivery.                                      *)

Tries == IF channel = "open" THEN consumer.attempt ELSE 0

(* A step of the queue that sends nothing.                                *)
Delivers ==
  /\ sent' = sent
  /\ \/ \E reported \in BOOLEAN : Serial!Handle(reported)
     \/ Serial!Fail
     \/ Serial!GiveUp
     \/ Serial!Refuse
     \/ Serial!Interrupt
     \/ UNCHANGED << Backlog, Tries, handled, dropped >>

(* Steps that leave the queue alone stutter or interrupt the delivery.    *)
LEMMA QuietStep ==
  ASSUME Backlog' = Backlog, Tries' \in { Tries, 0 },
         UNCHANGED << sent, handled, dropped >>
  PROVE  Delivers
  BY DEF Delivers, Serial!Interrupt, Tries

(* A message that is sent arrives at the end of the queue.                *)
LEMMA SendArrives ==
  ASSUME ProcessAssumption, PInv, NEW m \in Messages, Send(m)
  PROVE  Serial!Arrive(m) /\ sent' = sent \cup { m }
<1>1. Backlog' = Append(Backlog, m)
  BY InFrontOfAppend
  DEF Send, Backlog, Requeued, PInv, ProcessTypeOK
<1> QED
  BY <1>1 DEF Send, Serial!Arrive

(* The broker's other steps leave the queue as it was.                    *)
LEMMA BrokerDelivers ==
  ASSUME ProcessAssumption, PInv, Deliver \/ ChannelFails
  PROVE  Delivers
<1>1. CASE Deliver
  <2>1. Backlog' = Backlog
    BY <1>1, HeadPutBack
    DEF Deliver, Backlog, Requeued, PInv, ProcessTypeOK, ProcessAssumption
  <2>2. Tries' = Tries
    BY <1>1 DEF Deliver, Tries
  <2> QED
    BY <1>1, <2>1, <2>2, QuietStep DEF Deliver
<1>2. CASE ChannelFails
  <2>1. Backlog' = Backlog
    BY <1>2 DEF ChannelFails, Requeue, Backlog, Requeued
  <2>2. Tries' = 0
    BY <1>2 DEF ChannelFails, Tries
  <2> QED
    BY <1>2, <2>1, <2>2, QuietStep DEF ChannelFails
<1> QED
  BY <1>1, <1>2

(* The consumer's own moves, of which only a failure is counted.          *)
LEMMA ConsumerMovesDeliver ==
  ASSUME ProcessAssumption, PInv,
         \/ Subscribe \/ Take \/ HandlerFails \/ BackoffElapses
         \/ ConsumerStops \/ DeliveriesClosed
  PROVE  Delivers
<1>1. UNCHANGED << ready, unacked, channel, sent, handled, dropped >>
  BY DEF Subscribe, Take, HandlerFails, BackoffElapses, ConsumerStops,
         DeliveriesClosed, Unanswered, brokerVars
<1>2. Backlog' = Backlog
  BY <1>1 DEF Backlog, Requeued
<1>3. CASE ~ HandlerFails
  <2>1. consumer'.attempt \in { consumer.attempt, 0 }
    BY <1>3 DEF Subscribe, Take, BackoffElapses, ConsumerStops,
                DeliveriesClosed, NoDelivery, PInv, ProcessTypeOK, Consumers
  <2> QED
    BY <1>1, <1>2, <2>1, QuietStep DEF Tries
<1>4. CASE HandlerFails
  <2>1. /\ consumer.attempt < MaxRetries
        /\ consumer'.attempt = consumer.attempt + 1
        /\ consumer.msg # "none"
    BY <1>4 DEF HandlerFails, PInv, ProcessTypeOK, Consumers
  <2>2. Backlog # << >>
    BY <2>1, HeldIsHead DEF Held
  <2>3. CASE channel = "open"
    BY <1>1, <1>2, <2>1, <2>2, <2>3 DEF Delivers, Serial!Fail, Tries
  <2>4. CASE channel # "open"
    BY <1>1, <1>2, <2>4, QuietStep DEF Tries
  <2> QED
    BY <2>3, <2>4
<1> QED
  BY <1>3, <1>4

(* An answer takes the message off the queue, if the channel carries it.  *)
LEMMA AnswerTakesHead ==
  ASSUME ProcessAssumption, PInv, Answer, Held # "none"
  PROVE  Backlog' = IF channel = "open" THEN Tail(Backlog) ELSE Backlog
<1>1. CASE channel = "open"
  <2>1. unacked # "none" /\ unacked' = "none" /\ ready' = ready
    BY <1>1 DEF Answer, PInv, HeldIsFirst
  <2>2. Backlog = << unacked >> \o ready /\ Backlog' = ready
    BY <2>1 DEF Backlog, Requeued
  <2> QED
    BY <1>1, <2>1, <2>2, InFront DEF PInv, ProcessTypeOK
<1>2. CASE channel # "open"
  BY <1>2 DEF Answer, Unanswered, Backlog, Requeued
<1> QED
  BY <1>1, <1>2

(* The consumer's answers to the broker.                                  *)
LEMMA AnswersDeliver ==
  ASSUME ProcessAssumption, PInv,
         \/ TakeMalformed \/ HandlerSucceeds \/ RetriesExhausted
         \/ BackoffCancelled
  PROVE  Delivers
<1>1. CASE TakeMalformed
  <2>1. Held = inbox /\ Held # "none" /\ consumer.attempt = 0
    BY <1>1 DEF TakeMalformed, PInv, ProcessTypeOK, HoldsOne, Held,
                ProcessAssumption
  <2>2. Backlog # << >> /\ Head(Backlog) = inbox
    BY <2>1, HeldIsHead
  <2>3. Backlog' = IF channel = "open" THEN Tail(Backlog) ELSE Backlog
    BY <1>1, <2>1, AnswerTakesHead DEF TakeMalformed
  <2>4. Tries' = 0 /\ Tries = 0
    BY <1>1, <2>1 DEF TakeMalformed, Tries
  <2>5. CASE channel = "open"
    BY <1>1, <2>2, <2>3, <2>4, <2>5
    DEF TakeMalformed, Delivers, Serial!Refuse, Serial!Leaves, Tries
  <2>6. CASE channel # "open"
    BY <1>1, <2>3, <2>4, <2>6, QuietStep DEF TakeMalformed
  <2> QED
    BY <2>5, <2>6
<1>2. CASE HandlerSucceeds
  <2>1. Held = consumer.msg /\ Held # "none"
    BY <1>2 DEF HandlerSucceeds, PInv, ProcessTypeOK, Held
  <2>2. Backlog # << >> /\ Head(Backlog) = consumer.msg
    BY <2>1, HeldIsHead
  <2>3. Backlog' = IF channel = "open" THEN Tail(Backlog) ELSE Backlog
    BY <1>2, <2>1, AnswerTakesHead DEF HandlerSucceeds
  <2>4. Tries' = 0
    BY <1>2 DEF HandlerSucceeds, NoDelivery, Tries
  <2>5. Serial!Handle(channel = "open")
    BY <1>2, <2>2, <2>3, <2>4
    DEF HandlerSucceeds, Serial!Handle, Serial!Leaves, Tries
  <2> QED
    BY <1>2, <2>5 DEF HandlerSucceeds, Delivers
<1>3. CASE RetriesExhausted
  <2>1. Held = consumer.msg /\ Held # "none"
    BY <1>3 DEF RetriesExhausted, PInv, ProcessTypeOK, Held
  <2>2. Backlog # << >> /\ Head(Backlog) = consumer.msg
    BY <2>1, HeldIsHead
  <2>3. Backlog' = IF channel = "open" THEN Tail(Backlog) ELSE Backlog
    BY <1>3, <2>1, AnswerTakesHead DEF RetriesExhausted
  <2>4. Tries' = 0
    BY <1>3 DEF RetriesExhausted, NoDelivery, Tries
  <2>5. CASE channel = "open"
    BY <1>3, <2>2, <2>3, <2>4, <2>5
    DEF RetriesExhausted, Delivers, Serial!GiveUp, Serial!Leaves, Tries
  <2>6. CASE channel # "open"
    BY <1>3, <2>3, <2>4, <2>6, QuietStep DEF RetriesExhausted
  <2> QED
    BY <2>5, <2>6
<1>4. CASE BackoffCancelled
  <2>1. Backlog' = Backlog
    BY <1>4 DEF BackoffCancelled, Requeue, Unanswered, Backlog, Requeued
  <2>2. Tries' = 0
    BY <1>4 DEF BackoffCancelled, NoDelivery, Tries
  <2> QED
    BY <1>4, <2>1, <2>2, QuietStep DEF BackoffCancelled
<1> QED
  BY <1>1, <1>2, <1>3, <1>4

(* Everything else, the end of the process and its start included.        *)
LEMMA OthersDeliver ==
  ASSUME ProcessAssumption, PInv,
         \/ PollerStep \/ PollerStops \/ ListenFails
         \/ RequestArrives \/ RequestEnds
         \/ (\E signalled \in BOOLEAN : BeginShutdown(signalled))
         \/ ShutdownReturns \/ RunReturns \/ Kill \/ Start
         \/ UNCHANGED processVars
  PROVE  Delivers
<1>1. UNCHANGED << sent, handled, dropped >>
  BY DEF PollerStep, PollerStops, ListenFails, RequestArrives, RequestEnds,
         BeginShutdown, ShutdownReturns, RunReturns, Kill, Exit, Start,
         OnlyGo, brokerVars, processVars
<1>2. Backlog' = Backlog
  BY DEF PollerStep, PollerStops, ListenFails, RequestArrives, RequestEnds,
         BeginShutdown, ShutdownReturns, RunReturns, Kill, Exit, Start,
         OnlyGo, brokerVars, processVars, Requeue, Backlog, Requeued
<1>3. Tries' \in { Tries, 0 }
  BY DEF PollerStep, PollerStops, ListenFails, RequestArrives, RequestEnds,
         BeginShutdown, ShutdownReturns, RunReturns, Kill, Exit, Start,
         OnlyGo, brokerVars, processVars, NoDelivery, Tries
<1> QED
  BY <1>1, <1>2, <1>3, QuietStep

(* Every step of the process sends a message or is a step of the queue.   *)
LEMMA EveryStep ==
  ASSUME ProcessAssumption, PInv, [ProcessNext]_processVars
  PROVE  \/ Delivers
         \/ \E m \in Messages : Serial!Arrive(m) /\ sent' = sent \cup { m }
  BY SendArrives, BrokerDelivers, ConsumerMovesDeliver, AnswersDeliver,
     OthersDeliver
  DEF ProcessNext, ConsumerStep

(* A process is a serial delivery of its queue.                           *)
THEOREM DeliveryIsSerial == ProcessSpec => ImplementsSerialDelivery
<1>1. ProcessInit => Serial!Init
  BY DEF ProcessInit, Serial!Init, Backlog, Requeued
<1>2. PInv /\ [ProcessNext]_processVars => [Serial!Next]_(Serial!deliveryVars)
  BY ProcessAssumption, EveryStep
  DEF Delivers, Serial!Next, Serial!deliveryVars, Tries
<1> QED
  BY <1>1, <1>2, PInvHolds, PTL
  DEF ProcessSpec, ImplementsSerialDelivery, Serial!Spec

(* A message is queued, was handled, or was given up on.                  *)
THEOREM MessagesAreKept == ProcessSpec => []NothingIsLost
<1>1. ProcessInit => NothingIsLost
  BY DEF ProcessInit, NothingIsLost
<1>2. ASSUME PInv, NothingIsLost, [ProcessNext]_processVars
      PROVE  NothingIsLost'
  <2>1. Backlog \in Seq(Messages)
    BY <1>2, RequeuedIsTyped DEF PInv, Backlog
  <2>2. ASSUME NEW m \in Messages, Serial!Arrive(m), sent' = sent \cup { m }
        PROVE  NothingIsLost'
    <3>1. Elements(Append(Backlog, m)) = Elements(Backlog) \cup { m }
      BY <2>1, <2>2, ElementsOf
    <3>2. Backlog' = Append(Backlog, m)
      BY <2>2 DEF Serial!Arrive
    <3>3. Elements(Backlog)' = Elements(Append(Backlog, m))
      BY <3>2 DEF Elements
    <3> QED
      BY <1>2, <2>2, <3>1, <3>3 DEF NothingIsLost, Serial!Arrive
  <2>3. CASE Delivers
    <3>1. \/ Backlog' = Backlog
          \/ /\ Backlog # << >>
             /\ Backlog' = Tail(Backlog)
             /\ Head(Backlog) \in handled' \cup dropped'
      BY <2>3 DEF Delivers, Serial!Handle, Serial!Fail, Serial!GiveUp,
                  Serial!Refuse, Serial!Interrupt, Serial!Leaves
    <3>2. sent' = sent /\ handled \subseteq handled' /\ dropped \subseteq dropped'
      BY <2>3 DEF Delivers, Serial!Handle, Serial!Fail, Serial!GiveUp,
                  Serial!Refuse, Serial!Interrupt
    <3>3. Elements(Backlog) \subseteq
            Elements(Backlog)' \cup handled' \cup dropped'
      <4>1. CASE Backlog' = Backlog
        BY <4>1 DEF Elements
      <4>2. CASE Backlog # << >> /\ Backlog' = Tail(Backlog)
        <5>1. Elements(Backlog) = { Head(Backlog) } \cup Elements(Tail(Backlog))
          BY <2>1, <4>2, ElementsOf
        <5>2. Elements(Backlog)' = Elements(Tail(Backlog))
          BY <4>2 DEF Elements
        <5>3. Head(Backlog) \in handled' \cup dropped' \/ Backlog' = Backlog
          BY <3>1
        <5> QED
          BY <4>1, <5>1, <5>2, <5>3
      <4> QED
        BY <3>1, <4>1, <4>2
    <3> QED
      BY <1>2, <3>2, <3>3 DEF NothingIsLost
  <2> QED
    BY <1>2, <2>2, <2>3, ProcessAssumption, EveryStep
<1> QED
  BY <1>1, <1>2, PInvHolds, PTL DEF ProcessSpec
===============================================================================
