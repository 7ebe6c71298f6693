----------------------------- MODULE SerialDelivery -----------------------------
(***************************************************************************)
(* What a handler may assume of the queue it is fed from: the messages are *)
(* handled one at a time and in order, a failing one is tried again        *)
(* MaxRetries times, and one that is not reported back is delivered again, *)
(* first.  This is the consumer that the other modules assume.             *)
(***************************************************************************)
EXTENDS Naturals, Sequences

CONSTANTS
  Messages,   \* what may be sent
  Malformed,  \* the messages that cannot be decoded
  MaxRetries  \* RetryConfig.MaxRetries

VARIABLES
  backlog,  \* the messages in the queue, the one being handled first
  tries,    \* how often the first one has failed
  handled,  \* those whose handler has succeeded
  dropped   \* those given up on

deliveryVars == << backlog, tries, handled, dropped >>

Init ==
  /\ backlog = << >>
  /\ tries = 0
  /\ handled = {}
  /\ dropped = {}

Arrive(m) ==
  /\ backlog' = Append(backlog, m)
  /\ UNCHANGED << tries, handled, dropped >>

(* The first message leaves the queue.                                    *)
Leaves ==
  /\ backlog' = Tail(backlog)
  /\ tries' = 0

(* The handler succeeds; what it did may not be reported to the broker.   *)
Handle(reported) ==
  /\ backlog # << >>
  /\ handled' = handled \cup { Head(backlog) }
  /\ IF reported THEN Leaves ELSE UNCHANGED backlog /\ tries' = 0
  /\ UNCHANGED dropped

Fail ==
  /\ backlog # << >>
  /\ tries < MaxRetries
  /\ tries' = tries + 1
  /\ UNCHANGED << backlog, handled, dropped >>

GiveUp ==
  /\ backlog # << >>
  /\ tries = MaxRetries
  /\ dropped' = dropped \cup { Head(backlog) }
  /\ Leaves
  /\ UNCHANGED handled

(* What cannot be decoded is not handed to the handler at all.            *)
Refuse ==
  /\ backlog # << >>
  /\ Head(backlog) \in Malformed
  /\ dropped' = dropped \cup { Head(backlog) }
  /\ Leaves
  /\ UNCHANGED handled

(* The delivery is interrupted: what has failed so far does not count.    *)
Interrupt ==
  /\ tries' = 0
  /\ UNCHANGED << backlog, handled, dropped >>

Next ==
  \/ \E m \in Messages : Arrive(m)
  \/ \E reported \in BOOLEAN : Handle(reported)
  \/ Fail
  \/ GiveUp
  \/ Refuse
  \/ Interrupt

Spec == Init /\ [][Next]_deliveryVars
==============================================================================
