----------------------------- MODULE FifoChannel -----------------------------
(***************************************************************************)
(* What the message queues of the gateway promise to the threads that use  *)
(* them, without ring, counters, mutex or semaphore: a bounded FIFO.  Each *)
(* message offered by a producer either enters the queue once, or is       *)
(* refused, and refused only when the queue holds Capacity messages.  The  *)
(* consumer receives the accepted messages in the order of acceptance, one *)
(* at a time, and is handed a message only if there is one.                *)
(***************************************************************************)
EXTENDS Naturals, Sequences

CONSTANTS Producers,   \* the threads that offer messages
          Messages,    \* the messages
          None,        \* "no message"
          Capacity     \* how many messages the queue holds

VARIABLES offer,       \* offer[p]: the message p is offering, or None
          fifo,        \* the accepted messages, oldest first
          taken        \* the message in the consumer's hands, or None

vars == <<offer, fifo, taken>>

Init ==
  /\ offer = [p \in Producers |-> None]
  /\ fifo = <<>>
  /\ taken = None

\* A producer calls EnqueueMessage.
Offer(p, m) ==
  /\ offer[p] = None
  /\ offer' = [offer EXCEPT ![p] = m]
  /\ UNCHANGED <<fifo, taken>>

\* The message is accepted at the end of the queue.
Accept(p) ==
  /\ offer[p] # None
  /\ Len(fifo) < Capacity
  /\ fifo' = Append(fifo, offer[p])
  /\ offer' = [offer EXCEPT ![p] = None]
  /\ UNCHANGED taken

\* The message is refused: only a full queue may do so.
Refuse(p) ==
  /\ offer[p] # None
  /\ Len(fifo) = Capacity
  /\ offer' = [offer EXCEPT ![p] = None]
  /\ UNCHANGED <<fifo, taken>>

\* The consumer receives the oldest message.
Take ==
  /\ taken = None
  /\ fifo # <<>>
  /\ taken' = Head(fifo)
  /\ fifo' = Tail(fifo)
  /\ UNCHANGED offer

\* The consumer has handled the message.
Done ==
  /\ taken # None
  /\ taken' = None
  /\ UNCHANGED <<offer, fifo>>

Next ==
  \/ \E p \in Producers :
       \/ \E m \in Messages : Offer(p, m)
       \/ Accept(p)
       \/ Refuse(p)
  \/ Take
  \/ Done

Spec == Init /\ [][Next]_vars
=============================================================================
