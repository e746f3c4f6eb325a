------------------------------ MODULE CtiQueue ------------------------------
(***************************************************************************)
(* CCtiQueue (src/src/ctiqueue.cpp): the ring between the thread that reads *)
(* a CTI socket (CCtiSocketIf::Run) and the thread that interprets the      *)
(* messages (CCtiIfHandler::Run).  The ring, its two indices and its counter *)
(* are protected by m_queueMutex; a counting semaphore tells the consumer   *)
(* how many messages wait.  The semaphore is posted AFTER the mutex is      *)
(* released, so counter and semaphore disagree for a while.                 *)
(*                                                                         *)
(* The same ring is copied into CVasIfHandler (100 slots, one producer per  *)
(* CTI server) and CVasExtra (700 slots, one producer per VAS server), so   *)
(* the producers are a parameter.                                          *)
(*                                                                         *)
(* One step per access to shared state: inside the critical sections the    *)
(* copy into (out of) the slot with the index, and the counter, are steps   *)
(* of their own, so that the mutex is what keeps them together.             *)
(***************************************************************************)
EXTENDS Integers, FiniteSets

CONSTANTS Producers,           \* threads that call EnqueueMessage
          Messages,            \* what they enqueue: header and body
          Zero,                \* a slot after memset(..., 0x0, ...)
          NoThread,            \* the mutex is free
          Consumer,            \* the thread in CCtiIfHandler::Run
          MAX_CTI_QUEUE_SIZE

ASSUME ProducersAssumption == IsFiniteSet(Producers)
ASSUME SizeAssumption == MAX_CTI_QUEUE_SIZE \in Nat \ {0}
ASSUME ValuesAssumption ==
  /\ Zero \notin Messages
  /\ Consumer \notin Producers
  /\ NoThread \notin Producers \cup {Consumer}

VARIABLES g_pkt_cti_msg_queue, \* the slots of the ring
          m_nHead,             \* next slot to fill
          m_nTail,             \* next slot to empty
          m_nQueueSize,        \* number of filled slots
          m_queueMutex,        \* holder of the mutex
          sem,                 \* value of the POSIX semaphore
          ppc,                 \* ppc[p]: where producer p is in enqueue()
          pMsg,                \* pMsg[p]: argument of p's call, Zero if none
          q_success,           \* q_success[p]: local variable of enqueue()
          cpc,                 \* where the consumer is in Run/dequeue()
          ret,                 \* local variable of dequeue() and Run()
          buf                  \* the consumer's mhdr and buf

ring  == <<g_pkt_cti_msg_queue, m_nHead, m_nTail, m_nQueueSize>>
prod  == <<ppc, pMsg, q_success>>
cons  == <<cpc, ret, buf>>
vars  == <<ring, m_queueMutex, sem, prod, cons>>

Slots == 0 .. MAX_CTI_QUEUE_SIZE - 1

\* Faulty variant: the wrap is forgotten.
NextIndex_noWrap(i) == i + 1

\* m_nHead ++; if(m_nHead == MAX_CTI_QUEUE_SIZE) m_nHead = 0;
NextIndex(i) == IF i + 1 = MAX_CTI_QUEUE_SIZE THEN 0 ELSE i + 1

PPC == {"idle", "lock", "test", "count", "unlock", "post"}
CPC == {"wait", "lock", "test", "count", "unlock", "return", "parse"}

\* Constructor and CreateQueueInterface: an empty ring, semaphore value 0.
Init ==
  /\ g_pkt_cti_msg_queue = [i \in Slots |-> Zero]
  /\ m_nHead = 0
  /\ m_nTail = 0
  /\ m_nQueueSize = 0
  /\ m_queueMutex = NoThread
  /\ sem = 0
  /\ ppc = [p \in Producers |-> "idle"]
  /\ pMsg = [p \in Producers |-> Zero]
  /\ q_success = [p \in Producers |-> 0]
  /\ cpc = "wait"
  /\ ret = 0
  /\ buf = Zero

-----------------------------------------------------------------------------
(* EnqueueMessage / enqueue *)

\* A producer calls EnqueueMessage(mhdr, pMsg).
EnqueueMessage(p, m) ==
  /\ ppc[p] = "idle"
  /\ ppc' = [ppc EXCEPT ![p] = "lock"]
  /\ pMsg' = [pMsg EXCEPT ![p] = m]
  /\ UNCHANGED <<ring, m_queueMutex, sem, q_success, cons>>

\* Faulty variant: producers do not wait for the mutex.
enqueue_lock_noWait(p) ==
  /\ ppc[p] = "lock"
  /\ m_queueMutex' = p
  /\ ppc' = [ppc EXCEPT ![p] = "test"]
  /\ UNCHANGED <<ring, sem, pMsg, q_success, cons>>

\* pthread_mutex_lock.
enqueue_lock(p) ==
  /\ ppc[p] = "lock"
  /\ m_queueMutex = NoThread
  /\ m_queueMutex' = p
  /\ ppc' = [ppc EXCEPT ![p] = "test"]
  /\ UNCHANGED <<ring, sem, pMsg, q_success, cons>>

\* Faulty variant: <= instead of < in the test for a full ring.
enqueue_store_offByOne(p) ==
  /\ ppc[p] = "test"
  /\ m_nQueueSize <= MAX_CTI_QUEUE_SIZE
  /\ g_pkt_cti_msg_queue' = [g_pkt_cti_msg_queue EXCEPT ![m_nHead] = pMsg[p]]
  /\ m_nHead' = NextIndex(m_nHead)
  /\ ppc' = [ppc EXCEPT ![p] = "count"]
  /\ UNCHANGED <<m_nTail, m_nQueueSize, m_queueMutex, sem, pMsg, q_success, cons>>

\* GetQueueSize() < MAX: fill the slot at m_nHead and advance m_nHead.
enqueue_store(p) ==
  /\ ppc[p] = "test"
  /\ m_nQueueSize < MAX_CTI_QUEUE_SIZE
  /\ g_pkt_cti_msg_queue' = [g_pkt_cti_msg_queue EXCEPT ![m_nHead] = pMsg[p]]
  /\ m_nHead' = NextIndex(m_nHead)
  /\ ppc' = [ppc EXCEPT ![p] = "count"]
  /\ UNCHANGED <<m_nTail, m_nQueueSize, m_queueMutex, sem, pMsg, q_success, cons>>

\* m_nQueueSize ++; q_success = 1.
enqueue_count(p) ==
  /\ ppc[p] = "count"
  /\ m_nQueueSize' = m_nQueueSize + 1
  /\ q_success' = [q_success EXCEPT ![p] = 1]
  /\ ppc' = [ppc EXCEPT ![p] = "unlock"]
  /\ UNCHANGED <<g_pkt_cti_msg_queue, m_nHead, m_nTail, m_queueMutex, sem, pMsg, cons>>

\* Q FULL: the message is logged as lost, q_success = 0.
enqueue_full(p) ==
  /\ ppc[p] = "test"
  /\ m_nQueueSize >= MAX_CTI_QUEUE_SIZE
  /\ q_success' = [q_success EXCEPT ![p] = 0]
  /\ ppc' = [ppc EXCEPT ![p] = "unlock"]
  /\ UNCHANGED <<ring, m_queueMutex, sem, pMsg, cons>>

enqueue_unlock(p) ==
  /\ ppc[p] = "unlock"
  /\ m_queueMutex' = NoThread
  /\ ppc' = [ppc EXCEPT ![p] = "post"]
  /\ UNCHANGED <<ring, sem, pMsg, q_success, cons>>

\* Faulty variant: a post also after Q FULL.
enqueue_post_always(p) ==
  /\ ppc[p] = "post"
  /\ sem' = sem + 1
  /\ ppc' = [ppc EXCEPT ![p] = "idle"]
  /\ pMsg' = [pMsg EXCEPT ![p] = Zero]
  /\ UNCHANGED <<ring, m_queueMutex, q_success, cons>>

\* Faulty variant: a post only when the ring was empty.
enqueue_post_ifWasEmpty(p) ==
  /\ ppc[p] = "post"
  /\ sem' = IF q_success[p] = 1 /\ m_nQueueSize = 1 THEN sem + 1 ELSE sem
  /\ ppc' = [ppc EXCEPT ![p] = "idle"]
  /\ pMsg' = [pMsg EXCEPT ![p] = Zero]
  /\ UNCHANGED <<ring, m_queueMutex, q_success, cons>>

\* if(q_success) PostSemaphore(); return 0.
enqueue_post(p) ==
  /\ ppc[p] = "post"
  /\ sem' = IF q_success[p] = 1 THEN sem + 1 ELSE sem
  /\ ppc' = [ppc EXCEPT ![p] = "idle"]
  /\ pMsg' = [pMsg EXCEPT ![p] = Zero]
  /\ UNCHANGED <<ring, m_queueMutex, q_success, cons>>

-----------------------------------------------------------------------------
(* CCtiIfHandler::Run and dequeue *)

WaitSemaphore ==
  /\ cpc = "wait"
  /\ sem > 0
  /\ sem' = sem - 1
  /\ cpc' = "lock"
  /\ UNCHANGED <<ring, m_queueMutex, prod, ret, buf>>

\* int ret = -1, then the lock.
dequeue_lock ==
  /\ cpc = "lock"
  /\ m_queueMutex = NoThread
  /\ m_queueMutex' = Consumer
  /\ ret' = -1
  /\ cpc' = "test"
  /\ UNCHANGED <<ring, sem, prod, buf>>

\* GetQueueSize() > 0: copy the slot out, clear it, advance m_nTail; ret = 0.
\* An empty queue changes nothing and leaves ret = -1.
dequeue_load ==
  /\ cpc = "test"
  /\ IF m_nQueueSize > 0
       THEN /\ ret' = 0
            /\ buf' = g_pkt_cti_msg_queue[m_nTail]
            /\ g_pkt_cti_msg_queue' = [g_pkt_cti_msg_queue EXCEPT ![m_nTail] = Zero]
            /\ m_nTail' = NextIndex(m_nTail)
            /\ cpc' = "count"
       ELSE /\ cpc' = "unlock"
            /\ UNCHANGED <<ret, buf, g_pkt_cti_msg_queue, m_nTail>>
  /\ UNCHANGED <<m_nHead, m_nQueueSize, m_queueMutex, sem, prod>>

\* m_nQueueSize --; if(m_nQueueSize < 0) m_nQueueSize = 0;
dequeue_count ==
  /\ cpc = "count"
  /\ m_nQueueSize' = IF m_nQueueSize - 1 < 0 THEN 0 ELSE m_nQueueSize - 1
  /\ cpc' = "unlock"
  /\ UNCHANGED <<g_pkt_cti_msg_queue, m_nHead, m_nTail, m_queueMutex, sem, prod, ret, buf>>

dequeue_unlock ==
  /\ cpc = "unlock"
  /\ m_queueMutex' = NoThread
  /\ cpc' = "return"
  /\ UNCHANGED <<ring, sem, prod, ret, buf>>

\* Run: ret != 0 is logged as critical and skipped, else the message is parsed.
Run_checkReturn ==
  /\ cpc = "return"
  /\ cpc' = IF ret # 0 THEN "wait" ELSE "parse"
  /\ UNCHANGED <<ring, m_queueMutex, sem, prod, ret, buf>>

\* Parse(mhdr.MessageType, buf, ...) returns and the loop starts again.
Run_parse ==
  /\ cpc = "parse"
  /\ cpc' = "wait"
  /\ UNCHANGED <<ring, m_queueMutex, sem, prod, ret, buf>>

-----------------------------------------------------------------------------

enqueue(p) ==
  \/ enqueue_lock(p)
  \/ enqueue_store(p)
  \/ enqueue_count(p)
  \/ enqueue_full(p)
  \/ enqueue_unlock(p)
  \/ enqueue_post(p)

Run ==
  \/ WaitSemaphore
  \/ dequeue_lock
  \/ dequeue_load
  \/ dequeue_count
  \/ dequeue_unlock
  \/ Run_checkReturn
  \/ Run_parse

Next ==
  \/ \E p \in Producers : (\E m \in Messages : EnqueueMessage(p, m)) \/ enqueue(p)
  \/ Run

Spec == Init /\ [][Next]_vars

\* Threads are scheduled: a started call of EnqueueMessage and the consumer
\* loop make progress when they can.  Nothing obliges a producer to call.
Fairness == WF_vars(Run) /\ \A p \in Producers : WF_vars(enqueue(p))

FairSpec == Spec /\ Fairness

-----------------------------------------------------------------------------
(* Properties *)

\* The types of all variables.
TypeOK ==
  /\ g_pkt_cti_msg_queue \in [Slots -> Messages \cup {Zero}]
  /\ m_nHead \in Slots
  /\ m_nTail \in Slots
  /\ m_nQueueSize \in Nat
  /\ m_queueMutex \in Producers \cup {Consumer, NoThread}
  /\ sem \in Nat
  /\ ppc \in [Producers -> PPC]
  /\ pMsg \in [Producers -> Messages \cup {Zero}]
  /\ q_success \in [Producers -> {0, 1}]
  /\ cpc \in CPC
  /\ ret \in {0, -1}
  /\ buf \in Messages \cup {Zero}

\* Producer p (the consumer) is between pthread_mutex_lock and _unlock.
InEnqueue(p) == ppc[p] \in {"test", "count", "unlock"}
InDequeue == cpc \in {"test", "count", "unlock"}

\* Producers whose message is counted in m_nQueueSize but not yet posted.
Unposted == {p \in Producers : ppc[p] \in {"unlock", "post"} /\ q_success[p] = 1}

\* 1 while the consumer holds a token of the semaphore whose message is
\* still counted in m_nQueueSize.
HeldToken == IF cpc \in {"lock", "test", "count"} THEN 1 ELSE 0

\* Every counted message has exactly one token: in the semaphore, about to be
\* posted by the producer that counted it, or in the hands of the consumer.
\* A missing token would strand a message in the ring for ever (until the
\* next one arrives); one too many would wake the consumer for nothing.
TokenBalance == m_nQueueSize = sem + Cardinality(Unposted) + HeldToken

\* When the consumer looks at the counter, it is positive: the branch of
\* CCtiIfHandler::Run that logs "DequeueMessage has an error or an empty
\* queue!" is unreachable although the token and the counter change at
\* different times.
NoEmptyDequeue == cpc = "test" => m_nQueueSize > 0

\* The filled slots, between the steps that move an index and the counter.
Filled ==
  m_nQueueSize
    + (IF \E p \in Producers : ppc[p] = "count" THEN 1 ELSE 0)
    - (IF cpc = "count" THEN 1 ELSE 0)

\* The slot i places round the ring, for i < 2 * MAX_CTI_QUEUE_SIZE.
Wrap(i) == IF i >= MAX_CTI_QUEUE_SIZE THEN i - MAX_CTI_QUEUE_SIZE ELSE i

\* How far slot i is from m_nTail, going round the ring.
Distance(i) == IF i >= m_nTail THEN i - m_nTail ELSE i + MAX_CTI_QUEUE_SIZE - m_nTail

\* Head, tail, counter and slots agree: the slots from m_nTail on, as many as
\* there are messages, are the filled ones, all others are cleared, and the
\* next slot to fill is the first one after them.  So an enqueue never
\* overwrites a message that was not delivered, and a dequeue never delivers a
\* cleared slot.
RingConsistent ==
  /\ Filled \in 0 .. MAX_CTI_QUEUE_SIZE
  /\ m_nHead = Wrap(m_nTail + Filled)
  /\ \A i \in Slots : g_pkt_cti_msg_queue[i] # Zero <=> Distance(i) < Filled

\* Once no producer is in a call any more, the consumer empties the ring and
\* goes back to sleep with the semaphore at 0: the last message is never left
\* behind without a wake-up.
DrainsWhenQuiet ==
  <>[](\A p \in Producers : ppc[p] = "idle")
    => <>[](m_nQueueSize = 0 /\ sem = 0 /\ cpc = "wait")

-----------------------------------------------------------------------------
(* Refinement: the ring implements a bounded FIFO.                          *)
(* A message is accepted when it is counted, refused when the full ring is  *)
(* found, and taken when it is copied out of its slot.                      *)

AbstractFifo ==
  [k \in 1 .. m_nQueueSize - (IF cpc = "count" THEN 1 ELSE 0)
     |-> g_pkt_cti_msg_queue[Wrap(m_nTail + k - 1)]]

AbstractOffer ==
  [p \in Producers |-> IF ppc[p] \in {"lock", "test", "count"} THEN pMsg[p] ELSE Zero]

AbstractTaken ==
  IF cpc \in {"count", "unlock", "return", "parse"} /\ ret = 0 THEN buf ELSE Zero

Fifo == INSTANCE FifoChannel WITH
          None <- Zero,
          Capacity <- MAX_CTI_QUEUE_SIZE,
          offer <- AbstractOffer,
          fifo <- AbstractFifo,
          taken <- AbstractTaken

\* Every behaviour of the ring, seen through this mapping, is a behaviour of
\* FifoChannel: no accepted message is lost, doubled or overtaken, and only a
\* full queue refuses one.
ImplementsFifo == Fifo!Spec
=============================================================================
