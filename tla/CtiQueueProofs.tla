--------------------------- MODULE CtiQueueProofs ---------------------------
(***************************************************************************)
(* Proofs about CtiQueue, for every finite set of producers, every set of   *)
(* messages and every ring size: its invariants, and that the ring          *)
(* implements FifoChannel.                                                  *)
(***************************************************************************)
EXTENDS CtiQueue, Sequences, FiniteSetTheorems, TLAPS

\* The mutex is held by exactly the thread that is in a critical section.
MutexInv ==
  /\ \A p \in Producers : InEnqueue(p) <=> m_queueMutex = p
  /\ InDequeue <=> m_queueMutex = Consumer

\* A producer that has not yet counted its message carries one.
CallInv == \A p \in Producers : ppc[p] \in {"lock", "test", "count"} => pMsg[p] \in Messages

IInv == TypeOK /\ MutexInv /\ CallInv /\ TokenBalance /\ RingConsistent

-----------------------------------------------------------------------------

\* Advancing an index keeps it inside the ring (lines 78-79 and 130-131).
LEMMA NextIndexType == \A i \in Slots : NextIndex(i) \in Slots
  BY SizeAssumption DEF Slots, NextIndex

\* Every variable keeps its type: in particular both indices stay inside the
\* ring and the counter and the semaphore never become negative.
THEOREM TypeCorrect == Spec => []TypeOK
<1>1. Init => TypeOK
  BY SizeAssumption DEF Init, TypeOK, Slots, PPC, CPC
<1>2. TypeOK /\ [Next]_vars => TypeOK'
  <2> SUFFICES ASSUME TypeOK, [Next]_vars
               PROVE  TypeOK'
    OBVIOUS
  <2> USE DEF TypeOK, ring, prod, cons, PPC, CPC
  <2>1. ASSUME NEW p \in Producers, NEW m \in Messages, EnqueueMessage(p, m)
        PROVE  TypeOK'
    BY <2>1 DEF EnqueueMessage
  <2>2. ASSUME NEW p \in Producers, enqueue_lock(p)
        PROVE  TypeOK'
    BY <2>2 DEF enqueue_lock
  <2>3. ASSUME NEW p \in Producers, enqueue_store(p)
        PROVE  TypeOK'
    BY <2>3, NextIndexType DEF enqueue_store
  <2>4. ASSUME NEW p \in Producers, enqueue_count(p)
        PROVE  TypeOK'
    BY <2>4 DEF enqueue_count
  <2>5. ASSUME NEW p \in Producers, enqueue_full(p)
        PROVE  TypeOK'
    BY <2>5 DEF enqueue_full
  <2>6. ASSUME NEW p \in Producers, enqueue_unlock(p)
        PROVE  TypeOK'
    BY <2>6 DEF enqueue_unlock
  <2>7. ASSUME NEW p \in Producers, enqueue_post(p)
        PROVE  TypeOK'
    BY <2>7 DEF enqueue_post
  <2>8. CASE WaitSemaphore
    BY <2>8 DEF WaitSemaphore
  <2>9. CASE dequeue_lock
    BY <2>9 DEF dequeue_lock
  <2>10. CASE dequeue_load
    BY <2>10, NextIndexType DEF dequeue_load
  <2>11. CASE dequeue_count
    BY <2>11 DEF dequeue_count
  <2>12. CASE dequeue_unlock
    BY <2>12 DEF dequeue_unlock
  <2>13. CASE Run_checkReturn
    BY <2>13 DEF Run_checkReturn
  <2>14. CASE Run_parse
    BY <2>14 DEF Run_parse
  <2>15. CASE UNCHANGED vars
    BY <2>15 DEF vars
  <2> QED
    BY <2>1, <2>2, <2>3, <2>4, <2>5, <2>6, <2>7, <2>8, <2>9, <2>10, <2>11,
       <2>12, <2>13, <2>14, <2>15 DEF Next, enqueue, Run
<1> QED
  BY <1>1, <1>2, PTL DEF Spec

-----------------------------------------------------------------------------

\* Only the thread in a critical section holds the mutex, so no two threads
\* are in critical sections at once.
LEMMA MutexStep == TypeOK /\ MutexInv /\ [Next]_vars => MutexInv'
<1> SUFFICES ASSUME TypeOK, MutexInv, [Next]_vars
             PROVE  MutexInv'
  OBVIOUS
<1> USE ValuesAssumption DEF TypeOK, MutexInv, InEnqueue, InDequeue, ring, prod, cons, PPC, CPC
<1>1. ASSUME NEW p \in Producers, NEW m \in Messages, EnqueueMessage(p, m)
      PROVE  MutexInv'
  BY <1>1 DEF EnqueueMessage
<1>2. ASSUME NEW p \in Producers, enqueue_lock(p)
      PROVE  MutexInv'
  BY <1>2 DEF enqueue_lock
<1>3. ASSUME NEW p \in Producers, enqueue_store(p)
      PROVE  MutexInv'
  BY <1>3 DEF enqueue_store
<1>4. ASSUME NEW p \in Producers, enqueue_count(p)
      PROVE  MutexInv'
  BY <1>4 DEF enqueue_count
<1>5. ASSUME NEW p \in Producers, enqueue_full(p)
      PROVE  MutexInv'
  BY <1>5 DEF enqueue_full
<1>6. ASSUME NEW p \in Producers, enqueue_unlock(p)
      PROVE  MutexInv'
  BY <1>6 DEF enqueue_unlock
<1>7. ASSUME NEW p \in Producers, enqueue_post(p)
      PROVE  MutexInv'
  BY <1>7 DEF enqueue_post
<1>8. CASE WaitSemaphore
  BY <1>8 DEF WaitSemaphore
<1>9. CASE dequeue_lock
  BY <1>9 DEF dequeue_lock
<1>10. CASE dequeue_load
  BY <1>10 DEF dequeue_load
<1>11. CASE dequeue_count
  BY <1>11 DEF dequeue_count
<1>12. CASE dequeue_unlock
  BY <1>12 DEF dequeue_unlock
<1>13. CASE Run_checkReturn
  BY <1>13 DEF Run_checkReturn
<1>14. CASE Run_parse
  BY <1>14 DEF Run_parse
<1>15. CASE UNCHANGED vars
  BY <1>15 DEF vars
<1> QED
  BY <1>1, <1>2, <1>3, <1>4, <1>5, <1>6, <1>7, <1>8, <1>9, <1>10,
     <1>11, <1>12, <1>13, <1>14, <1>15 DEF Next, enqueue, Run

\* The message a producer carries is set by its call and not changed before
\* it is counted.
LEMMA CallStep == TypeOK /\ CallInv /\ [Next]_vars => CallInv'
<1> SUFFICES ASSUME TypeOK, CallInv, [Next]_vars
             PROVE  CallInv'
  OBVIOUS
<1> USE DEF TypeOK, CallInv, ring, prod, cons, PPC, CPC
<1>1. ASSUME NEW p \in Producers, NEW m \in Messages, EnqueueMessage(p, m)
      PROVE  CallInv'
  BY <1>1 DEF EnqueueMessage
<1>2. ASSUME NEW p \in Producers, enqueue_lock(p)
      PROVE  CallInv'
  BY <1>2 DEF enqueue_lock
<1>3. ASSUME NEW p \in Producers, enqueue_store(p)
      PROVE  CallInv'
  BY <1>3 DEF enqueue_store
<1>4. ASSUME NEW p \in Producers, enqueue_count(p)
      PROVE  CallInv'
  BY <1>4 DEF enqueue_count
<1>5. ASSUME NEW p \in Producers, enqueue_full(p)
      PROVE  CallInv'
  BY <1>5 DEF enqueue_full
<1>6. ASSUME NEW p \in Producers, enqueue_unlock(p)
      PROVE  CallInv'
  BY <1>6 DEF enqueue_unlock
<1>7. ASSUME NEW p \in Producers, enqueue_post(p)
      PROVE  CallInv'
  BY <1>7 DEF enqueue_post
<1>8. CASE WaitSemaphore
  BY <1>8 DEF WaitSemaphore
<1>9. CASE dequeue_lock
  BY <1>9 DEF dequeue_lock
<1>10. CASE dequeue_load
  BY <1>10 DEF dequeue_load
<1>11. CASE dequeue_count
  BY <1>11 DEF dequeue_count
<1>12. CASE dequeue_unlock
  BY <1>12 DEF dequeue_unlock
<1>13. CASE Run_checkReturn
  BY <1>13 DEF Run_checkReturn
<1>14. CASE Run_parse
  BY <1>14 DEF Run_parse
<1>15. CASE UNCHANGED vars
  BY <1>15 DEF vars
<1> QED
  BY <1>1, <1>2, <1>3, <1>4, <1>5, <1>6, <1>7, <1>8, <1>9, <1>10,
     <1>11, <1>12, <1>13, <1>14, <1>15 DEF Next, enqueue, Run

-----------------------------------------------------------------------------

\* The producers that owe a post are finitely many, so they can be counted.
LEMMA UnpostedFinite == IsFiniteSet(Unposted) /\ Cardinality(Unposted) \in Nat
<1>1. Unposted \subseteq Producers
  BY DEF Unposted
<1>2. IsFiniteSet(Unposted)
  BY <1>1, ProducersAssumption, FS_Subset
<1> QED
  BY <1>2, FS_CardinalityType

\* Each step moves a token or leaves all of them: the only steps that change
\* Unposted are the counter (one producer enters it) and the post (it leaves).
LEMMA TokenStep == TypeOK /\ TokenBalance /\ [Next]_vars => TokenBalance'
<1> SUFFICES ASSUME TypeOK, TokenBalance, [Next]_vars
             PROVE  TokenBalance'
  OBVIOUS
<1> USE UnpostedFinite DEF TypeOK, TokenBalance, HeldToken, ring, prod, cons, PPC, CPC
<1>1. ASSUME NEW p \in Producers, NEW m \in Messages, EnqueueMessage(p, m)
      PROVE  TokenBalance'
  <2>1. UNCHANGED Unposted
    BY <1>1 DEF EnqueueMessage, Unposted
  <2> QED
    BY <1>1, <2>1 DEF EnqueueMessage
<1>2. ASSUME NEW p \in Producers, enqueue_lock(p)
      PROVE  TokenBalance'
  <2>1. UNCHANGED Unposted
    BY <1>2 DEF enqueue_lock, Unposted
  <2> QED
    BY <1>2, <2>1 DEF enqueue_lock
<1>3. ASSUME NEW p \in Producers, enqueue_store(p)
      PROVE  TokenBalance'
  <2>1. UNCHANGED Unposted
    BY <1>3 DEF enqueue_store, Unposted
  <2> QED
    BY <1>3, <2>1 DEF enqueue_store
<1>4. ASSUME NEW p \in Producers, enqueue_count(p)
      PROVE  TokenBalance'
  <2>1. Unposted' = Unposted \cup {p} /\ p \notin Unposted
    BY <1>4 DEF enqueue_count, Unposted
  <2>2. Cardinality(Unposted') = Cardinality(Unposted) + 1
    BY <2>1, UnpostedFinite, FS_AddElement
  <2> QED
    BY <1>4, <2>2 DEF enqueue_count
<1>5. ASSUME NEW p \in Producers, enqueue_full(p)
      PROVE  TokenBalance'
  <2>1. UNCHANGED Unposted
    BY <1>5 DEF enqueue_full, Unposted
  <2> QED
    BY <1>5, <2>1 DEF enqueue_full
<1>6. ASSUME NEW p \in Producers, enqueue_unlock(p)
      PROVE  TokenBalance'
  <2>1. UNCHANGED Unposted
    BY <1>6 DEF enqueue_unlock, Unposted
  <2> QED
    BY <1>6, <2>1 DEF enqueue_unlock
<1>7. ASSUME NEW p \in Producers, enqueue_post(p)
      PROVE  TokenBalance'
  <2>1. CASE q_success[p] = 1
    <3>1. Unposted' = Unposted \ {p} /\ p \in Unposted
      BY <1>7, <2>1 DEF enqueue_post, Unposted
    <3>2. Cardinality(Unposted') = Cardinality(Unposted) - 1
      BY <3>1, UnpostedFinite, FS_RemoveElement
    <3> QED
      BY <1>7, <2>1, <3>2 DEF enqueue_post
  <2>2. CASE q_success[p] # 1
    <3>1. UNCHANGED Unposted
      BY <1>7, <2>2 DEF enqueue_post, Unposted
    <3> QED
      BY <1>7, <2>2, <3>1 DEF enqueue_post
  <2> QED
    BY <2>1, <2>2
<1>8. CASE WaitSemaphore
  <2>1. UNCHANGED Unposted
    BY <1>8 DEF WaitSemaphore, Unposted
  <2> QED
    BY <1>8, <2>1 DEF WaitSemaphore
<1>9. CASE dequeue_lock
  <2>1. UNCHANGED Unposted
    BY <1>9 DEF dequeue_lock, Unposted
  <2> QED
    BY <1>9, <2>1 DEF dequeue_lock
<1>10. CASE dequeue_load
  <2>1. UNCHANGED Unposted
    BY <1>10 DEF dequeue_load, Unposted
  <2> QED
    BY <1>10, <2>1 DEF dequeue_load
<1>11. CASE dequeue_count
  <2>1. UNCHANGED Unposted
    BY <1>11 DEF dequeue_count, Unposted
  <2> QED
    BY <1>11, <2>1 DEF dequeue_count
<1>12. CASE dequeue_unlock
  <2>1. UNCHANGED Unposted
    BY <1>12 DEF dequeue_unlock, Unposted
  <2> QED
    BY <1>12, <2>1 DEF dequeue_unlock
<1>13. CASE Run_checkReturn
  <2>1. UNCHANGED Unposted
    BY <1>13 DEF Run_checkReturn, Unposted
  <2> QED
    BY <1>13, <2>1 DEF Run_checkReturn
<1>14. CASE Run_parse
  <2>1. UNCHANGED Unposted
    BY <1>14 DEF Run_parse, Unposted
  <2> QED
    BY <1>14, <2>1 DEF Run_parse
<1>15. CASE UNCHANGED vars
  <2>1. UNCHANGED Unposted
    BY <1>15 DEF vars, Unposted
  <2> QED
    BY <1>15, <2>1 DEF vars
<1> QED
  BY <1>1, <1>2, <1>3, <1>4, <1>5, <1>6, <1>7, <1>8, <1>9, <1>10,
     <1>11, <1>12, <1>13, <1>14, <1>15 DEF Next, enqueue, Run

-----------------------------------------------------------------------------

\* Only the store and the load move the window of filled slots, and each moves
\* it by one slot at the right end; all other steps leave it alone.
LEMMA RingStep == TypeOK /\ MutexInv /\ CallInv /\ TokenBalance /\ RingConsistent /\ [Next]_vars
                    => RingConsistent'
<1> SUFFICES ASSUME TypeOK, MutexInv, CallInv, TokenBalance, RingConsistent, [Next]_vars
             PROVE  RingConsistent'
  OBVIOUS
<1> USE DEF TypeOK, ring, prod, cons, PPC, CPC
<1>1. ASSUME NEW p \in Producers, NEW m \in Messages, EnqueueMessage(p, m)
      PROVE  RingConsistent'
  <2>1. UNCHANGED <<Filled, g_pkt_cti_msg_queue, m_nHead, m_nTail>>
    BY <1>1 DEF EnqueueMessage, Filled, MutexInv, InEnqueue, InDequeue
  <2> QED
    BY <2>1 DEF RingConsistent, Distance, Wrap
<1>2. ASSUME NEW p \in Producers, enqueue_lock(p)
      PROVE  RingConsistent'
  <2>1. UNCHANGED <<Filled, g_pkt_cti_msg_queue, m_nHead, m_nTail>>
    BY <1>2 DEF enqueue_lock, Filled, MutexInv, InEnqueue, InDequeue
  <2> QED
    BY <2>1 DEF RingConsistent, Distance, Wrap
<1>3. ASSUME NEW p \in Producers, enqueue_store(p)
      PROVE  RingConsistent'
  <2>1. Filled = m_nQueueSize /\ Filled' = Filled + 1
    BY <1>3, ValuesAssumption DEF enqueue_store, Filled, MutexInv, InEnqueue, InDequeue
  <2>2. /\ Filled < MAX_CTI_QUEUE_SIZE
        /\ pMsg[p] # Zero
        /\ m_nHead = Wrap(m_nTail + Filled)
        /\ m_nHead' = Wrap(m_nTail + Filled')
    BY <1>3, <2>1, SizeAssumption, ValuesAssumption
       DEF enqueue_store, CallInv, RingConsistent, NextIndex, Wrap, Slots
  <2>3. \A i \in Slots : Distance(i) = Filled <=> i = m_nHead
    BY <2>1, <2>2, SizeAssumption DEF Distance, Wrap, Slots
  <2>4. \A i \in Slots : g_pkt_cti_msg_queue'[i] # Zero <=> Distance(i) < Filled'
    BY <1>3, <2>1, <2>2, <2>3, SizeAssumption DEF enqueue_store, RingConsistent, Distance, Slots
  <2> QED
    BY <1>3, <2>1, <2>2, <2>4, SizeAssumption DEF enqueue_store, RingConsistent, Distance, Wrap
<1>4. ASSUME NEW p \in Producers, enqueue_count(p)
      PROVE  RingConsistent'
  <2>1. UNCHANGED <<Filled, g_pkt_cti_msg_queue, m_nHead, m_nTail>>
    BY <1>4 DEF enqueue_count, Filled, MutexInv, InEnqueue, InDequeue
  <2> QED
    BY <2>1 DEF RingConsistent, Distance, Wrap
<1>5. ASSUME NEW p \in Producers, enqueue_full(p)
      PROVE  RingConsistent'
  <2>1. UNCHANGED <<Filled, g_pkt_cti_msg_queue, m_nHead, m_nTail>>
    BY <1>5 DEF enqueue_full, Filled, MutexInv, InEnqueue, InDequeue
  <2> QED
    BY <2>1 DEF RingConsistent, Distance, Wrap
<1>6. ASSUME NEW p \in Producers, enqueue_unlock(p)
      PROVE  RingConsistent'
  <2>1. UNCHANGED <<Filled, g_pkt_cti_msg_queue, m_nHead, m_nTail>>
    BY <1>6 DEF enqueue_unlock, Filled, MutexInv, InEnqueue, InDequeue
  <2> QED
    BY <2>1 DEF RingConsistent, Distance, Wrap
<1>7. ASSUME NEW p \in Producers, enqueue_post(p)
      PROVE  RingConsistent'
  <2>1. UNCHANGED <<Filled, g_pkt_cti_msg_queue, m_nHead, m_nTail>>
    BY <1>7 DEF enqueue_post, Filled, MutexInv, InEnqueue, InDequeue
  <2> QED
    BY <2>1 DEF RingConsistent, Distance, Wrap
<1>8. CASE WaitSemaphore
  <2>1. UNCHANGED <<Filled, g_pkt_cti_msg_queue, m_nHead, m_nTail>>
    BY <1>8 DEF WaitSemaphore, Filled, MutexInv, InEnqueue, InDequeue
  <2> QED
    BY <2>1 DEF RingConsistent, Distance, Wrap
<1>9. CASE dequeue_lock
  <2>1. UNCHANGED <<Filled, g_pkt_cti_msg_queue, m_nHead, m_nTail>>
    BY <1>9 DEF dequeue_lock, Filled, MutexInv, InEnqueue, InDequeue
  <2> QED
    BY <2>1 DEF RingConsistent, Distance, Wrap
<1>10. CASE dequeue_load
  <2>1. CASE m_nQueueSize > 0
    <3>1. Filled = m_nQueueSize /\ Filled' = Filled - 1
      BY <1>10, <2>1, ValuesAssumption DEF dequeue_load, Filled, MutexInv, InEnqueue, InDequeue
    <3>2. m_nHead' = Wrap(m_nTail' + Filled')
      BY <1>10, <2>1, <3>1, SizeAssumption DEF dequeue_load, RingConsistent, NextIndex, Wrap, Slots
    <3>3. \A i \in Slots : (Distance(i))' = IF i = m_nTail THEN MAX_CTI_QUEUE_SIZE - 1 ELSE Distance(i) - 1
      BY <1>10, <2>1, SizeAssumption DEF dequeue_load, Distance, NextIndex, Slots
    <3>4. \A i \in Slots : g_pkt_cti_msg_queue'[i] # Zero <=> (Distance(i))' < Filled'
      BY <1>10, <2>1, <3>1, <3>3, SizeAssumption DEF dequeue_load, RingConsistent, Distance, Slots
    <3> QED
      BY <1>10, <2>1, <3>1, <3>2, <3>4, SizeAssumption DEF dequeue_load, RingConsistent, Wrap
  <2>2. CASE ~(m_nQueueSize > 0)
    <3>1. UNCHANGED <<Filled, g_pkt_cti_msg_queue, m_nHead, m_nTail>>
      BY <1>10, <2>2 DEF dequeue_load, Filled
    <3> QED
      BY <3>1 DEF RingConsistent, Distance, Wrap
  <2> QED
    BY <2>1, <2>2
<1>11. CASE dequeue_count
  <2>1. m_nQueueSize > 0
    BY <1>11, UnpostedFinite DEF dequeue_count, TokenBalance, HeldToken
  <2>2. UNCHANGED <<Filled, g_pkt_cti_msg_queue, m_nHead, m_nTail>>
    BY <1>11, <2>1 DEF dequeue_count, Filled
  <2> QED
    BY <2>2 DEF RingConsistent, Distance, Wrap
<1>12. CASE dequeue_unlock
  <2>1. UNCHANGED <<Filled, g_pkt_cti_msg_queue, m_nHead, m_nTail>>
    BY <1>12 DEF dequeue_unlock, Filled, MutexInv, InEnqueue, InDequeue
  <2> QED
    BY <2>1 DEF RingConsistent, Distance, Wrap
<1>13. CASE Run_checkReturn
  <2>1. UNCHANGED <<Filled, g_pkt_cti_msg_queue, m_nHead, m_nTail>>
    BY <1>13 DEF Run_checkReturn, Filled, MutexInv, InEnqueue, InDequeue
  <2> QED
    BY <2>1 DEF RingConsistent, Distance, Wrap
<1>14. CASE Run_parse
  <2>1. UNCHANGED <<Filled, g_pkt_cti_msg_queue, m_nHead, m_nTail>>
    BY <1>14 DEF Run_parse, Filled, MutexInv, InEnqueue, InDequeue
  <2> QED
    BY <2>1 DEF RingConsistent, Distance, Wrap
<1>15. CASE UNCHANGED vars
  <2>1. UNCHANGED <<Filled, g_pkt_cti_msg_queue, m_nHead, m_nTail>>
    BY <1>15 DEF vars, Filled, MutexInv, InEnqueue, InDequeue
  <2> QED
    BY <2>1 DEF RingConsistent, Distance, Wrap
<1> QED
  BY <1>1, <1>2, <1>3, <1>4, <1>5, <1>6, <1>7, <1>8, <1>9, <1>10,
     <1>11, <1>12, <1>13, <1>14, <1>15 DEF Next, enqueue, Run

-----------------------------------------------------------------------------

\* The inductive invariant holds in every reachable state.
THEOREM InductiveInvariant == Spec => []IInv
<1>1. Init => MutexInv /\ CallInv
  BY ValuesAssumption DEF Init, MutexInv, CallInv, InEnqueue, InDequeue
<1>2. Init => TokenBalance
  <2> SUFFICES ASSUME Init PROVE TokenBalance
    OBVIOUS
  <2>1. Unposted = {}
    BY DEF Init, Unposted
  <2> QED
    BY <2>1, FS_EmptySet DEF Init, TokenBalance, HeldToken
<1>3. Init => RingConsistent
  BY SizeAssumption DEF Init, RingConsistent, Filled, Distance, Wrap, Slots
<1>4. TypeOK /\ TypeOK' /\ MutexInv /\ CallInv /\ TokenBalance /\ RingConsistent /\ [Next]_vars
        => MutexInv' /\ CallInv' /\ TokenBalance' /\ RingConsistent'
  BY MutexStep, CallStep, TokenStep, RingStep
<1> QED
  BY <1>1, <1>2, <1>3, <1>4, TypeCorrect, PTL DEF IInv, Spec

\* CCtiIfHandler::Run never finds the queue empty after WaitSemaphore.
THEOREM NeverDequeuesEmpty == Spec => []NoEmptyDequeue
<1>1. IInv => NoEmptyDequeue
  BY UnpostedFinite DEF IInv, TypeOK, TokenBalance, NoEmptyDequeue, HeldToken
<1> QED
  BY <1>1, InductiveInvariant, PTL

\* Counter and semaphore agree up to the tokens in flight.
THEOREM TokensBalance == Spec => []TokenBalance
  BY InductiveInvariant, PTL DEF IInv

\* Indices, counter and slots of the ring always agree.
THEOREM RingIsConsistent == Spec => []RingConsistent
  BY InductiveInvariant, PTL DEF IInv

-----------------------------------------------------------------------------
(* Refinement *)

\* The slot the producer filled before counting it still holds its message.
StoredInv ==
  \A p \in Producers :
    ppc[p] = "count" => g_pkt_cti_msg_queue[Wrap(m_nTail + m_nQueueSize)] = pMsg[p]

\* A function on 1..n is a sequence of length n.
LEMMA FunctionIsSeq ==
  ASSUME NEW S, NEW n \in Nat, NEW f \in [1 .. n -> S]
  PROVE  f \in Seq(S) /\ Len(f) = n
  OBVIOUS

\* Adding one more place at the end is Append.
LEMMA ExtendIsAppend ==
  ASSUME NEW S, NEW n \in Nat, NEW f \in [1 .. n -> S], NEW g \in [1 .. n + 1 -> S],
         \A k \in 1 .. n : g[k] = f[k]
  PROVE  g = Append(f, g[n + 1])
<1>1. f \in Seq(S) /\ Len(f) = n
  BY FunctionIsSeq
<1>2. g \in Seq(S) /\ Len(g) = n + 1
  BY FunctionIsSeq
<1> QED
  BY <1>1, <1>2

\* Dropping the first place is Tail.
LEMMA ShiftIsTail ==
  ASSUME NEW S, NEW n \in Nat, NEW f \in [1 .. n + 1 -> S], NEW g \in [1 .. n -> S],
         \A k \in 1 .. n : g[k] = f[k + 1]
  PROVE  f # <<>> /\ g = Tail(f) /\ f[1] = Head(f)
<1>1. f \in Seq(S) /\ Len(f) = n + 1
  BY FunctionIsSeq
<1>2. g \in Seq(S) /\ Len(g) = n
  BY FunctionIsSeq
<1> QED
  BY <1>1, <1>2

-----------------------------------------------------------------------------

\* The filled slot is not touched between the store and the counter: the
\* mutex keeps the other threads out.
LEMMA StoredStep == IInv /\ StoredInv /\ [Next]_vars => StoredInv'
<1> SUFFICES ASSUME IInv, StoredInv, [Next]_vars
             PROVE  StoredInv'
  OBVIOUS
<1> USE ValuesAssumption
    DEF IInv, TypeOK, MutexInv, InEnqueue, InDequeue, StoredInv, Wrap, ring, prod, cons, PPC, CPC
<1>1. ASSUME NEW p \in Producers, NEW m \in Messages, EnqueueMessage(p, m)
      PROVE  StoredInv'
  BY <1>1 DEF EnqueueMessage
<1>2. ASSUME NEW p \in Producers, enqueue_lock(p)
      PROVE  StoredInv'
  BY <1>2 DEF enqueue_lock
<1>3. ASSUME NEW p \in Producers, enqueue_store(p)
      PROVE  StoredInv'
  <2>1. Filled = m_nQueueSize /\ m_nHead = Wrap(m_nTail + m_nQueueSize)
    BY <1>3 DEF enqueue_store, Filled, RingConsistent
  <2>2. \A q \in Producers : ppc'[q] = "count" => q = p
    BY <1>3 DEF enqueue_store
  <2> QED
    BY <1>3, <2>1, <2>2 DEF enqueue_store
<1>4. ASSUME NEW p \in Producers, enqueue_count(p)
      PROVE  StoredInv'
  BY <1>4 DEF enqueue_count
<1>5. ASSUME NEW p \in Producers, enqueue_full(p)
      PROVE  StoredInv'
  BY <1>5 DEF enqueue_full
<1>6. ASSUME NEW p \in Producers, enqueue_unlock(p)
      PROVE  StoredInv'
  BY <1>6 DEF enqueue_unlock
<1>7. ASSUME NEW p \in Producers, enqueue_post(p)
      PROVE  StoredInv'
  BY <1>7 DEF enqueue_post
<1>8. CASE WaitSemaphore
  BY <1>8 DEF WaitSemaphore
<1>9. CASE dequeue_lock
  BY <1>9 DEF dequeue_lock
<1>10. CASE dequeue_load
  BY <1>10 DEF dequeue_load
<1>11. CASE dequeue_count
  BY <1>11 DEF dequeue_count
<1>12. CASE dequeue_unlock
  BY <1>12 DEF dequeue_unlock
<1>13. CASE Run_checkReturn
  BY <1>13 DEF Run_checkReturn
<1>14. CASE Run_parse
  BY <1>14 DEF Run_parse
<1>15. CASE UNCHANGED vars
  BY <1>15 DEF vars
<1> QED
  BY <1>1, <1>2, <1>3, <1>4, <1>5, <1>6, <1>7, <1>8, <1>9, <1>10,
     <1>11, <1>12, <1>13, <1>14, <1>15 DEF Next, enqueue, Run

\* What the abstract queue is while the consumer is not between the load and
\* the counter.
LEMMA FifoShape ==
  ASSUME TypeOK, cpc # "count", m_nQueueSize <= MAX_CTI_QUEUE_SIZE
  PROVE  /\ AbstractFifo = [k \in 1 .. m_nQueueSize |-> g_pkt_cti_msg_queue[Wrap(m_nTail + k - 1)]]
         /\ AbstractFifo \in [1 .. m_nQueueSize -> Messages \cup {Zero}]
<1>1. m_nQueueSize - (IF cpc = "count" THEN 1 ELSE 0) = m_nQueueSize
  BY DEF TypeOK
<1>2. AbstractFifo = [k \in 1 .. m_nQueueSize |-> g_pkt_cti_msg_queue[Wrap(m_nTail + k - 1)]]
  BY <1>1 DEF AbstractFifo
<1>3. \A k \in 1 .. m_nQueueSize : Wrap(m_nTail + k - 1) \in Slots
  BY SizeAssumption DEF TypeOK, Slots, Wrap
<1>4. \A k \in 1 .. m_nQueueSize : g_pkt_cti_msg_queue[Wrap(m_nTail + k - 1)] \in Messages \cup {Zero}
  BY <1>3 DEF TypeOK
<1> QED
  BY <1>2, <1>4

\* Each step of the ring is a step of the bounded FIFO or leaves it unchanged.
LEMMA RefinementStep == IInv /\ StoredInv /\ [Next]_vars => [Fifo!Next]_(Fifo!vars)
<1> SUFFICES ASSUME IInv, StoredInv, [Next]_vars
             PROVE  [Fifo!Next]_(Fifo!vars)
  OBVIOUS
<1> USE SizeAssumption, ValuesAssumption
    DEF IInv, TypeOK, MutexInv, InEnqueue, InDequeue, ring, prod, cons, PPC, CPC
<1>1. ASSUME NEW p \in Producers, NEW m \in Messages, EnqueueMessage(p, m)
      PROVE  [Fifo!Next]_(Fifo!vars)
  <2>1. AbstractOffer[p] = Zero /\ AbstractOffer' = [AbstractOffer EXCEPT ![p] = m]
    BY <1>1 DEF EnqueueMessage, AbstractOffer
  <2>2. UNCHANGED <<AbstractFifo, AbstractTaken>>
    BY <1>1 DEF EnqueueMessage, AbstractFifo, AbstractTaken
  <2> QED
    BY <2>1, <2>2 DEF Fifo!Next, Fifo!Offer
<1>2. ASSUME NEW p \in Producers, enqueue_lock(p)
      PROVE  [Fifo!Next]_(Fifo!vars)
  <2>1. UNCHANGED AbstractOffer
    BY <1>2 DEF enqueue_lock, AbstractOffer
  <2>2. UNCHANGED AbstractFifo
    BY <1>2 DEF enqueue_lock, AbstractFifo
  <2>3. UNCHANGED AbstractTaken
    BY <1>2 DEF enqueue_lock, AbstractTaken
  <2> QED
    BY <2>1, <2>2, <2>3 DEF Fifo!vars
<1>3. ASSUME NEW p \in Producers, enqueue_store(p)
      PROVE  [Fifo!Next]_(Fifo!vars)
  <2>1. /\ cpc # "count"
        /\ m_nQueueSize < MAX_CTI_QUEUE_SIZE
        /\ m_nHead = Wrap(m_nTail + m_nQueueSize)
    BY <1>3 DEF enqueue_store, RingConsistent, Filled
  <2>2. \A k \in 1 .. m_nQueueSize : Wrap(m_nTail + k - 1) # m_nHead
    BY <2>1 DEF Wrap, Slots
  <2>3. UNCHANGED AbstractFifo
    BY <1>3, <2>1, <2>2 DEF enqueue_store, AbstractFifo, Wrap
  <2>4. UNCHANGED <<AbstractOffer, AbstractTaken>>
    BY <1>3 DEF enqueue_store, AbstractOffer, AbstractTaken
  <2> QED
    BY <2>3, <2>4 DEF Fifo!vars
<1>4. ASSUME NEW p \in Producers, enqueue_count(p)
      PROVE  [Fifo!Next]_(Fifo!vars)
  <2>1. /\ cpc # "count" /\ cpc' = cpc
        /\ m_nQueueSize < MAX_CTI_QUEUE_SIZE
        /\ m_nQueueSize' = m_nQueueSize + 1
        /\ g_pkt_cti_msg_queue[Wrap(m_nTail + m_nQueueSize)] = pMsg[p]
    BY <1>4 DEF enqueue_count, RingConsistent, Filled, StoredInv
  <2>2. AbstractFifo \in [1 .. m_nQueueSize -> Messages \cup {Zero}]
    BY <2>1, FifoShape
  <2>3. /\ AbstractFifo' \in [1 .. m_nQueueSize + 1 -> Messages \cup {Zero}]
        /\ \A k \in 1 .. m_nQueueSize : AbstractFifo'[k] = AbstractFifo[k]
        /\ AbstractFifo'[m_nQueueSize + 1] = pMsg[p]
    <3>1. m_nQueueSize' - (IF cpc' = "count" THEN 1 ELSE 0) = m_nQueueSize + 1
      BY <1>4, <2>1
    <3>2. AbstractFifo' = [k \in 1 .. m_nQueueSize + 1 |-> g_pkt_cti_msg_queue[Wrap(m_nTail + k - 1)]]
      BY <1>4, <3>1 DEF enqueue_count, AbstractFifo, Wrap
    <3>3. AbstractFifo = [k \in 1 .. m_nQueueSize |-> g_pkt_cti_msg_queue[Wrap(m_nTail + k - 1)]]
      BY <2>1, FifoShape
    <3>4. \A k \in 1 .. m_nQueueSize + 1 : Wrap(m_nTail + k - 1) \in Slots
      BY <2>1 DEF Slots, Wrap
    <3>5. \A k \in 1 .. m_nQueueSize + 1 : g_pkt_cti_msg_queue[Wrap(m_nTail + k - 1)] \in Messages \cup {Zero}
      BY <3>4
    <3>6. AbstractFifo'[m_nQueueSize + 1] = g_pkt_cti_msg_queue[Wrap(m_nTail + m_nQueueSize)]
      BY <3>2
    <3> QED
      BY <2>1, <3>2, <3>3, <3>5, <3>6
  <2>4. AbstractFifo' = Append(AbstractFifo, pMsg[p]) /\ Len(AbstractFifo) < MAX_CTI_QUEUE_SIZE
    BY <2>1, <2>2, <2>3, ExtendIsAppend, FunctionIsSeq
  <2>5. /\ AbstractOffer[p] = pMsg[p] /\ pMsg[p] # Zero
        /\ AbstractOffer' = [AbstractOffer EXCEPT ![p] = Zero]
    BY <1>4 DEF enqueue_count, AbstractOffer, CallInv
  <2>6. UNCHANGED AbstractTaken
    BY <1>4 DEF enqueue_count, AbstractTaken
  <2> QED
    BY <2>4, <2>5, <2>6 DEF Fifo!Next, Fifo!Accept
<1>5. ASSUME NEW p \in Producers, enqueue_full(p)
      PROVE  [Fifo!Next]_(Fifo!vars)
  <2>1. cpc # "count" /\ m_nQueueSize = MAX_CTI_QUEUE_SIZE
    BY <1>5 DEF enqueue_full, RingConsistent, Filled
  <2>2. AbstractFifo \in [1 .. m_nQueueSize -> Messages \cup {Zero}]
    BY <2>1, FifoShape
  <2>3. Len(AbstractFifo) = MAX_CTI_QUEUE_SIZE
    BY <2>1, <2>2, FunctionIsSeq
  <2>4. /\ AbstractOffer[p] # Zero
        /\ AbstractOffer' = [AbstractOffer EXCEPT ![p] = Zero]
    BY <1>5 DEF enqueue_full, AbstractOffer, CallInv
  <2>5. UNCHANGED <<AbstractFifo, AbstractTaken>>
    BY <1>5 DEF enqueue_full, AbstractFifo, AbstractTaken
  <2> QED
    BY <2>3, <2>4, <2>5 DEF Fifo!Next, Fifo!Refuse
<1>6. ASSUME NEW p \in Producers, enqueue_unlock(p)
      PROVE  [Fifo!Next]_(Fifo!vars)
  <2>1. UNCHANGED AbstractOffer
    BY <1>6 DEF enqueue_unlock, AbstractOffer
  <2>2. UNCHANGED AbstractFifo
    BY <1>6 DEF enqueue_unlock, AbstractFifo
  <2>3. UNCHANGED AbstractTaken
    BY <1>6 DEF enqueue_unlock, AbstractTaken
  <2> QED
    BY <2>1, <2>2, <2>3 DEF Fifo!vars
<1>7. ASSUME NEW p \in Producers, enqueue_post(p)
      PROVE  [Fifo!Next]_(Fifo!vars)
  <2>1. UNCHANGED AbstractOffer
    BY <1>7 DEF enqueue_post, AbstractOffer
  <2>2. UNCHANGED AbstractFifo
    BY <1>7 DEF enqueue_post, AbstractFifo
  <2>3. UNCHANGED AbstractTaken
    BY <1>7 DEF enqueue_post, AbstractTaken
  <2> QED
    BY <2>1, <2>2, <2>3 DEF Fifo!vars
<1>8. CASE WaitSemaphore
  <2>1. UNCHANGED AbstractOffer
    BY <1>8 DEF WaitSemaphore, AbstractOffer
  <2>2. UNCHANGED AbstractFifo
    BY <1>8 DEF WaitSemaphore, AbstractFifo
  <2>3. UNCHANGED AbstractTaken
    BY <1>8 DEF WaitSemaphore, AbstractTaken
  <2> QED
    BY <2>1, <2>2, <2>3 DEF Fifo!vars
<1>9. CASE dequeue_lock
  <2>1. UNCHANGED AbstractOffer
    BY <1>9 DEF dequeue_lock, AbstractOffer
  <2>2. UNCHANGED AbstractFifo
    BY <1>9 DEF dequeue_lock, AbstractFifo
  <2>3. UNCHANGED AbstractTaken
    BY <1>9 DEF dequeue_lock, AbstractTaken
  <2> QED
    BY <2>1, <2>2, <2>3 DEF Fifo!vars
<1>10. CASE dequeue_load
  <2> DEFINE sz == m_nQueueSize - 1
  <2>1. m_nQueueSize > 0 /\ m_nQueueSize <= MAX_CTI_QUEUE_SIZE
    BY <1>10, UnpostedFinite DEF dequeue_load, TokenBalance, HeldToken, RingConsistent, Filled
  <2>2. sz \in Nat /\ sz + 1 = m_nQueueSize
    BY <2>1
  <2>3. AbstractFifo \in [1 .. sz + 1 -> Messages \cup {Zero}]
    BY <1>10, <2>1, FifoShape DEF dequeue_load
  <2>4. \A k \in 1 .. sz : /\ Wrap(m_nTail + k) \in Slots \ {m_nTail}
                          /\ Wrap(m_nTail' + k - 1) = Wrap(m_nTail + k)
    BY <1>10, <2>1 DEF dequeue_load, NextIndex, Wrap, Slots
  <2>5. /\ AbstractFifo' \in [1 .. sz -> Messages \cup {Zero}]
        /\ \A k \in 1 .. sz : AbstractFifo'[k] = AbstractFifo[k + 1]
    <3>1. AbstractFifo' = [k \in 1 .. sz |-> g_pkt_cti_msg_queue'[Wrap(m_nTail' + k - 1)]]
      BY <1>10, <2>1 DEF dequeue_load, AbstractFifo, Wrap
    <3>2. \A k \in 1 .. sz : g_pkt_cti_msg_queue'[Wrap(m_nTail' + k - 1)] = g_pkt_cti_msg_queue[Wrap(m_nTail + k)]
      BY <1>10, <2>1, <2>4 DEF dequeue_load
    <3>3. \A k \in 1 .. sz : AbstractFifo[k + 1] = g_pkt_cti_msg_queue[Wrap(m_nTail + k)]
      BY <1>10, <2>1 DEF dequeue_load, AbstractFifo
    <3> QED
      BY <3>1, <3>2, <3>3, <2>4
  <2>6. AbstractFifo # <<>> /\ AbstractFifo' = Tail(AbstractFifo) /\ AbstractFifo[1] = Head(AbstractFifo)
    BY <2>2, <2>3, <2>5, ShiftIsTail
  <2>7. AbstractTaken = Zero /\ AbstractTaken' = AbstractFifo[1]
    BY <1>10, <2>1 DEF dequeue_load, AbstractTaken, AbstractFifo, Wrap, Slots
  <2>8. UNCHANGED AbstractOffer
    BY <1>10 DEF dequeue_load, AbstractOffer
  <2> QED
    BY <2>6, <2>7, <2>8 DEF Fifo!Next, Fifo!Take
<1>11. CASE dequeue_count
  <2>1. m_nQueueSize > 0
    BY <1>11, UnpostedFinite DEF dequeue_count, TokenBalance, HeldToken
  <2>2. UNCHANGED AbstractFifo
    BY <1>11, <2>1 DEF dequeue_count, AbstractFifo
  <2>3. UNCHANGED <<AbstractOffer, AbstractTaken>>
    BY <1>11 DEF dequeue_count, AbstractOffer, AbstractTaken
  <2> QED
    BY <2>2, <2>3 DEF Fifo!vars
<1>12. CASE dequeue_unlock
  <2>1. UNCHANGED AbstractOffer
    BY <1>12 DEF dequeue_unlock, AbstractOffer
  <2>2. UNCHANGED AbstractFifo
    BY <1>12 DEF dequeue_unlock, AbstractFifo
  <2>3. UNCHANGED AbstractTaken
    BY <1>12 DEF dequeue_unlock, AbstractTaken
  <2> QED
    BY <2>1, <2>2, <2>3 DEF Fifo!vars
<1>13. CASE Run_checkReturn
  <2>1. UNCHANGED AbstractOffer
    BY <1>13 DEF Run_checkReturn, AbstractOffer
  <2>2. UNCHANGED AbstractFifo
    BY <1>13 DEF Run_checkReturn, AbstractFifo
  <2>3. UNCHANGED AbstractTaken
    BY <1>13 DEF Run_checkReturn, AbstractTaken
  <2> QED
    BY <2>1, <2>2, <2>3 DEF Fifo!vars
<1>14. CASE Run_parse
  <2>1. AbstractTaken' = Zero
    BY <1>14 DEF Run_parse, AbstractTaken
  <2>2. UNCHANGED <<AbstractOffer, AbstractFifo>>
    BY <1>14 DEF Run_parse, AbstractOffer, AbstractFifo
  <2>3. CASE AbstractTaken = Zero
    BY <2>1, <2>2, <2>3 DEF Fifo!vars
  <2>4. CASE AbstractTaken # Zero
    BY <2>1, <2>2, <2>4 DEF Fifo!Next, Fifo!Done
  <2> QED
    BY <2>3, <2>4
<1>15. CASE UNCHANGED vars
  <2>1. UNCHANGED AbstractOffer
    BY <1>15 DEF vars, AbstractOffer
  <2>2. UNCHANGED AbstractFifo
    BY <1>15 DEF vars, AbstractFifo
  <2>3. UNCHANGED AbstractTaken
    BY <1>15 DEF vars, AbstractTaken
  <2> QED
    BY <2>1, <2>2, <2>3 DEF Fifo!vars
<1> QED
  BY <1>1, <1>2, <1>3, <1>4, <1>5, <1>6, <1>7, <1>8, <1>9, <1>10,
     <1>11, <1>12, <1>13, <1>14, <1>15 DEF Next, enqueue, Run

\* The ring with its mutex and semaphore implements a bounded FIFO: accepted
\* messages reach CCtiIfHandler once each and in order, and EnqueueMessage
\* drops one only when MAX_CTI_QUEUE_SIZE messages are waiting.
THEOREM RingImplementsFifo == Spec => ImplementsFifo
<1>1. Init => Fifo!Init
  <2> SUFFICES ASSUME Init PROVE Fifo!Init
    OBVIOUS
  <2>1. AbstractOffer = [p \in Producers |-> Zero] /\ AbstractTaken = Zero
    BY DEF Init, AbstractOffer, AbstractTaken
  <2>2. AbstractFifo = <<>>
    BY DEF Init, AbstractFifo
  <2> QED
    BY <2>1, <2>2 DEF Fifo!Init
<1>2. Init => StoredInv
  BY DEF Init, StoredInv
<1> QED
  BY <1>1, <1>2, InductiveInvariant, StoredStep, RefinementStep, PTL
     DEF Spec, ImplementsFifo, Fifo!Spec

=============================================================================
