---------------------------- MODULE VasExtraProofs ----------------------------
(***************************************************************************)
(* Proofs about VasExtra for every set of producers and PFS threads, every  *)
(* queue size and every number of events, failures and change requests.     *)
(***************************************************************************)
EXTENDS VasExtra, FiniteSetTheorems, TLAPS

\* Tokens that nobody has taken yet.
Pending == sem + Cardinality(posting) + Cardinality(pfsPosting)

\* The accounting of the one semaphore.  TokensCoverWork is not inductive: when
\* Run finds the queue empty it gives up its token, although a change request may
\* have come between its look at the byte and its look at the queue.  Such a
\* request brings a token of its own.
Counting ==
  /\ IsFiniteSet(posting)
  /\ IsFiniteSet(pfsPosting)
  /\ TokensCoverWork
  /\ rpc = "dequeue" /\ g_pfs_change # NoChange => Pending >= 1

\* While nothing has failed, the watcher never leaves its poll, the connection it
\* announced works, and no event has been lost.
Quiet ==
  nFail = 0 =>
    /\ wpc # "destroy"
    /\ wpc # "connect" => link
    /\ wpc \in {"connected", "poll"} => sockfd = "live"
    /\ connected <=> wpc = "poll"
    /\ rpc # "start" => connected
    /\ \A m \in Messages : fate[m] \notin {"lost", "discarded"}

\* TypeOK in two parts, for the two kinds of reasoning they need.
Flags ==
  /\ connected \in BOOLEAN
  /\ sockfd \in {"none", "live", "stale"}
  /\ wpc \in {"connect", "sockfd", "connected", "poll", "destroy"}
  /\ rpc \in {"start", "wait", "flag", "pfsSend", "pfsReport", "pfsClear", "dequeue", "connected",
              "send", "report"}
  /\ vasUp \in BOOLEAN
  /\ link \in BOOLEAN

Fates == {"new", "queued", "refused", "held", "vas", "discarded", "lost"}

Data ==
  /\ queue \in Seq(Messages)
  /\ sem \in Nat
  /\ posting \in SUBSET Producers
  /\ g_pfs_change \in Pfs \cup {NoChange}
  /\ pfsPosting \in SUBSET Pfs
  /\ msg \in Seq(Messages)
  /\ nFail \in 0 .. MaxFail
  /\ nChange \in 0 .. MaxChange
  /\ fate \in [Messages -> Fates]

\* The inductive invariant.
IInv == Flags /\ Data /\ Counting /\ Quiet

LEMMA Implied == IInv => TypeOK /\ TokensCoverWork /\ LossNeedsFailure
<1> SUFFICES ASSUME IInv PROVE TypeOK /\ TokensCoverWork /\ LossNeedsFailure
  OBVIOUS
<1>1. nFail \in Nat
  BY BoundAssumption DEF IInv, Data
<1>2. TypeOK
  BY Zenon DEF IInv, Flags, Data, Fates, TypeOK
<1> QED BY <1>1, <1>2 DEF IInv, Counting, Quiet, LossNeedsFailure

LEMMA InitStep == Init => IInv
<1> SUFFICES ASSUME Init PROVE IInv
  OBVIOUS
<1>1. Flags
  BY Zenon DEF Init, Flags
<1>2. Data
  BY BoundAssumption, SMT DEF Init, Data, Fates
<1>3. Counting
  BY FS_EmptySet DEF Init, Counting, TokensCoverWork, Tokens, Waiting, Pending
<1>4. Quiet
  BY DEF Init, Quiet
<1> QED BY <1>1, <1>2, <1>3, <1>4 DEF IInv

\* Every step preserves the types.
LEMMA FlagsStep == Flags /\ [Next]_vars => Flags'
<1> SUFFICES ASSUME Flags, [Next]_vars PROVE Flags'
  OBVIOUS
<1>1. ASSUME NEW p \in Producers, NEW m \in Messages, EnqueueMessage(p, m) PROVE Flags'
  BY <1>1, Zenon DEF Flags, EnqueueMessage, pfsVars, argVars, envVars
<1>2. ASSUME NEW p \in Producers, enqueue_post(p) PROVE Flags'
  BY <1>2, Zenon DEF Flags, enqueue_post, pfsVars, argVars, runVars, envVars
<1>3. ASSUME NEW s \in Pfs, PfsChange(s) PROVE Flags'
  BY <1>3, Zenon DEF Flags, PfsChange, queueVars, argVars, runVars, envVars
<1>4. ASSUME NEW s \in Pfs, PfsChange_post(s) PROVE Flags'
  BY <1>4, Zenon DEF Flags, PfsChange_post, argVars, runVars, envVars
<1>5. CASE watcher_connect
  BY <1>5, Zenon DEF Flags, watcher_connect, queueVars, pfsVars, argVars, runVars
<1>6. CASE watcher_sockfd
  BY <1>6, Zenon DEF Flags, watcher_sockfd, queueVars, pfsVars, runVars, envVars
<1>7. CASE watcher_connected
  BY <1>7, Zenon DEF Flags, watcher_connected, queueVars, pfsVars, runVars, envVars
<1>8. CASE watcher_fail
  BY <1>8, Zenon DEF Flags, watcher_fail, queueVars, pfsVars, runVars
<1>9. CASE watcher_destroy
  BY <1>9, Zenon DEF Flags, watcher_destroy, queueVars, pfsVars, runVars
<1>10. CASE run_start
  BY <1>10, Zenon DEF Flags, run_start, Step, argVars, envVars
<1>11. CASE WaitSemaphore
  BY <1>11, Zenon DEF Flags, WaitSemaphore, Step, argVars, envVars
<1>12. CASE run_flag
  BY <1>12, Zenon DEF Flags, run_flag, Step, argVars, envVars
<1>13. CASE run_pfsSend
  BY <1>13, Zenon DEF Flags, run_pfsSend, Step, SendMayWork, SendMayFail, argVars, envVars
<1>14. CASE run_pfsReport
  BY <1>14, Zenon DEF Flags, run_pfsReport, Step, argVars, envVars
<1>15. CASE run_pfsClear
  BY <1>15, Zenon DEF Flags, run_pfsClear, Step, argVars, envVars
<1>16. CASE run_dequeue
  BY <1>16, Zenon DEF Flags, run_dequeue, pfsVars, argVars, envVars
<1>17. CASE run_connected
  BY <1>17, Zenon DEF Flags, run_connected, Step, Settle, argVars, envVars
<1>18. CASE run_send
  BY <1>18, Zenon DEF Flags, run_send, Step, Settle, SendMayWork, SendMayFail, argVars, envVars
<1>19. CASE run_report
  BY <1>19, Zenon DEF Flags, run_report, Step, argVars, envVars
<1>20. CASE VasCrash
  BY <1>20, Zenon DEF Flags, VasCrash, queueVars, pfsVars, argVars, runVars
<1>21. CASE VasRecover
  BY <1>21, Zenon DEF Flags, VasRecover, queueVars, pfsVars, argVars, runVars
<1>22. CASE UNCHANGED vars
  BY <1>22, Zenon DEF Flags, vars, queueVars, pfsVars, argVars, runVars, envVars
<1> QED
  BY <1>1, <1>2, <1>3, <1>4, <1>5, <1>6, <1>7, <1>8, <1>9, <1>10, <1>11, <1>12, <1>13, <1>14,
      <1>15, <1>16, <1>17, <1>18, <1>19, <1>20, <1>21, <1>22
  DEF Next, Watcher, Run

\* Recording what became of an event keeps the type of the record.
LEMMA Recorded ==
  ASSUME Data, NEW m, NEW f \in Fates
  PROVE  [fate EXCEPT ![m] = f] \in [Messages -> Fates]
  BY DEF Data

LEMMA DataStep == Data /\ [Next]_vars => Data'
<1> SUFFICES ASSUME Data, [Next]_vars PROVE Data'
  OBVIOUS
<1>1. ASSUME NEW p \in Producers, NEW m \in Messages, EnqueueMessage(p, m) PROVE Data'
  BY <1>1, BoundAssumption DEF Data, Fates, EnqueueMessage, pfsVars, argVars, envVars
<1>2. ASSUME NEW p \in Producers, enqueue_post(p) PROVE Data'
  BY <1>2, BoundAssumption DEF Data, Fates, enqueue_post, pfsVars, argVars, runVars, envVars
<1>3. ASSUME NEW s \in Pfs, PfsChange(s) PROVE Data'
  BY <1>3, BoundAssumption DEF Data, Fates, PfsChange, queueVars, argVars, runVars, envVars
<1>4. ASSUME NEW s \in Pfs, PfsChange_post(s) PROVE Data'
  BY <1>4, BoundAssumption DEF Data, Fates, PfsChange_post, argVars, runVars, envVars
<1>5. CASE watcher_connect
  BY <1>5, BoundAssumption DEF Data, Fates, watcher_connect, queueVars, pfsVars, argVars, runVars
<1>6. CASE watcher_sockfd
  BY <1>6, BoundAssumption DEF Data, Fates, watcher_sockfd, queueVars, pfsVars, runVars, envVars
<1>7. CASE watcher_connected
  BY <1>7, BoundAssumption DEF Data, Fates, watcher_connected, queueVars, pfsVars, runVars, envVars
<1>8. CASE watcher_fail
  BY <1>8, BoundAssumption DEF Data, Fates, watcher_fail, queueVars, pfsVars, runVars
<1>9. CASE watcher_destroy
  BY <1>9, BoundAssumption DEF Data, Fates, watcher_destroy, queueVars, pfsVars, runVars
<1>10. CASE run_start
  BY <1>10, BoundAssumption DEF Data, Fates, run_start, Step, argVars, envVars
<1>11. CASE WaitSemaphore
  BY <1>11, BoundAssumption DEF Data, Fates, WaitSemaphore, Step, argVars, envVars
<1>12. CASE run_flag
  BY <1>12, BoundAssumption DEF Data, Fates, run_flag, Step, argVars, envVars
<1>13. CASE run_pfsSend
  BY <1>13, BoundAssumption
  DEF Data, Fates, run_pfsSend, Step, SendMayWork, SendMayFail, argVars, envVars
<1>14. CASE run_pfsReport
  BY <1>14, BoundAssumption DEF Data, Fates, run_pfsReport, Step, argVars, envVars
<1>15. CASE run_pfsClear
  BY <1>15, BoundAssumption DEF Data, Fates, run_pfsClear, Step, argVars, envVars
<1>16. CASE run_dequeue
  <2>1. CASE queue = <<>>
    BY <1>16, <2>1 DEF Data, Fates, pfsVars, argVars, envVars, run_dequeue
  <2>2. CASE queue # <<>>
    <3>1. Head(queue) \in Messages /\ Tail(queue) \in Seq(Messages)
      BY <2>2 DEF Data
    <3>2. /\ msg' = <<Head(queue)>>
          /\ queue' = Tail(queue)
          /\ fate' = [fate EXCEPT ![Head(queue)] = "held"]
          /\ UNCHANGED <<sem, posting, g_pfs_change, pfsPosting, nChange, nFail>>
      BY <1>16, <2>2, Zenon DEF run_dequeue, pfsVars, envVars
    <3>3. fate' \in [Messages -> Fates]
      BY <3>2, Recorded DEF Fates
    <3> QED BY <3>1, <3>2, <3>3 DEF Data
  <2> QED BY <2>1, <2>2
<1>17. CASE run_connected
  <2>1. CASE connected /\ Step("connected", "send")
    BY <1>17, <2>1 DEF Data, Fates, argVars, envVars, run_connected, Step, Settle
  <2>2. CASE Settle("connected", "wait", "discarded")
    BY <2>2, Recorded DEF Data, Fates, argVars, envVars, Step, Settle
  <2> QED BY <1>17, <2>1, <2>2 DEF run_connected
<1>18. CASE run_send
  <2>1. CASE Settle("send", "wait", IF link THEN "vas" ELSE "lost")
    BY <2>1, Recorded DEF Data, Fates, argVars, envVars, Step, Settle
  <2>2. CASE Settle("send", "report", "lost")
    BY <2>2, Recorded DEF Data, Fates, argVars, envVars, Step, Settle
  <2> QED BY <1>18, <2>1, <2>2 DEF run_send
<1>19. CASE run_report
  BY <1>19, BoundAssumption DEF Data, Fates, run_report, Step, argVars, envVars
<1>20. CASE VasCrash
  BY <1>20, BoundAssumption DEF Data, Fates, VasCrash, queueVars, pfsVars, argVars, runVars
<1>21. CASE VasRecover
  BY <1>21, BoundAssumption DEF Data, Fates, VasRecover, queueVars, pfsVars, argVars, runVars
<1>22. CASE UNCHANGED vars
  BY <1>22, BoundAssumption DEF Data, Fates, vars, queueVars, pfsVars, argVars, runVars, envVars
<1> QED
  BY <1>1, <1>2, <1>3, <1>4, <1>5, <1>6, <1>7, <1>8, <1>9, <1>10, <1>11, <1>12, <1>13, <1>14,
      <1>15, <1>16, <1>17, <1>18, <1>19, <1>20, <1>21, <1>22
  DEF Next, Watcher, Run

\* The sizes of the sets of callers that are about to post.
LEMMA Posters ==
  ASSUME NEW S, IsFiniteSet(S), NEW x
  PROVE  /\ Cardinality(S) \in Nat
         /\ IsFiniteSet(S \cup {x}) /\ IsFiniteSet(S \ {x})
         /\ x \notin S => Cardinality(S \cup {x}) = Cardinality(S) + 1
         /\ x \in S => Cardinality(S \ {x}) = Cardinality(S) - 1
  BY FS_CardinalityType, FS_AddElement, FS_RemoveElement

\* Every step preserves the accounting of tokens.
LEMMA CountingStep == Data /\ Counting /\ [Next]_vars => Counting'
<1> SUFFICES ASSUME Data, Counting, [Next]_vars PROVE Counting'
  OBVIOUS
<1> DEFINE a == Cardinality(posting)
<1> DEFINE b == Cardinality(pfsPosting)
<1>a. a \in Nat /\ b \in Nat
  BY Posters DEF Counting
<1> USE DEF Data, Counting, TokensCoverWork, Tokens, Waiting, Pending
<1>1. ASSUME NEW p \in Producers, NEW m \in Messages, EnqueueMessage(p, m) PROVE Counting'
  <2>1. CASE Len(queue) < MAX_VAS_EXTRA_QUEUE_SIZE
    <3>1. Len(queue') = Len(queue) + 1
      BY <1>1, <2>1 DEF EnqueueMessage, Data
    <3>2. IsFiniteSet(posting') /\ Cardinality(posting') = a + 1
      BY <1>1, <2>1, Posters DEF EnqueueMessage, Counting
    <3> QED BY <1>a, <1>1, <2>1, <3>1, <3>2 DEF pfsVars, argVars, envVars, EnqueueMessage
  <2>2. CASE ~(Len(queue) < MAX_VAS_EXTRA_QUEUE_SIZE)
    BY <1>a, <1>1, <2>2 DEF pfsVars, argVars, envVars, EnqueueMessage
  <2> QED BY <2>1, <2>2
<1>2. ASSUME NEW p \in Producers, enqueue_post(p) PROVE Counting'
  <2>1. IsFiniteSet(posting') /\ Cardinality(posting') = a - 1
    BY <1>2, Posters DEF enqueue_post, Counting
  <2> QED BY <1>a, <1>2, <2>1 DEF pfsVars, argVars, runVars, envVars, enqueue_post
<1>3. ASSUME NEW s \in Pfs, PfsChange(s) PROVE Counting'
  <2>1. IsFiniteSet(pfsPosting') /\ Cardinality(pfsPosting') = b + 1
    BY <1>3, Posters DEF PfsChange, Counting
  <2> QED BY <1>a, <1>3, <2>1 DEF queueVars, argVars, runVars, envVars, PfsChange
<1>4. ASSUME NEW s \in Pfs, PfsChange_post(s) PROVE Counting'
  <2>1. IsFiniteSet(pfsPosting') /\ Cardinality(pfsPosting') = b - 1
    BY <1>4, Posters DEF PfsChange_post, Counting
  <2> QED BY <1>a, <1>4, <2>1 DEF argVars, runVars, envVars, PfsChange_post
<1>5. CASE watcher_connect
  BY <1>5, <1>a DEF watcher_connect, queueVars, pfsVars, argVars, runVars
<1>6. CASE watcher_sockfd
  BY <1>6, <1>a DEF watcher_sockfd, queueVars, pfsVars, runVars, envVars
<1>7. CASE watcher_connected
  BY <1>7, <1>a DEF watcher_connected, queueVars, pfsVars, runVars, envVars
<1>8. CASE watcher_fail
  BY <1>8, <1>a DEF watcher_fail, queueVars, pfsVars, runVars
<1>9. CASE watcher_destroy
  BY <1>9, <1>a DEF watcher_destroy, queueVars, pfsVars, runVars
<1>10. CASE run_start
  BY <1>10, <1>a DEF run_start, Step, argVars, envVars
<1>11. CASE WaitSemaphore
  BY <1>11, <1>a DEF WaitSemaphore, Step, argVars, envVars
<1>12. CASE run_flag
  BY <1>12, <1>a DEF run_flag, Step, argVars, envVars
<1>13. CASE run_pfsSend
  BY <1>13, <1>a DEF run_pfsSend, Step, SendMayWork, SendMayFail, argVars, envVars
<1>14. CASE run_pfsReport
  BY <1>14, <1>a DEF run_pfsReport, Step, argVars, envVars
<1>15. CASE run_pfsClear
  BY <1>15, <1>a DEF run_pfsClear, Step, argVars, envVars
<1>16. CASE run_dequeue
  BY <1>16, <1>a DEF run_dequeue, pfsVars, argVars, envVars
<1>17. CASE run_connected
  BY <1>17, <1>a DEF run_connected, Step, Settle, argVars, envVars
<1>18. CASE run_send
  BY <1>18, <1>a DEF run_send, Step, Settle, SendMayWork, SendMayFail, argVars, envVars
<1>19. CASE run_report
  BY <1>19, <1>a DEF run_report, Step, argVars, envVars
<1>20. CASE VasCrash
  BY <1>20, <1>a DEF VasCrash, queueVars, pfsVars, argVars, runVars
<1>21. CASE VasRecover
  BY <1>21, <1>a DEF VasRecover, queueVars, pfsVars, argVars, runVars
<1>22. CASE UNCHANGED vars
  BY <1>22, <1>a DEF vars, queueVars, pfsVars, argVars, runVars, envVars
<1> QED
  BY <1>1, <1>2, <1>3, <1>4, <1>5, <1>6, <1>7, <1>8, <1>9, <1>10, <1>11, <1>12, <1>13, <1>14,
      <1>15, <1>16, <1>17, <1>18, <1>19, <1>20, <1>21, <1>22
  DEF Next, Watcher, Run

\* Every step preserves what holds while nothing has failed.
LEMMA QuietStep == Data /\ Quiet /\ [Next]_vars => Quiet'
<1> SUFFICES ASSUME Data, Quiet, [Next]_vars PROVE Quiet'
  OBVIOUS
<1>a. nFail \in Nat
  BY BoundAssumption DEF Data
<1>1. ASSUME NEW p \in Producers, NEW m \in Messages, EnqueueMessage(p, m) PROVE Quiet'
  BY <1>1, <1>a DEF Data, Quiet, EnqueueMessage, pfsVars, argVars, envVars
<1>2. ASSUME NEW p \in Producers, enqueue_post(p) PROVE Quiet'
  BY <1>2, <1>a DEF Data, Quiet, enqueue_post, pfsVars, argVars, runVars, envVars
<1>3. ASSUME NEW s \in Pfs, PfsChange(s) PROVE Quiet'
  BY <1>3, <1>a DEF Data, Quiet, PfsChange, queueVars, argVars, runVars, envVars
<1>4. ASSUME NEW s \in Pfs, PfsChange_post(s) PROVE Quiet'
  BY <1>4, <1>a DEF Data, Quiet, PfsChange_post, argVars, runVars, envVars
<1>5. CASE watcher_connect
  BY <1>5, <1>a DEF Data, Quiet, watcher_connect, queueVars, pfsVars, argVars, runVars
<1>6. CASE watcher_sockfd
  BY <1>6, <1>a DEF Data, Quiet, watcher_sockfd, queueVars, pfsVars, runVars, envVars
<1>7. CASE watcher_connected
  BY <1>7, <1>a DEF Data, Quiet, watcher_connected, queueVars, pfsVars, runVars, envVars
<1>8. CASE watcher_fail
  BY <1>8, <1>a DEF Data, Quiet, watcher_fail, queueVars, pfsVars, runVars
<1>9. CASE watcher_destroy
  BY <1>9, <1>a DEF Data, Quiet, watcher_destroy, queueVars, pfsVars, runVars
<1>10. CASE run_start
  BY <1>10, <1>a DEF Data, Quiet, run_start, Step, argVars, envVars
<1>11. CASE WaitSemaphore
  BY <1>11, <1>a DEF Data, Quiet, WaitSemaphore, Step, argVars, envVars
<1>12. CASE run_flag
  BY <1>12, <1>a DEF Data, Quiet, run_flag, Step, argVars, envVars
<1>13. CASE run_pfsSend
  BY <1>13, <1>a DEF Data, Quiet, run_pfsSend, Step, SendMayWork, SendMayFail, argVars, envVars
<1>14. CASE run_pfsReport
  BY <1>14, <1>a DEF Data, Quiet, run_pfsReport, Step, argVars, envVars
<1>15. CASE run_pfsClear
  BY <1>15, <1>a DEF Data, Quiet, run_pfsClear, Step, argVars, envVars
<1>16. CASE run_dequeue
  BY <1>16, <1>a DEF Data, Quiet, run_dequeue, pfsVars, argVars, envVars
<1>17. CASE run_connected
  BY <1>17, <1>a DEF Data, Quiet, run_connected, Step, Settle, argVars, envVars
<1>18. CASE run_send
  BY <1>18, <1>a DEF Data, Quiet, run_send, Step, Settle, SendMayWork, SendMayFail, argVars, envVars
<1>19. CASE run_report
  BY <1>19, <1>a DEF Data, Quiet, run_report, Step, argVars, envVars
<1>20. CASE VasCrash
  BY <1>20, <1>a DEF Data, Quiet, VasCrash, queueVars, pfsVars, argVars, runVars
<1>21. CASE VasRecover
  BY <1>21, <1>a DEF Data, Quiet, VasRecover, queueVars, pfsVars, argVars, runVars
<1>22. CASE UNCHANGED vars
  BY <1>22, <1>a DEF Data, Quiet, vars, queueVars, pfsVars, argVars, runVars, envVars
<1> QED
  BY <1>1, <1>2, <1>3, <1>4, <1>5, <1>6, <1>7, <1>8, <1>9, <1>10, <1>11, <1>12, <1>13, <1>14,
      <1>15, <1>16, <1>17, <1>18, <1>19, <1>20, <1>21, <1>22
  DEF Next, Watcher, Run

LEMMA NextStep == IInv /\ [Next]_vars => IInv'
  BY FlagsStep, DataStep, CountingStep, QuietStep DEF IInv

\* Types are kept by both threads of the EXTRA VAS server and their callers.
THEOREM TypeCorrect == Spec => []TypeOK
  BY InitStep, NextStep, Implied, PTL DEF Spec

\* No event stays in the queue of the EXTRA VAS server, and no change request in
\* its byte, without a post of the semaphore that makes Run look again.
THEOREM TokensAlwaysCoverWork == Spec => []TokensCoverWork
  BY InitStep, NextStep, Implied, PTL DEF Spec

\* Run loses or discards an event only after the server or its connection failed.
THEOREM LossAlwaysNeedsFailure == Spec => []LossNeedsFailure
  BY InitStep, NextStep, Implied, PTL DEF Spec
=============================================================================
