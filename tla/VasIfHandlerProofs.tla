-------------------------- MODULE VasIfHandlerProofs --------------------------
(***************************************************************************)
(* Proofs about VasIfHandler for every set of producers, PFS threads and    *)
(* events, every queue size, every number of reconnection attempts and      *)
(* every number of failures, change requests and switch-backs.              *)
(***************************************************************************)
EXTENDS VasIfHandler, FiniteSetTheorems, TLAPS

\* TypeOK in two parts, for the two kinds of reasoning they need.
Flags ==
  /\ connected \in BOOLEAN
  /\ failedToConnect \in BOOLEAN
  /\ sockfd \in {"none", "live", "stale"}
  /\ wpc \in WPC
  /\ rpc \in RPC
  /\ vasUp \in BOOLEAN
  /\ link \in BOOLEAN

\* An attempt to reconnect is made only while the counter is below its limit.
Data ==
  /\ queue \in Seq(Messages)
  /\ sem \in Nat
  /\ posting \in SUBSET Producers
  /\ g_pfs_change \in Pfs \cup {NoChange}
  /\ pfsPosting \in SUBSET Pfs
  /\ m_nChangeBackRequest \in {0, 1}
  /\ try_out_count \in 0 .. MaxTries
  /\ wpc = "retry" => try_out_count < MaxTries
  /\ msg \in Seq(Messages)
  /\ nFail \in 0 .. MaxFail
  /\ nChange \in 0 .. MaxChange
  /\ nSwitch \in 0 .. MaxSwitch
  /\ fate \in [Messages -> Fates]
  /\ lostAfter \in Nat
  /\ requested \in Pfs \cup {NoChange}
  /\ announced \in Pfs \cup {NoChange}

\* Tokens that nobody has taken yet.
Pending == sem + Cardinality(posting) + Cardinality(pfsPosting)

\* The accounting of the one semaphore.  TokensCoverWork is not inductive: when
\* Run finds the queue empty it gives up its token, although a change request may
\* have come between its look at the byte and its look at the queue.  Such a
\* request brings a token of its own.
Counting ==
  /\ IsFiniteSet(posting)
  /\ IsFiniteSet(pfsPosting)
  /\ TokensCoverWork
  /\ rpc = "dequeue" /\ g_pfs_change # NoChange => Pending >= 1

\* The flags Run reads say where the watcher is: connected is set only while it
\* polls the connection, failedToConnect from the third failed attempt to the
\* next start of the loop.
Published ==
  /\ connected <=> wpc = "poll"
  /\ failedToConnect => wpc \in {"switchback", "reset", "top"}
  /\ wpc \in {"switchback", "reset"} => failedToConnect

\* Where the two events can be lost: the one Run was about to send when the
\* connection was given up, and one that falls through both conditions.
Losses ==
  /\ lostAfter <= 2
  /\ wpc \in {"destroy", "retry", "giveup"} => lostAfter <= 1 /\ (rpc = "send" => lostAfter = 0)
  /\ ~connected /\ rpc = "send" => lostAfter <= 1
  /\ failedToConnect /\ rpc \in {"connected2", "failed2"} => lostAfter <= 1

\* While nothing has failed, the watcher does not go beyond its poll, the
\* connection it announced works, and no event has been lost or diverted.
Quiet ==
  nFail = 0 =>
    /\ wpc \in {"top", "connect", "sockfd", "connected", "poll"}
    /\ wpc \in {"sockfd", "connected", "poll"} => link
    /\ wpc \in {"connected", "poll"} => sockfd = "live"
    /\ ~failedToConnect
    /\ rpc # "start" => connected
    /\ rpc \notin {"failed1", "failed2", "loop", "extra"}
    /\ \A m \in Messages : fate[m] \notin {"lost", "extra"}

\* The inductive invariant.
IInv == Flags /\ Data /\ Counting /\ Published /\ Losses /\ Quiet

LEMMA Implied == IInv => TypeOK /\ TokensCoverWork /\ BoundedLoss /\ LossNeedsFailure
<1> SUFFICES ASSUME IInv PROVE TypeOK /\ TokensCoverWork /\ BoundedLoss /\ LossNeedsFailure
  OBVIOUS
<1>1. TypeOK
  BY Zenon DEF IInv, Flags, Data, TypeOK
<1>2. LossNeedsFailure
  BY BoundAssumption DEF IInv, Data, Quiet, LossNeedsFailure
<1> QED BY <1>1, <1>2 DEF IInv, Counting, Losses, BoundedLoss

LEMMA InitStep == Init => IInv
<1> SUFFICES ASSUME Init PROVE IInv
  OBVIOUS
<1>1. Flags
  BY Zenon DEF Init, Flags, WPC, RPC
<1>2. Data
  BY BoundAssumption, TriesAssumption, SMT DEF Init, Data, Fates
<1>3. Counting
  BY FS_EmptySet DEF Init, Counting, TokensCoverWork, Tokens, Waiting, Pending
<1>4. Published /\ Losses /\ Quiet
  BY DEF Init, Published, Losses, Quiet
<1> QED BY <1>1, <1>2, <1>3, <1>4 DEF IInv

\* Every step preserves the types.
LEMMA FlagsStep == Flags /\ [Next]_vars => Flags'
<1> SUFFICES ASSUME Flags, [Next]_vars PROVE Flags'
  OBVIOUS
<1> USE DEF Flags, WPC, RPC
<1>1. ASSUME NEW p \in Producers, NEW m \in Messages, EnqueueMessage(p, m) PROVE Flags'
  BY <1>1, Zenon DEF EnqueueMessage, pfsVars, argVars, watcherVars, envVars
<1>2. ASSUME NEW p \in Producers, enqueue_post(p) PROVE Flags'
  BY <1>2, Zenon DEF enqueue_post, pfsVars, argVars, watcherVars, runVars, envVars
<1>3. ASSUME NEW s \in Pfs, PfsChange(s) PROVE Flags'
  BY <1>3, Zenon DEF PfsChange, queueVars, argVars, watcherVars, runVars, envVars
<1>4. ASSUME NEW s \in Pfs, PfsChange_post(s) PROVE Flags'
  BY <1>4, Zenon DEF PfsChange_post, argVars, watcherVars, runVars, envVars
<1>5. CASE SetVasChangeBack
  BY <1>5, Zenon DEF SetVasChangeBack, queueVars, pfsVars, argVars, runVars
<1>6. CASE watcher_top
  BY <1>6, Zenon DEF watcher_top, WatcherGoto, queueVars, pfsVars, runVars, envVars
<1>7. CASE watcher_connect
  BY <1>7, Zenon DEF watcher_connect, WatcherGoto, queueVars, pfsVars, argVars, runVars
<1>8. CASE watcher_sockfd
  BY <1>8, Zenon DEF watcher_sockfd, WatcherGoto, queueVars, pfsVars, runVars, envVars
<1>9. CASE watcher_connected
  BY <1>9, Zenon DEF watcher_connected, WatcherGoto, queueVars, pfsVars, runVars, envVars
<1>10. CASE watcher_detect
  BY <1>10, Zenon DEF watcher_detect, watcher_fail, WatcherGoto, queueVars, pfsVars, envVars
<1>11. CASE watcher_destroy
  BY <1>11, Zenon DEF watcher_destroy, WatcherGoto, queueVars, pfsVars, runVars
<1>12. CASE watcher_retry
  BY <1>12, Zenon DEF watcher_retry, queueVars, pfsVars, argVars, runVars
<1>13. CASE watcher_giveup
  BY <1>13, Zenon DEF watcher_giveup, WatcherGoto, queueVars, pfsVars, runVars, envVars
<1>14. CASE watcher_switchback
  BY <1>14, Zenon DEF watcher_switchback, WatcherGoto, queueVars, pfsVars, argVars, runVars, envVars
<1>15. CASE watcher_reset
  BY <1>15, Zenon DEF watcher_reset, WatcherGoto, queueVars, pfsVars, argVars, runVars, envVars
<1>16. CASE watcher_badHeartBeat
  BY <1>16, Zenon DEF watcher_badHeartBeat, watcher_fail, WatcherGoto, queueVars, pfsVars
<1>17. CASE run_start
  BY <1>17, Zenon DEF run_start, Step, argVars, watcherVars, envVars
<1>18. CASE WaitSemaphore
  BY <1>18, Zenon DEF WaitSemaphore, Step, argVars, watcherVars, envVars
<1>19. CASE run_flag
  BY <1>19, Zenon DEF run_flag, Step, argVars, watcherVars, envVars
<1>20. CASE run_pfsSend
  BY <1>20, Zenon DEF run_pfsSend, Step, argVars, watcherVars, envVars
<1>21. CASE run_pfsClear
  BY <1>21, Zenon DEF run_pfsClear, Step, argVars, watcherVars, envVars
<1>22. CASE run_dequeue
  BY <1>22, Zenon DEF run_dequeue, pfsVars, argVars, watcherVars, envVars
<1>23. CASE run_connected1
  BY <1>23, Zenon DEF run_connected1, Step, argVars, watcherVars, envVars
<1>24. CASE run_failed1
  BY <1>24, Zenon DEF run_failed1, Step, argVars, watcherVars, envVars
<1>25. CASE run_connected2
  BY <1>25, Zenon DEF run_connected2, Step, argVars, watcherVars, envVars
<1>26. CASE run_failed2
  BY <1>26, Zenon DEF run_failed2, Step, argVars, watcherVars, envVars
<1>27. CASE run_loop
  BY <1>27, Zenon DEF run_loop, Step, argVars, watcherVars, envVars
<1>28. CASE run_send
  BY <1>28, Zenon DEF run_send, Settle, Step, argVars, watcherVars, envVars
<1>29. CASE run_extra
  BY <1>29, Zenon DEF run_extra, Settle, Step, argVars, watcherVars, envVars
<1>30. CASE VasCrash
  BY <1>30, Zenon DEF VasCrash, queueVars, pfsVars, argVars, watcherVars, runVars
<1>31. CASE VasRecover
  BY <1>31, Zenon DEF VasRecover, queueVars, pfsVars, argVars, watcherVars, runVars
<1>32. CASE UNCHANGED vars
  BY <1>32, Zenon DEF vars, queueVars, pfsVars, argVars, watcherVars, runVars, envVars
<1> QED
  BY <1>1, <1>2, <1>3, <1>4, <1>5, <1>6, <1>7, <1>8, <1>9, <1>10, <1>11, <1>12, <1>13, <1>14,
      <1>15, <1>16, <1>17, <1>18, <1>19, <1>20, <1>21, <1>22, <1>23, <1>24, <1>25, <1>26, <1>27, <1>28, <1>29, <1>30, <1>31, <1>32
  DEF Next, Watcher, Run

\* Recording what became of an event keeps the type of the record.
LEMMA Recorded ==
  ASSUME Data, NEW m, NEW f \in Fates
  PROVE  [fate EXCEPT ![m] = f] \in [Messages -> Fates]
  BY DEF Data

LEMMA DataStep == Data /\ [Next]_vars => Data'
<1> SUFFICES ASSUME Data, [Next]_vars PROVE Data'
  OBVIOUS
<1> USE BoundAssumption, TriesAssumption
<1>1. ASSUME NEW p \in Producers, NEW m \in Messages, EnqueueMessage(p, m) PROVE Data'
  BY <1>1, Recorded DEF Data, Fates, EnqueueMessage, pfsVars, argVars, watcherVars, envVars
<1>2. ASSUME NEW p \in Producers, enqueue_post(p) PROVE Data'
  BY <1>2 DEF Data, enqueue_post, pfsVars, argVars, watcherVars, runVars, envVars
<1>3. ASSUME NEW s \in Pfs, PfsChange(s) PROVE Data'
  BY <1>3 DEF Data, PfsChange, queueVars, argVars, watcherVars, runVars, envVars
<1>4. ASSUME NEW s \in Pfs, PfsChange_post(s) PROVE Data'
  BY <1>4 DEF Data, PfsChange_post, argVars, watcherVars, runVars, envVars
<1>5. CASE SetVasChangeBack
  BY <1>5 DEF Data, SetVasChangeBack, queueVars, pfsVars, argVars, runVars
<1>6. CASE watcher_top
  BY <1>6 DEF Data, watcher_top, WatcherGoto, queueVars, pfsVars, runVars, envVars
<1>7. CASE watcher_connect
  BY <1>7 DEF Data, watcher_connect, WatcherGoto, queueVars, pfsVars, argVars, runVars
<1>8. CASE watcher_sockfd
  BY <1>8 DEF Data, watcher_sockfd, WatcherGoto, queueVars, pfsVars, runVars, envVars
<1>9. CASE watcher_connected
  BY <1>9 DEF Data, watcher_connected, WatcherGoto, queueVars, pfsVars, runVars, envVars
<1>10. CASE watcher_detect
  BY <1>10 DEF Data, watcher_detect, watcher_fail, WatcherGoto, queueVars, pfsVars, envVars
<1>11. CASE watcher_destroy
  BY <1>11 DEF Data, watcher_destroy, WatcherGoto, queueVars, pfsVars, runVars
<1>12. CASE watcher_retry
  BY <1>12 DEF Data, watcher_retry, queueVars, pfsVars, argVars, runVars
<1>13. CASE watcher_giveup
  BY <1>13 DEF Data, watcher_giveup, WatcherGoto, queueVars, pfsVars, runVars, envVars
<1>14. CASE watcher_switchback
  BY <1>14 DEF Data, watcher_switchback, WatcherGoto, queueVars, pfsVars, argVars, runVars, envVars
<1>15. CASE watcher_reset
  BY <1>15 DEF Data, watcher_reset, WatcherGoto, queueVars, pfsVars, argVars, runVars, envVars
<1>16. CASE watcher_badHeartBeat
  BY <1>16 DEF Data, watcher_badHeartBeat, watcher_fail, WatcherGoto, queueVars, pfsVars
<1>17. CASE run_start
  BY <1>17 DEF Data, run_start, Step, argVars, watcherVars, envVars
<1>18. CASE WaitSemaphore
  BY <1>18 DEF Data, WaitSemaphore, Step, argVars, watcherVars, envVars
<1>19. CASE run_flag
  BY <1>19 DEF Data, run_flag, Step, argVars, watcherVars, envVars
<1>20. CASE run_pfsSend
  BY <1>20 DEF Data, run_pfsSend, Step, argVars, watcherVars, envVars
<1>21. CASE run_pfsClear
  BY <1>21 DEF Data, run_pfsClear, Step, argVars, watcherVars, envVars
<1>22. CASE run_dequeue
  <2>1. CASE queue = <<>>
    BY <1>22, <2>1 DEF Data, run_dequeue, pfsVars, argVars, watcherVars, envVars
  <2>2. CASE queue # <<>>
    <3>1. Head(queue) \in Messages /\ Tail(queue) \in Seq(Messages)
      BY <2>2 DEF Data
    <3>2. /\ msg' = <<Head(queue)>>
          /\ queue' = Tail(queue)
          /\ fate' = [fate EXCEPT ![Head(queue)] = "held"]
          /\ UNCHANGED <<sem, posting, pfsVars, watcherVars, lostAfter, announced, envVars>>
      BY <1>22, <2>2, Zenon DEF run_dequeue
    <3>3. fate' \in [Messages -> Fates]
      BY <3>2, Recorded DEF Fates
    <3>4. UNCHANGED <<wpc, try_out_count, m_nChangeBackRequest, g_pfs_change, pfsPosting, nChange,
                      requested, nFail, nSwitch>>
      BY <3>2, Zenon DEF pfsVars, watcherVars, envVars
    <3> QED BY <3>1, <3>2, <3>3, <3>4 DEF Data
  <2> QED BY <2>1, <2>2
<1>23. CASE run_connected1
  BY <1>23 DEF Data, run_connected1, Step, argVars, watcherVars, envVars
<1>24. CASE run_failed1
  BY <1>24 DEF Data, run_failed1, Step, argVars, watcherVars, envVars
<1>25. CASE run_connected2
  BY <1>25 DEF Data, run_connected2, Step, argVars, watcherVars, envVars
<1>26. CASE run_failed2
  BY <1>26 DEF Data, run_failed2, Step, argVars, watcherVars, envVars
<1>27. CASE run_loop
  BY <1>27 DEF Data, run_loop, Step, argVars, watcherVars, envVars
<1>28. CASE run_send
  <2>1. fate' \in [Messages -> Fates]
    BY <1>28, Recorded DEF run_send, Settle, Fates
  <2>2. lostAfter' \in Nat
    BY <1>28 DEF run_send, Settle, Data
  <2> QED BY <1>28, <2>1, <2>2 DEF Data, run_send, Settle, Step, argVars, watcherVars, envVars
<1>29. CASE run_extra
  <2>1. fate' \in [Messages -> Fates]
    BY <1>29, Recorded DEF run_extra, Settle, Fates
  <2>2. lostAfter' \in Nat
    BY <1>29 DEF run_extra, Settle, Data
  <2> QED BY <1>29, <2>1, <2>2 DEF Data, run_extra, Settle, Step, argVars, watcherVars, envVars
<1>30. CASE VasCrash
  BY <1>30 DEF Data, VasCrash, queueVars, pfsVars, argVars, watcherVars, runVars
<1>31. CASE VasRecover
  BY <1>31 DEF Data, VasRecover, queueVars, pfsVars, argVars, watcherVars, runVars
<1>32. CASE UNCHANGED vars
  BY <1>32 DEF Data, vars, queueVars, pfsVars, argVars, watcherVars, runVars, envVars
<1> QED
  BY <1>1, <1>2, <1>3, <1>4, <1>5, <1>6, <1>7, <1>8, <1>9, <1>10, <1>11, <1>12, <1>13, <1>14,
      <1>15, <1>16, <1>17, <1>18, <1>19, <1>20, <1>21, <1>22, <1>23, <1>24, <1>25, <1>26, <1>27, <1>28, <1>29, <1>30, <1>31, <1>32
  DEF Next, Watcher, Run

\* The sizes of the sets of callers that are about to post.
LEMMA Posters ==
  ASSUME NEW S, IsFiniteSet(S), NEW x
  PROVE  /\ Cardinality(S) \in Nat
         /\ IsFiniteSet(S \cup {x}) /\ IsFiniteSet(S \ {x})
         /\ x \notin S => Cardinality(S \cup {x}) = Cardinality(S) + 1
         /\ x \in S => Cardinality(S \ {x}) = Cardinality(S) - 1
  BY FS_CardinalityType, FS_AddElement, FS_RemoveElement

\* Every step preserves the accounting of tokens.
LEMMA CountingStep == Data /\ Counting /\ [Next]_vars => Counting'
<1> SUFFICES ASSUME Data, Counting, [Next]_vars PROVE Counting'
  OBVIOUS
<1> DEFINE a == Cardinality(posting)
<1> DEFINE b == Cardinality(pfsPosting)
<1>a. a \in Nat /\ b \in Nat
  BY Posters DEF Counting
<1> USE DEF Data, Counting, TokensCoverWork, Tokens, Waiting, Pending
<1>1. ASSUME NEW p \in Producers, NEW m \in Messages, EnqueueMessage(p, m) PROVE Counting'
  <2>1. CASE Len(queue) < MAX_VAS_QUEUE_SIZE
    <3>1. Len(queue') = Len(queue) + 1
      BY <1>1, <2>1 DEF EnqueueMessage
    <3>2. IsFiniteSet(posting') /\ Cardinality(posting') = a + 1
      BY <1>1, <2>1, Posters DEF EnqueueMessage
    <3> QED BY <1>a, <1>1, <2>1, <3>1, <3>2
    DEF EnqueueMessage, pfsVars, argVars, watcherVars, envVars
  <2>2. CASE ~(Len(queue) < MAX_VAS_QUEUE_SIZE)
    BY <1>a, <1>1, <2>2 DEF EnqueueMessage, pfsVars, argVars, watcherVars, envVars
  <2> QED BY <2>1, <2>2
<1>2. ASSUME NEW p \in Producers, enqueue_post(p) PROVE Counting'
  <2>1. IsFiniteSet(posting') /\ Cardinality(posting') = a - 1
    BY <1>2, Posters DEF enqueue_post
  <2> QED BY <1>a, <1>2, <2>1 DEF enqueue_post, pfsVars, argVars, watcherVars, runVars, envVars
<1>3. ASSUME NEW s \in Pfs, PfsChange(s) PROVE Counting'
  <2>1. IsFiniteSet(pfsPosting') /\ Cardinality(pfsPosting') = b + 1
    BY <1>3, Posters DEF PfsChange
  <2> QED BY <1>a, <1>3, <2>1 DEF PfsChange, queueVars, argVars, watcherVars, runVars, envVars
<1>4. ASSUME NEW s \in Pfs, PfsChange_post(s) PROVE Counting'
  <2>1. IsFiniteSet(pfsPosting') /\ Cardinality(pfsPosting') = b - 1
    BY <1>4, Posters DEF PfsChange_post
  <2> QED BY <1>a, <1>4, <2>1 DEF PfsChange_post, argVars, watcherVars, runVars, envVars
<1>5. CASE SetVasChangeBack
  BY <1>5, <1>a DEF SetVasChangeBack, queueVars, pfsVars, argVars, runVars
<1>6. CASE watcher_top
  BY <1>6, <1>a DEF watcher_top, WatcherGoto, queueVars, pfsVars, runVars, envVars
<1>7. CASE watcher_connect
  BY <1>7, <1>a DEF watcher_connect, WatcherGoto, queueVars, pfsVars, argVars, runVars
<1>8. CASE watcher_sockfd
  BY <1>8, <1>a DEF watcher_sockfd, WatcherGoto, queueVars, pfsVars, runVars, envVars
<1>9. CASE watcher_connected
  BY <1>9, <1>a DEF watcher_connected, WatcherGoto, queueVars, pfsVars, runVars, envVars
<1>10. CASE watcher_detect
  BY <1>10, <1>a DEF watcher_detect, watcher_fail, WatcherGoto, queueVars, pfsVars, envVars
<1>11. CASE watcher_destroy
  BY <1>11, <1>a DEF watcher_destroy, WatcherGoto, queueVars, pfsVars, runVars
<1>12. CASE watcher_retry
  BY <1>12, <1>a DEF watcher_retry, queueVars, pfsVars, argVars, runVars
<1>13. CASE watcher_giveup
  BY <1>13, <1>a DEF watcher_giveup, WatcherGoto, queueVars, pfsVars, runVars, envVars
<1>14. CASE watcher_switchback
  BY <1>14, <1>a DEF watcher_switchback, WatcherGoto, queueVars, pfsVars, argVars, runVars, envVars
<1>15. CASE watcher_reset
  BY <1>15, <1>a DEF watcher_reset, WatcherGoto, queueVars, pfsVars, argVars, runVars, envVars
<1>16. CASE watcher_badHeartBeat
  BY <1>16, <1>a DEF watcher_badHeartBeat, watcher_fail, WatcherGoto, queueVars, pfsVars
<1>17. CASE run_start
  BY <1>17, <1>a DEF run_start, Step, argVars, watcherVars, envVars
<1>18. CASE WaitSemaphore
  BY <1>18, <1>a DEF WaitSemaphore, Step, argVars, watcherVars, envVars
<1>19. CASE run_flag
  BY <1>19, <1>a DEF run_flag, Step, argVars, watcherVars, envVars
<1>20. CASE run_pfsSend
  BY <1>20, <1>a DEF run_pfsSend, Step, argVars, watcherVars, envVars
<1>21. CASE run_pfsClear
  BY <1>21, <1>a DEF run_pfsClear, Step, argVars, watcherVars, envVars
<1>22. CASE run_dequeue
  BY <1>22, <1>a DEF run_dequeue, pfsVars, argVars, watcherVars, envVars
<1>23. CASE run_connected1
  BY <1>23, <1>a DEF run_connected1, Step, argVars, watcherVars, envVars
<1>24. CASE run_failed1
  BY <1>24, <1>a DEF run_failed1, Step, argVars, watcherVars, envVars
<1>25. CASE run_connected2
  BY <1>25, <1>a DEF run_connected2, Step, argVars, watcherVars, envVars
<1>26. CASE run_failed2
  BY <1>26, <1>a DEF run_failed2, Step, argVars, watcherVars, envVars
<1>27. CASE run_loop
  BY <1>27, <1>a DEF run_loop, Step, argVars, watcherVars, envVars
<1>28. CASE run_send
  BY <1>28, <1>a DEF run_send, Settle, Step, argVars, watcherVars, envVars
<1>29. CASE run_extra
  BY <1>29, <1>a DEF run_extra, Settle, Step, argVars, watcherVars, envVars
<1>30. CASE VasCrash
  BY <1>30, <1>a DEF VasCrash, queueVars, pfsVars, argVars, watcherVars, runVars
<1>31. CASE VasRecover
  BY <1>31, <1>a DEF VasRecover, queueVars, pfsVars, argVars, watcherVars, runVars
<1>32. CASE UNCHANGED vars
  BY <1>32, <1>a DEF vars, queueVars, pfsVars, argVars, watcherVars, runVars, envVars
<1> QED
  BY <1>1, <1>2, <1>3, <1>4, <1>5, <1>6, <1>7, <1>8, <1>9, <1>10, <1>11, <1>12, <1>13, <1>14,
      <1>15, <1>16, <1>17, <1>18, <1>19, <1>20, <1>21, <1>22, <1>23, <1>24, <1>25, <1>26, <1>27, <1>28, <1>29, <1>30, <1>31, <1>32
  DEF Next, Watcher, Run

\* Every step preserves the meaning of the watcher's flags.
LEMMA PublishedStep == Flags /\ Published /\ [Next]_vars => Published'
<1> SUFFICES ASSUME Flags, Published, [Next]_vars PROVE Published'
  OBVIOUS
<1>1. ASSUME NEW p \in Producers, NEW m \in Messages, EnqueueMessage(p, m) PROVE Published'
  BY <1>1 DEF Flags, Published, EnqueueMessage, pfsVars, argVars, watcherVars, envVars
<1>2. ASSUME NEW p \in Producers, enqueue_post(p) PROVE Published'
  BY <1>2 DEF Flags, Published, enqueue_post, pfsVars, argVars, watcherVars, runVars, envVars
<1>3. ASSUME NEW s \in Pfs, PfsChange(s) PROVE Published'
  BY <1>3 DEF Flags, Published, PfsChange, queueVars, argVars, watcherVars, runVars, envVars
<1>4. ASSUME NEW s \in Pfs, PfsChange_post(s) PROVE Published'
  BY <1>4 DEF Flags, Published, PfsChange_post, argVars, watcherVars, runVars, envVars
<1>5. CASE SetVasChangeBack
  BY <1>5 DEF Flags, Published, SetVasChangeBack, queueVars, pfsVars, argVars, runVars
<1>6. CASE watcher_top
  BY <1>6 DEF Flags, Published, watcher_top, WatcherGoto, queueVars, pfsVars, runVars, envVars
<1>7. CASE watcher_connect
  BY <1>7 DEF Flags, Published, watcher_connect, WatcherGoto, queueVars, pfsVars, argVars, runVars
<1>8. CASE watcher_sockfd
  BY <1>8 DEF Flags, Published, watcher_sockfd, WatcherGoto, queueVars, pfsVars, runVars, envVars
<1>9. CASE watcher_connected
  BY <1>9 DEF Flags, Published, watcher_connected, WatcherGoto, queueVars, pfsVars, runVars, envVars
<1>10. CASE watcher_detect
  BY <1>10
  DEF Flags, Published, watcher_detect, watcher_fail, WatcherGoto, queueVars, pfsVars, envVars
<1>11. CASE watcher_destroy
  BY <1>11 DEF Flags, Published, watcher_destroy, WatcherGoto, queueVars, pfsVars, runVars
<1>12. CASE watcher_retry
  BY <1>12 DEF Flags, Published, watcher_retry, queueVars, pfsVars, argVars, runVars
<1>13. CASE watcher_giveup
  BY <1>13 DEF Flags, Published, watcher_giveup, WatcherGoto, queueVars, pfsVars, runVars, envVars
<1>14. CASE watcher_switchback
  BY <1>14
  DEF Flags, Published, watcher_switchback, WatcherGoto, queueVars, pfsVars, argVars, runVars,
      envVars
<1>15. CASE watcher_reset
  BY <1>15
  DEF Flags, Published, watcher_reset, WatcherGoto, queueVars, pfsVars, argVars, runVars, envVars
<1>16. CASE watcher_badHeartBeat
  BY <1>16 DEF Flags, Published, watcher_badHeartBeat, watcher_fail, WatcherGoto, queueVars, pfsVars
<1>17. CASE run_start
  BY <1>17 DEF Flags, Published, run_start, Step, argVars, watcherVars, envVars
<1>18. CASE WaitSemaphore
  BY <1>18 DEF Flags, Published, WaitSemaphore, Step, argVars, watcherVars, envVars
<1>19. CASE run_flag
  BY <1>19 DEF Flags, Published, run_flag, Step, argVars, watcherVars, envVars
<1>20. CASE run_pfsSend
  BY <1>20 DEF Flags, Published, run_pfsSend, Step, argVars, watcherVars, envVars
<1>21. CASE run_pfsClear
  BY <1>21 DEF Flags, Published, run_pfsClear, Step, argVars, watcherVars, envVars
<1>22. CASE run_dequeue
  BY <1>22 DEF Flags, Published, run_dequeue, pfsVars, argVars, watcherVars, envVars
<1>23. CASE run_connected1
  BY <1>23 DEF Flags, Published, run_connected1, Step, argVars, watcherVars, envVars
<1>24. CASE run_failed1
  BY <1>24 DEF Flags, Published, run_failed1, Step, argVars, watcherVars, envVars
<1>25. CASE run_connected2
  BY <1>25 DEF Flags, Published, run_connected2, Step, argVars, watcherVars, envVars
<1>26. CASE run_failed2
  BY <1>26 DEF Flags, Published, run_failed2, Step, argVars, watcherVars, envVars
<1>27. CASE run_loop
  BY <1>27 DEF Flags, Published, run_loop, Step, argVars, watcherVars, envVars
<1>28. CASE run_send
  BY <1>28 DEF Flags, Published, run_send, Settle, Step, argVars, watcherVars, envVars
<1>29. CASE run_extra
  BY <1>29 DEF Flags, Published, run_extra, Settle, Step, argVars, watcherVars, envVars
<1>30. CASE VasCrash
  BY <1>30 DEF Flags, Published, VasCrash, queueVars, pfsVars, argVars, watcherVars, runVars
<1>31. CASE VasRecover
  BY <1>31 DEF Flags, Published, VasRecover, queueVars, pfsVars, argVars, watcherVars, runVars
<1>32. CASE UNCHANGED vars
  BY <1>32 DEF Flags, Published, vars, queueVars, pfsVars, argVars, watcherVars, runVars, envVars
<1> QED
  BY <1>1, <1>2, <1>3, <1>4, <1>5, <1>6, <1>7, <1>8, <1>9, <1>10, <1>11, <1>12, <1>13, <1>14,
      <1>15, <1>16, <1>17, <1>18, <1>19, <1>20, <1>21, <1>22, <1>23, <1>24, <1>25, <1>26, <1>27, <1>28, <1>29, <1>30, <1>31, <1>32
  DEF Next, Watcher, Run

\* Every step preserves the bound on losses.
LEMMA LossesStep == Data /\ Published /\ Losses /\ [Next]_vars => Losses'
<1> SUFFICES ASSUME Data, Published, Losses, [Next]_vars PROVE Losses'
  OBVIOUS
<1>a. lostAfter \in Nat
  BY DEF Data
<1>1. ASSUME NEW p \in Producers, NEW m \in Messages, EnqueueMessage(p, m) PROVE Losses'
  BY <1>1, <1>a DEF Published, Losses, EnqueueMessage, pfsVars, argVars, watcherVars, envVars
<1>2. ASSUME NEW p \in Producers, enqueue_post(p) PROVE Losses'
  BY <1>2, <1>a DEF Published, Losses, enqueue_post, pfsVars, argVars, watcherVars, runVars, envVars
<1>3. ASSUME NEW s \in Pfs, PfsChange(s) PROVE Losses'
  BY <1>3, <1>a DEF Published, Losses, PfsChange, queueVars, argVars, watcherVars, runVars, envVars
<1>4. ASSUME NEW s \in Pfs, PfsChange_post(s) PROVE Losses'
  BY <1>4, <1>a DEF Published, Losses, PfsChange_post, argVars, watcherVars, runVars, envVars
<1>5. CASE SetVasChangeBack
  BY <1>5, <1>a DEF Published, Losses, SetVasChangeBack, queueVars, pfsVars, argVars, runVars
<1>6. CASE watcher_top
  BY <1>6, <1>a
  DEF Published, Losses, watcher_top, WatcherGoto, queueVars, pfsVars, runVars, envVars
<1>7. CASE watcher_connect
  BY <1>7, <1>a
  DEF Published, Losses, watcher_connect, WatcherGoto, queueVars, pfsVars, argVars, runVars
<1>8. CASE watcher_sockfd
  BY <1>8, <1>a
  DEF Published, Losses, watcher_sockfd, WatcherGoto, queueVars, pfsVars, runVars, envVars
<1>9. CASE watcher_connected
  BY <1>9, <1>a
  DEF Published, Losses, watcher_connected, WatcherGoto, queueVars, pfsVars, runVars, envVars
<1>10. CASE watcher_detect
  BY <1>10, <1>a
  DEF Published, Losses, watcher_detect, watcher_fail, WatcherGoto, queueVars, pfsVars, envVars
<1>11. CASE watcher_destroy
  BY <1>11, <1>a DEF Published, Losses, watcher_destroy, WatcherGoto, queueVars, pfsVars, runVars
<1>12. CASE watcher_retry
  BY <1>12, <1>a DEF Published, Losses, watcher_retry, queueVars, pfsVars, argVars, runVars
<1>13. CASE watcher_giveup
  BY <1>13, <1>a
  DEF Published, Losses, watcher_giveup, WatcherGoto, queueVars, pfsVars, runVars, envVars
<1>14. CASE watcher_switchback
  BY <1>14, <1>a
  DEF Published, Losses, watcher_switchback, WatcherGoto, queueVars, pfsVars, argVars, runVars,
      envVars
<1>15. CASE watcher_reset
  BY <1>15, <1>a
  DEF Published, Losses, watcher_reset, WatcherGoto, queueVars, pfsVars, argVars, runVars, envVars
<1>16. CASE watcher_badHeartBeat
  BY <1>16, <1>a
  DEF Published, Losses, watcher_badHeartBeat, watcher_fail, WatcherGoto, queueVars, pfsVars
<1>17. CASE run_start
  BY <1>17, <1>a DEF Published, Losses, run_start, Step, argVars, watcherVars, envVars
<1>18. CASE WaitSemaphore
  BY <1>18, <1>a DEF Published, Losses, WaitSemaphore, Step, argVars, watcherVars, envVars
<1>19. CASE run_flag
  BY <1>19, <1>a DEF Published, Losses, run_flag, Step, argVars, watcherVars, envVars
<1>20. CASE run_pfsSend
  BY <1>20, <1>a DEF Published, Losses, run_pfsSend, Step, argVars, watcherVars, envVars
<1>21. CASE run_pfsClear
  BY <1>21, <1>a DEF Published, Losses, run_pfsClear, Step, argVars, watcherVars, envVars
<1>22. CASE run_dequeue
  BY <1>22, <1>a DEF Published, Losses, run_dequeue, pfsVars, argVars, watcherVars, envVars
<1>23. CASE run_connected1
  BY <1>23, <1>a DEF Published, Losses, run_connected1, Step, argVars, watcherVars, envVars
<1>24. CASE run_failed1
  BY <1>24, <1>a DEF Published, Losses, run_failed1, Step, argVars, watcherVars, envVars
<1>25. CASE run_connected2
  BY <1>25, <1>a DEF Published, Losses, run_connected2, Step, argVars, watcherVars, envVars
<1>26. CASE run_failed2
  BY <1>26, <1>a DEF Published, Losses, run_failed2, Step, argVars, watcherVars, envVars
<1>27. CASE run_loop
  BY <1>27, <1>a DEF Published, Losses, run_loop, Step, argVars, watcherVars, envVars
<1>28. CASE run_send
  BY <1>28, <1>a DEF Published, Losses, run_send, Settle, Step, argVars, watcherVars, envVars
<1>29. CASE run_extra
  BY <1>29, <1>a DEF Published, Losses, run_extra, Settle, Step, argVars, watcherVars, envVars
<1>30. CASE VasCrash
  BY <1>30, <1>a DEF Published, Losses, VasCrash, queueVars, pfsVars, argVars, watcherVars, runVars
<1>31. CASE VasRecover
  BY <1>31, <1>a
  DEF Published, Losses, VasRecover, queueVars, pfsVars, argVars, watcherVars, runVars
<1>32. CASE UNCHANGED vars
  BY <1>32, <1>a
  DEF Published, Losses, vars, queueVars, pfsVars, argVars, watcherVars, runVars, envVars
<1> QED
  BY <1>1, <1>2, <1>3, <1>4, <1>5, <1>6, <1>7, <1>8, <1>9, <1>10, <1>11, <1>12, <1>13, <1>14,
      <1>15, <1>16, <1>17, <1>18, <1>19, <1>20, <1>21, <1>22, <1>23, <1>24, <1>25, <1>26, <1>27, <1>28, <1>29, <1>30, <1>31, <1>32
  DEF Next, Watcher, Run

\* Every step preserves what holds while nothing has failed.
LEMMA QuietStep == Data /\ Published /\ Quiet /\ [Next]_vars => Quiet'
<1> SUFFICES ASSUME Data, Published, Quiet, [Next]_vars PROVE Quiet'
  OBVIOUS
<1>a. nFail \in Nat
  BY BoundAssumption DEF Data
<1> USE DEF Data, Published, Quiet
<1>1. ASSUME NEW p \in Producers, NEW m \in Messages, EnqueueMessage(p, m) PROVE Quiet'
  BY <1>1, <1>a DEF EnqueueMessage, pfsVars, argVars, watcherVars, envVars
<1>2. ASSUME NEW p \in Producers, enqueue_post(p) PROVE Quiet'
  BY <1>2, <1>a DEF enqueue_post, pfsVars, argVars, watcherVars, runVars, envVars
<1>3. ASSUME NEW s \in Pfs, PfsChange(s) PROVE Quiet'
  BY <1>3, <1>a DEF PfsChange, queueVars, argVars, watcherVars, runVars, envVars
<1>4. ASSUME NEW s \in Pfs, PfsChange_post(s) PROVE Quiet'
  BY <1>4, <1>a DEF PfsChange_post, argVars, watcherVars, runVars, envVars
<1>5. CASE SetVasChangeBack
  BY <1>5, <1>a DEF SetVasChangeBack, queueVars, pfsVars, argVars, runVars
<1>6. CASE watcher_top
  BY <1>6, <1>a DEF watcher_top, WatcherGoto, queueVars, pfsVars, runVars, envVars
<1>7. CASE watcher_connect
  BY <1>7, <1>a DEF watcher_connect, WatcherGoto, queueVars, pfsVars, argVars, runVars
<1>8. CASE watcher_sockfd
  BY <1>8, <1>a DEF watcher_sockfd, WatcherGoto, queueVars, pfsVars, runVars, envVars
<1>9. CASE watcher_connected
  BY <1>9, <1>a DEF watcher_connected, WatcherGoto, queueVars, pfsVars, runVars, envVars
<1>10. CASE watcher_detect
  BY <1>10, <1>a DEF watcher_detect, watcher_fail, WatcherGoto, queueVars, pfsVars, envVars
<1>11. CASE watcher_destroy
  BY <1>11, <1>a DEF watcher_destroy, WatcherGoto, queueVars, pfsVars, runVars
<1>12. CASE watcher_retry
  BY <1>12, <1>a DEF watcher_retry, queueVars, pfsVars, argVars, runVars
<1>13. CASE watcher_giveup
  BY <1>13, <1>a DEF watcher_giveup, WatcherGoto, queueVars, pfsVars, runVars, envVars
<1>14. CASE watcher_switchback
  BY <1>14, <1>a DEF watcher_switchback, WatcherGoto, queueVars, pfsVars, argVars, runVars, envVars
<1>15. CASE watcher_reset
  BY <1>15, <1>a DEF watcher_reset, WatcherGoto, queueVars, pfsVars, argVars, runVars, envVars
<1>16. CASE watcher_badHeartBeat
  BY <1>16, <1>a DEF watcher_badHeartBeat, watcher_fail, WatcherGoto, queueVars, pfsVars
<1>17. CASE run_start
  BY <1>17, <1>a DEF run_start, Step, argVars, watcherVars, envVars
<1>18. CASE WaitSemaphore
  BY <1>18, <1>a DEF WaitSemaphore, Step, argVars, watcherVars, envVars
<1>19. CASE run_flag
  BY <1>19, <1>a DEF run_flag, Step, argVars, watcherVars, envVars
<1>20. CASE run_pfsSend
  BY <1>20, <1>a DEF run_pfsSend, Step, argVars, watcherVars, envVars
<1>21. CASE run_pfsClear
  BY <1>21, <1>a DEF run_pfsClear, Step, argVars, watcherVars, envVars
<1>22. CASE run_dequeue
  BY <1>22, <1>a DEF run_dequeue, pfsVars, argVars, watcherVars, envVars
<1>23. CASE run_connected1
  BY <1>23, <1>a DEF run_connected1, Step, argVars, watcherVars, envVars
<1>24. CASE run_failed1
  BY <1>24, <1>a DEF run_failed1, Step, argVars, watcherVars, envVars
<1>25. CASE run_connected2
  BY <1>25, <1>a DEF run_connected2, Step, argVars, watcherVars, envVars
<1>26. CASE run_failed2
  BY <1>26, <1>a DEF run_failed2, Step, argVars, watcherVars, envVars
<1>27. CASE run_loop
  BY <1>27, <1>a DEF run_loop, Step, argVars, watcherVars, envVars
<1>28. CASE run_send
  BY <1>28, <1>a DEF run_send, Settle, Step, argVars, watcherVars, envVars
<1>29. CASE run_extra
  BY <1>29, <1>a DEF run_extra, Settle, Step, argVars, watcherVars, envVars
<1>30. CASE VasCrash
  BY <1>30, <1>a DEF VasCrash, queueVars, pfsVars, argVars, watcherVars, runVars
<1>31. CASE VasRecover
  BY <1>31, <1>a DEF VasRecover, queueVars, pfsVars, argVars, watcherVars, runVars
<1>32. CASE UNCHANGED vars
  BY <1>32, <1>a DEF vars, queueVars, pfsVars, argVars, watcherVars, runVars, envVars
<1> QED
  BY <1>1, <1>2, <1>3, <1>4, <1>5, <1>6, <1>7, <1>8, <1>9, <1>10, <1>11, <1>12, <1>13, <1>14,
      <1>15, <1>16, <1>17, <1>18, <1>19, <1>20, <1>21, <1>22, <1>23, <1>24, <1>25, <1>26, <1>27, <1>28, <1>29, <1>30, <1>31, <1>32
  DEF Next, Watcher, Run

LEMMA NextStep == IInv /\ [Next]_vars => IInv'
  BY FlagsStep, DataStep, CountingStep, PublishedStep, LossesStep, QuietStep DEF IInv

\* Types are kept by both threads of a VAS handler and their callers.
THEOREM TypeCorrect == Spec => []TypeOK
  BY InitStep, NextStep, Implied, PTL DEF Spec

\* No event stays in the queue of a VAS handler, and no change request in its
\* byte, without a post of the semaphore that makes Run look again, although
\* both share the semaphore and a post for the one may be spent on the other.
THEOREM TokensAlwaysCoverWork == Spec => []TokensCoverWork
  BY InitStep, NextStep, Implied, PTL DEF Spec

\* Run loses at most two events on a connection that the watcher has given up.
THEOREM LossAlwaysBounded == Spec => []BoundedLoss
  BY InitStep, NextStep, Implied, PTL DEF Spec

\* Run loses or diverts an event only after the server or its connection failed.
THEOREM LossAlwaysNeedsFailure == Spec => []LossNeedsFailure
  BY InitStep, NextStep, Implied, PTL DEF Spec
=============================================================================
