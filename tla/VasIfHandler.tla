---------------------------- MODULE VasIfHandler ----------------------------
(***************************************************************************)
(* CVasIfHandler (src/src/vasifhandler.cpp): the two threads that serve one *)
(* VAS recording server.  Run takes the events the CTI handlers enqueued    *)
(* and sends them; ThreadVasSocketWatcher owns the connection and shares    *)
(* its state with Run through three fields of VAS_ARG, without a lock.      *)
(* The PFS threads interrupt Run with PfsChange: one byte, g_pfs_change,    *)
(* and a post of the semaphore that otherwise counts queued events.         *)
(*                                                                         *)
(* The ring is a bounded FIFO here (CtiQueue shows that this code is one);  *)
(* the post after the critical section remains a step of its own.  Each     *)
(* read of a shared field by Run is a step of its own; that covers a build  *)
(* that re-reads the fields and one that keeps them in registers.           *)
(***************************************************************************)
EXTENDS Naturals, Sequences, FiniteSets

CONSTANTS Messages,            \* the events of a behaviour, each enqueued at most once
          Producers,           \* CTI handler threads
          Pfs,                 \* PFS threads; also the byte each of them asks to announce
          NoChange,            \* g_pfs_change == 0
          MAX_VAS_QUEUE_SIZE,
          MaxTries,            \* reconnection attempts before giving up: 3 in the code
          MaxFail,             \* bound: failures of the server or the connection
          MaxChange,           \* bound: calls of PfsChange
          MaxSwitch            \* bound: switch-back commands

ASSUME QueueAssumption == MAX_VAS_QUEUE_SIZE \in Nat \ {0}
ASSUME TriesAssumption == MaxTries \in Nat \ {0}
ASSUME ChangeAssumption == NoChange \notin Pfs
ASSUME BoundAssumption == MaxFail \in Nat /\ MaxChange \in Nat /\ MaxSwitch \in Nat

VARIABLES
  queue,           \* g_pkt_scs_evt_msg_queue
  sem,             \* the semaphore
  posting,         \* producers between the unlock and PostSemaphore
  g_pfs_change,    \* byte to announce, or NoChange
  pfsPosting,      \* PFS threads between the store and PostSemaphore
  connected,       \* VAS_ARG: connected = 1
  failedToConnect, \* VAS_ARG: failedToConnect = 1
  sockfd,          \* VAS_ARG: "none", "live" (the open socket) or "stale" (closed)
  m_nChangeBackRequest,
  wpc,             \* where the watcher is
  try_out_count,
  rpc,             \* where Run is
  msg,             \* the dequeued event: a sequence of at most one
  \* environment
  vasUp,           \* the VAS server accepts connections
  link,            \* the connection on the live socket works
  nFail, nChange, nSwitch,
  \* history
  fate,            \* what became of each event
  lostAfter,       \* events lost since the watcher last cleared connected
  requested,       \* the byte last given to PfsChange
  announced        \* the byte last sent to the VAS server

queueVars   == <<queue, sem, posting>>
pfsVars     == <<g_pfs_change, pfsPosting, nChange, requested>>
argVars     == <<connected, failedToConnect, sockfd>>
watcherVars == <<wpc, try_out_count, m_nChangeBackRequest>>
runVars     == <<rpc, msg, fate, lostAfter, announced>>
envVars     == <<vasUp, link, nFail, nSwitch>>
vars        == <<queueVars, pfsVars, argVars, watcherVars, runVars, envVars>>

Init ==
  /\ queue = <<>>
  /\ sem = 0
  /\ posting = {}
  /\ g_pfs_change = NoChange
  /\ pfsPosting = {}
  /\ connected = FALSE
  /\ failedToConnect = FALSE
  /\ sockfd = "none"
  /\ m_nChangeBackRequest = 0
  /\ wpc = "top"
  /\ try_out_count = 0
  /\ rpc = "start"
  /\ msg = <<>>
  /\ vasUp \in BOOLEAN
  /\ link = FALSE
  /\ nFail = 0
  /\ nChange = 0
  /\ nSwitch = 0
  /\ fate = [m \in Messages |-> "new"]
  /\ lostAfter = 0
  /\ requested = NoChange
  /\ announced = NoChange

-----------------------------------------------------------------------------
(* The callers: CTI handlers, PFS threads, the operator *)

\* enqueue() up to the unlock; a full queue drops the event and posts nothing.
EnqueueMessage(p, m) ==
  /\ p \notin posting
  /\ fate[m] = "new"
  /\ IF Len(queue) < MAX_VAS_QUEUE_SIZE
       THEN /\ queue' = Append(queue, m)
            /\ posting' = posting \cup {p}
            /\ fate' = [fate EXCEPT ![m] = "queued"]
       ELSE /\ fate' = [fate EXCEPT ![m] = "refused"]
            /\ UNCHANGED <<queue, posting>>
  /\ UNCHANGED <<sem, pfsVars, argVars, watcherVars, rpc, msg, lostAfter, announced, envVars>>

\* Faulty variant: a binary semaphore.
enqueue_post_binary(p) ==
  /\ p \in posting
  /\ posting' = posting \ {p}
  /\ sem' = 1
  /\ UNCHANGED <<queue, pfsVars, argVars, watcherVars, runVars, envVars>>

\* if(q_success) PostSemaphore();
enqueue_post(p) ==
  /\ p \in posting
  /\ posting' = posting \ {p}
  /\ sem' = sem + 1
  /\ UNCHANGED <<queue, pfsVars, argVars, watcherVars, runVars, envVars>>

\* PfsChange: the store, then the post.
PfsChange(s) ==
  /\ s \notin pfsPosting
  /\ nChange < MaxChange
  /\ nChange' = nChange + 1
  /\ g_pfs_change' = s
  /\ requested' = s
  /\ pfsPosting' = pfsPosting \cup {s}
  /\ UNCHANGED <<queueVars, argVars, watcherVars, runVars, envVars>>

\* Faulty variant: PfsChange does not post.
PfsChange_post_none(s) ==
  /\ s \in pfsPosting
  /\ pfsPosting' = pfsPosting \ {s}
  /\ UNCHANGED <<queueVars, g_pfs_change, nChange, requested, argVars, watcherVars, runVars, envVars>>

\* PostSemaphore();
PfsChange_post(s) ==
  /\ s \in pfsPosting
  /\ pfsPosting' = pfsPosting \ {s}
  /\ sem' = sem + 1
  /\ UNCHANGED <<queue, posting, g_pfs_change, nChange, requested, argVars, watcherVars, runVars, envVars>>

\* CTcpServer: CMD_SWITCH_BACK, accepted in every state of the watcher.
SetVasChangeBack ==
  /\ nSwitch < MaxSwitch
  /\ nSwitch' = nSwitch + 1
  /\ m_nChangeBackRequest' = 1
  /\ UNCHANGED <<queueVars, pfsVars, argVars, wpc, try_out_count, runVars, vasUp, link, nFail>>

-----------------------------------------------------------------------------
(* ThreadVasSocketWatcher *)

\* The watcher moves from one place to another and changes nothing else.
WatcherGoto(from, to) == wpc = from /\ wpc' = to

watcher_top ==
  /\ WatcherGoto("top", "connect")
  /\ connected' = FALSE
  /\ failedToConnect' = FALSE
  /\ UNCHANGED <<queueVars, pfsVars, sockfd, try_out_count, m_nChangeBackRequest, runVars, envVars>>

\* Faulty variant: connected is set before sockfd.
watcher_connect_early ==
  /\ WatcherGoto("connect", IF vasUp THEN "sockfd" ELSE "top")
  /\ link' = vasUp
  /\ connected' = vasUp
  /\ UNCHANGED <<queueVars, pfsVars, failedToConnect, sockfd, try_out_count, m_nChangeBackRequest, runVars, vasUp, nFail, nSwitch>>

\* CreateSocket and ConnectToServer; a failure sleeps and starts over.
watcher_connect ==
  /\ WatcherGoto("connect", IF vasUp THEN "sockfd" ELSE "top")
  /\ link' = vasUp
  /\ UNCHANGED <<queueVars, pfsVars, argVars, try_out_count, m_nChangeBackRequest, runVars, vasUp, nFail, nSwitch>>

\* pva->sockfd = sockfd;
watcher_sockfd ==
  /\ WatcherGoto("sockfd", "connected")
  /\ sockfd' = "live"
  /\ UNCHANGED <<queueVars, pfsVars, connected, failedToConnect, try_out_count, m_nChangeBackRequest, runVars, envVars>>

\* pva->connected = 1;
watcher_connected ==
  /\ WatcherGoto("connected", "poll")
  /\ connected' = TRUE
  /\ UNCHANGED <<queueVars, pfsVars, failedToConnect, sockfd, try_out_count, m_nChangeBackRequest, runVars, envVars>>

\* recv() or the heartbeat fails: connected = 0, failedToConnect = 0.
watcher_fail ==
  /\ WatcherGoto("poll", "destroy")
  /\ connected' = FALSE
  /\ failedToConnect' = FALSE
  /\ lostAfter' = 0
  /\ UNCHANGED <<queueVars, pfsVars, sockfd, try_out_count, m_nChangeBackRequest, rpc, msg, fate, announced>>

\* The connection is dead and the watcher notices.
watcher_detect == watcher_fail /\ ~link /\ UNCHANGED envVars

\* The heartbeat fails although the connection works: a late, short or
\* negative answer.
watcher_badHeartBeat ==
  /\ watcher_fail
  /\ link
  /\ nFail < MaxFail
  /\ nFail' = nFail + 1
  /\ UNCHANGED <<vasUp, link, nSwitch>>

\* my_socket.DestroySocket(); pva->sockfd keeps the number of the closed socket.
watcher_destroy ==
  /\ WatcherGoto("destroy", "retry")
  /\ sockfd' = "stale"
  /\ link' = FALSE
  /\ try_out_count' = 0
  /\ UNCHANGED <<queueVars, pfsVars, connected, failedToConnect, m_nChangeBackRequest, runVars, vasUp, nFail, nSwitch>>

\* Faulty variant: one attempt too many.
watcher_retry_offByOne ==
  /\ wpc = "retry"
  /\ IF vasUp
       THEN wpc' = "sockfd" /\ link' = TRUE /\ UNCHANGED try_out_count
       ELSE /\ try_out_count' = try_out_count + 1
            /\ wpc' = IF try_out_count = MaxTries THEN "giveup" ELSE "retry"
            /\ UNCHANGED link
  /\ UNCHANGED <<queueVars, pfsVars, argVars, m_nChangeBackRequest, runVars, vasUp, nFail, nSwitch>>

\* One of the three attempts to reconnect.
watcher_retry ==
  /\ wpc = "retry"
  /\ IF vasUp
       THEN wpc' = "sockfd" /\ link' = TRUE /\ UNCHANGED try_out_count
       ELSE /\ try_out_count' = try_out_count + 1
            /\ wpc' = IF try_out_count + 1 = MaxTries THEN "giveup" ELSE "retry"
            /\ UNCHANGED link
  /\ UNCHANGED <<queueVars, pfsVars, argVars, m_nChangeBackRequest, runVars, vasUp, nFail, nSwitch>>

\* SendVasChange to both PFS servers, then failedToConnect = 1.
watcher_giveup ==
  /\ WatcherGoto("giveup", "switchback")
  /\ failedToConnect' = TRUE
  /\ UNCHANGED <<queueVars, pfsVars, connected, sockfd, try_out_count, m_nChangeBackRequest, runVars, envVars>>

\* Wait for a switch-back request ...
watcher_switchback ==
  /\ m_nChangeBackRequest # 0
  /\ WatcherGoto("switchback", "reset")
  /\ UNCHANGED <<queueVars, pfsVars, argVars, try_out_count, m_nChangeBackRequest, runVars, envVars>>

\* ... take it back, and start over.
watcher_reset ==
  /\ WatcherGoto("reset", "top")
  /\ m_nChangeBackRequest' = 0
  /\ UNCHANGED <<queueVars, pfsVars, argVars, try_out_count, runVars, envVars>>

Watcher ==
  \/ watcher_top
  \/ watcher_connect
  \/ watcher_sockfd
  \/ watcher_connected
  \/ watcher_detect
  \/ watcher_destroy
  \/ watcher_retry
  \/ watcher_giveup
  \/ watcher_switchback
  \/ watcher_reset

-----------------------------------------------------------------------------
(* Run *)

\* Run moves from one place to another and changes nothing else.
Step(from, to) ==
  /\ rpc = from
  /\ rpc' = to
  /\ UNCHANGED <<queue, posting, pfsPosting, nChange, requested, argVars, watcherVars, envVars>>

\* The event in hand ends: it reached the server, the EXTRA server, or nobody.
Settle(from, f) ==
  /\ Step(from, "wait")
  /\ fate' = [fate EXCEPT ![Head(msg)] = f]
  /\ lostAfter' = IF f = "lost" /\ ~connected THEN lostAfter + 1 ELSE lostAfter
  /\ msg' = <<>>
  /\ UNCHANGED <<sem, g_pfs_change, announced>>

\* while(va.connected == 0) usleep(500000);
run_start ==
  /\ connected
  /\ Step("start", "wait")
  /\ UNCHANGED <<sem, g_pfs_change, msg, fate, lostAfter, announced>>

WaitSemaphore ==
  /\ sem > 0
  /\ sem' = sem - 1
  /\ Step("wait", "flag")
  /\ UNCHANGED <<g_pfs_change, msg, fate, lostAfter, announced>>

\* if(g_pfs_change[m_index] != 0)
run_flag ==
  /\ Step("flag", IF g_pfs_change # NoChange THEN "pfsSend" ELSE "dequeue")
  /\ UNCHANGED <<sem, g_pfs_change, msg, fate, lostAfter, announced>>

\* MakePfsChange and send(va.sockfd), whatever connected says; a failure is logged.
run_pfsSend ==
  /\ Step("pfsSend", "pfsClear")
  /\ announced' = g_pfs_change
  /\ UNCHANGED <<sem, g_pfs_change, msg, fate, lostAfter>>

\* g_pfs_change[m_index] = 0x0;
run_pfsClear ==
  /\ Step("pfsClear", "wait")
  /\ g_pfs_change' = NoChange
  /\ UNCHANGED <<sem, msg, fate, lostAfter, announced>>

\* dequeue(&msg); an empty queue is logged as critical and skipped.
run_dequeue ==
  /\ rpc = "dequeue"
  /\ IF queue = <<>>
       THEN rpc' = "wait" /\ UNCHANGED <<queue, msg, fate>>
       ELSE /\ rpc' = "connected1"
            /\ msg' = <<Head(queue)>>
            /\ queue' = Tail(queue)
            /\ fate' = [fate EXCEPT ![Head(queue)] = "held"]
  /\ UNCHANGED <<sem, posting, pfsVars, argVars, watcherVars, lostAfter, announced, envVars>>

\* Faulty variant: the state of the connection is not looked at.
run_connected1_blind ==
  /\ Step("connected1", "send")
  /\ UNCHANGED <<sem, g_pfs_change, msg, fate, lostAfter, announced>>

\* if(va.connected == 0 && va.failedToConnect == 1): the read of connected.
run_connected1 ==
  /\ Step("connected1", IF connected THEN "connected2" ELSE "failed1")
  /\ UNCHANGED <<sem, g_pfs_change, msg, fate, lostAfter, announced>>

\* The read of failedToConnect.
run_failed1 ==
  /\ Step("failed1", IF failedToConnect THEN "extra" ELSE "connected2")
  /\ UNCHANGED <<sem, g_pfs_change, msg, fate, lostAfter, announced>>

\* else if(va.connected == 0 && va.failedToConnect == 0): the read of connected.
run_connected2 ==
  /\ Step("connected2", IF connected THEN "send" ELSE "failed2")
  /\ UNCHANGED <<sem, g_pfs_change, msg, fate, lostAfter, announced>>

\* The read of failedToConnect; the last else-branch sends.
run_failed2 ==
  /\ Step("failed2", IF failedToConnect THEN "send" ELSE "loop")
  /\ UNCHANGED <<sem, g_pfs_change, msg, fate, lostAfter, announced>>

\* while(1): leave the loop when one of the flags is set.
run_loop ==
  /\ connected \/ failedToConnect
  /\ Step("loop", IF connected THEN "send" ELSE "extra")
  /\ UNCHANGED <<sem, g_pfs_change, msg, fate, lostAfter, announced>>

\* send(va.sockfd, msg): what a dead connection or a closed socket takes is
\* gone, the result -1 is only logged.
run_send == Settle("send", IF sockfd = "live" /\ link THEN "vas" ELSE "lost")

\* g_vasExtra->EnqueueMessage(&msg);
run_extra == Settle("extra", "extra")

Run ==
  \/ run_start
  \/ WaitSemaphore
  \/ run_flag
  \/ run_pfsSend
  \/ run_pfsClear
  \/ run_dequeue
  \/ run_connected1
  \/ run_failed1
  \/ run_connected2
  \/ run_failed2
  \/ run_loop
  \/ run_send
  \/ run_extra

-----------------------------------------------------------------------------
(* The VAS server (external) *)

VasCrash ==
  /\ vasUp
  /\ nFail < MaxFail
  /\ nFail' = nFail + 1
  /\ vasUp' = FALSE
  /\ link' = FALSE
  /\ UNCHANGED <<queueVars, pfsVars, argVars, watcherVars, runVars, nSwitch>>

VasRecover ==
  /\ ~vasUp
  /\ vasUp' = TRUE
  /\ UNCHANGED <<queueVars, pfsVars, argVars, watcherVars, runVars, link, nFail, nSwitch>>

-----------------------------------------------------------------------------

Next ==
  \/ \E p \in Producers : (\E m \in Messages : EnqueueMessage(p, m)) \/ enqueue_post(p)
  \/ \E s \in Pfs : PfsChange(s) \/ PfsChange_post(s)
  \/ SetVasChangeBack
  \/ Watcher
  \/ watcher_badHeartBeat
  \/ Run
  \/ VasCrash
  \/ VasRecover

Spec == Init /\ [][Next]_vars

\* All threads are scheduled, and a call that has begun ends.  Nothing obliges
\* the server to fail or to recover, the operator to switch back, or a
\* heartbeat to fail on a working connection.
Fairness ==
  /\ WF_vars(Watcher)
  /\ WF_vars(Run)
  /\ \A p \in Producers : WF_vars(enqueue_post(p))
  /\ \A s \in Pfs : WF_vars(PfsChange_post(s))

FairSpec == Spec /\ Fairness

-----------------------------------------------------------------------------
(* Properties *)

WPC == {"top", "connect", "sockfd", "connected", "poll", "destroy", "retry", "giveup", "switchback", "reset"}
RPC == {"start", "wait", "flag", "pfsSend", "pfsClear", "dequeue", "connected1", "failed1",
        "connected2", "failed2", "loop", "send", "extra"}
Fates == {"new", "queued", "refused", "held", "vas", "extra", "lost"}

\* The types of all variables.
TypeOK ==
  /\ queue \in Seq(Messages)
  /\ sem \in Nat
  /\ posting \in SUBSET Producers
  /\ g_pfs_change \in Pfs \cup {NoChange}
  /\ pfsPosting \in SUBSET Pfs
  /\ connected \in BOOLEAN
  /\ failedToConnect \in BOOLEAN
  /\ sockfd \in {"none", "live", "stale"}
  /\ m_nChangeBackRequest \in {0, 1}
  /\ wpc \in WPC
  /\ try_out_count \in 0 .. MaxTries
  /\ rpc \in RPC
  /\ msg \in Seq(Messages)
  /\ vasUp \in BOOLEAN
  /\ link \in BOOLEAN
  /\ nFail \in 0 .. MaxFail
  /\ nChange \in 0 .. MaxChange
  /\ nSwitch \in 0 .. MaxSwitch
  /\ fate \in [Messages -> Fates]
  /\ lostAfter \in Nat
  /\ requested \in Pfs \cup {NoChange}
  /\ announced \in Pfs \cup {NoChange}

\* Tokens that will wake Run, or that it holds without having used them.
Tokens ==
  sem + Cardinality(posting) + Cardinality(pfsPosting)
    + (IF rpc \in {"flag", "dequeue"} THEN 1 ELSE 0)

\* A change request that Run has not begun to serve.
Waiting == IF g_pfs_change # NoChange /\ rpc \notin {"pfsSend", "pfsClear"} THEN 1 ELSE 0

\* Events and change requests share one semaphore, and a token posted for the
\* one may be spent on the other.  Still there are always enough of them: no
\* event is left in the queue, and no change request in the byte, without a
\* token that will make Run look again.
TokensCoverWork == Len(queue) + Waiting <= Tokens

\* Once the watcher has noticed that the connection is gone, Run loses at most
\* two more events on it: the one it had already decided to send, and one for
\* which it reads failedToConnect as 0 in the first condition and as 1 in the
\* second, so that it falls through to the send.
BoundedLoss == lostAfter <= 2

\* An event is only lost, or diverted to the EXTRA server, if the connection
\* failed: start-up is never a reason, as the watcher publishes the socket
\* before it sets connected and Run looks at connected first.
LossNeedsFailure ==
  \A m \in Messages : fate[m] \in {"lost", "extra"} => nFail > 0

\* If the VAS server is up for good from some time on, and Run has seen the
\* first connection, every queued event leaves the hands of Run: none is stuck
\* in the queue or in the waiting loop, whatever the watcher and the PFS threads
\* did.  (Run polls connected until it has seen it set once; a first connection
\* that breaks between two polls leaves it waiting for a switch-back.)
EventsLeave ==
  <>[]vasUp =>
    \A m \in Messages : (fate[m] = "queued" /\ rpc # "start") ~> fate[m] \in {"vas", "extra", "lost"}

\* "If my VAS is dead, forward the message request to an EXTRA VAS server."
\* (vasifhandler.cpp:489): if the VAS server is dead for good from some time on,
\* every queued event leaves the handler, towards the EXTRA server or lost with
\* the connection.
DeadVasForwards ==
  <>[]~vasUp =>
    \A m \in Messages : fate[m] = "queued" ~> fate[m] \in {"vas", "extra", "lost"}

\* "Send PFS Change request to ALL VAS..." (pfsifhandler.cpp:163): the newest
\* change request is eventually sent to the VAS server, unless a newer one
\* replaces it.
NewestChangeAnnounced ==
  <>[]vasUp => \A s \in Pfs : requested = s ~> (announced = s \/ requested # s)
=============================================================================
