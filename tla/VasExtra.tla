------------------------------ MODULE VasExtra ------------------------------
(***************************************************************************)
(* CVasExtra (src/src/vasextra.cpp): the two threads that serve the EXTRA   *)
(* VAS server, which takes the events of VAS servers that are dead.  It has *)
(* the queue, the semaphore and the change byte of VasIfHandler, but its    *)
(* watcher reconnects for ever, and Run discards an event when there is no  *)
(* connection instead of waiting for one.  A send that fails is reported to *)
(* both PFS servers with SendVasChange, which returns (PfsIfHandler).       *)
(***************************************************************************)
EXTENDS Naturals, Sequences, FiniteSets

CONSTANTS Messages,    \* the events of a behaviour, each enqueued at most once
          Producers,   \* Run threads of VAS handlers
          Pfs,         \* PFS threads; also the byte each of them asks to announce
          NoChange,    \* g_pfs_change == 0
          MAX_VAS_EXTRA_QUEUE_SIZE,
          MaxFail,     \* bound: failures of the server or the connection
          MaxChange    \* bound: calls of PfsChange

ASSUME QueueAssumption == MAX_VAS_EXTRA_QUEUE_SIZE \in Nat \ {0}
ASSUME ChangeAssumption == NoChange \notin Pfs
ASSUME BoundAssumption == MaxFail \in Nat /\ MaxChange \in Nat

VARIABLES
  queue,        \* g_pkt_scs_evt_msg_queue
  sem,          \* the semaphore
  posting,      \* producers between the unlock and PostSemaphore
  g_pfs_change, \* byte to announce, or NoChange
  pfsPosting,   \* PFS threads between the store and PostSemaphore
  connected,    \* VAS_EXTRA_ARG: connected = 1
  sockfd,       \* VAS_EXTRA_ARG: "none", "live" (the open socket) or "stale"
  wpc,          \* where the watcher is
  rpc,          \* where Run is
  msg,          \* the dequeued event: a sequence of at most one
  vasUp,        \* the server accepts connections
  link,         \* the connection on the live socket works
  nFail, nChange,
  fate          \* what became of each event

queueVars == <<queue, sem, posting>>
pfsVars   == <<g_pfs_change, pfsPosting, nChange>>
argVars   == <<connected, sockfd>>
runVars   == <<rpc, msg, fate>>
envVars   == <<vasUp, link, nFail>>
vars      == <<queueVars, pfsVars, argVars, wpc, runVars, envVars>>

Init ==
  /\ queue = <<>>
  /\ sem = 0
  /\ posting = {}
  /\ g_pfs_change = NoChange
  /\ pfsPosting = {}
  /\ connected = FALSE
  /\ sockfd = "none"
  /\ wpc = "connect"
  /\ rpc = "start"
  /\ msg = <<>>
  /\ vasUp \in BOOLEAN
  /\ link = FALSE
  /\ nFail = 0
  /\ nChange = 0
  /\ fate = [m \in Messages |-> "new"]

-----------------------------------------------------------------------------
(* The callers *)

\* enqueue() up to the unlock; a full queue drops the event and posts nothing.
EnqueueMessage(p, m) ==
  /\ p \notin posting
  /\ fate[m] = "new"
  /\ IF Len(queue) < MAX_VAS_EXTRA_QUEUE_SIZE
       THEN /\ queue' = Append(queue, m)
            /\ posting' = posting \cup {p}
            /\ fate' = [fate EXCEPT ![m] = "queued"]
       ELSE /\ fate' = [fate EXCEPT ![m] = "refused"]
            /\ UNCHANGED <<queue, posting>>
  /\ UNCHANGED <<sem, pfsVars, argVars, wpc, rpc, msg, envVars>>

\* if(q_success) PostSemaphore();
enqueue_post(p) ==
  /\ p \in posting
  /\ posting' = posting \ {p}
  /\ sem' = sem + 1
  /\ UNCHANGED <<queue, pfsVars, argVars, wpc, runVars, envVars>>

\* PfsChange: the store ...
PfsChange(s) ==
  /\ s \notin pfsPosting
  /\ nChange < MaxChange
  /\ nChange' = nChange + 1
  /\ g_pfs_change' = s
  /\ pfsPosting' = pfsPosting \cup {s}
  /\ UNCHANGED <<queueVars, argVars, wpc, runVars, envVars>>

\* ... and the post.
PfsChange_post(s) ==
  /\ s \in pfsPosting
  /\ pfsPosting' = pfsPosting \ {s}
  /\ sem' = sem + 1
  /\ UNCHANGED <<queue, posting, g_pfs_change, nChange, argVars, wpc, runVars, envVars>>

-----------------------------------------------------------------------------
(* ThreadVasExtraSocketWatcher *)

\* CreateSocket and ConnectToServer; a failure sleeps a second and tries again.
watcher_connect ==
  /\ wpc = "connect"
  /\ vasUp
  /\ wpc' = "sockfd"
  /\ link' = TRUE
  /\ UNCHANGED <<queueVars, pfsVars, argVars, runVars, vasUp, nFail>>

watcher_sockfd ==
  /\ wpc = "sockfd"
  /\ wpc' = "connected"
  /\ sockfd' = "live"
  /\ UNCHANGED <<queueVars, pfsVars, connected, runVars, envVars>>

watcher_connected ==
  /\ wpc = "connected"
  /\ wpc' = "poll"
  /\ connected' = TRUE
  /\ UNCHANGED <<queueVars, pfsVars, sockfd, runVars, envVars>>

\* recv() or the heartbeat fails: pva->connected = 0, on a dead connection or
\* because an answer was late, short or negative.
watcher_fail ==
  /\ wpc = "poll"
  /\ wpc' = "destroy"
  /\ connected' = FALSE
  /\ \/ ~link /\ UNCHANGED nFail
     \/ link /\ nFail < MaxFail /\ nFail' = nFail + 1
  /\ UNCHANGED <<queueVars, pfsVars, sockfd, runVars, vasUp, link>>

\* DestroySocket(), sleep a second, and start over.
watcher_destroy ==
  /\ wpc = "destroy"
  /\ wpc' = "connect"
  /\ sockfd' = "stale"
  /\ link' = FALSE
  /\ UNCHANGED <<queueVars, pfsVars, connected, runVars, vasUp, nFail>>

Watcher == watcher_connect \/ watcher_sockfd \/ watcher_connected \/ watcher_fail \/ watcher_destroy

-----------------------------------------------------------------------------
(* Run *)

\* Run moves from one place to another and changes nothing else.
Step(from, to) ==
  /\ rpc = from
  /\ rpc' = to
  /\ UNCHANGED <<queue, posting, pfsPosting, nChange, argVars, wpc, envVars>>

\* Faulty variant: Run does not wait for the first connection.
run_start_noWait ==
  /\ Step("start", "wait")
  /\ UNCHANGED <<sem, g_pfs_change, msg, fate>>

\* while(va.connected == 0) usleep(500000);
run_start ==
  /\ connected
  /\ Step("start", "wait")
  /\ UNCHANGED <<sem, g_pfs_change, msg, fate>>

\* Faulty variant: a wait that returns at once.
WaitSemaphore_noWait ==
  /\ sem' = sem - 1
  /\ Step("wait", "flag")
  /\ UNCHANGED <<g_pfs_change, msg, fate>>

WaitSemaphore ==
  /\ sem > 0
  /\ sem' = sem - 1
  /\ Step("wait", "flag")
  /\ UNCHANGED <<g_pfs_change, msg, fate>>

\* if(g_pfs_change != 0)
run_flag ==
  /\ Step("flag", IF g_pfs_change # NoChange THEN "pfsSend" ELSE "dequeue")
  /\ UNCHANGED <<sem, g_pfs_change, msg, fate>>

\* send() on a socket that is closed fails, on one whose peer is gone it may.
SendMayFail == sockfd # "live" \/ ~link
SendMayWork == sockfd = "live"

\* Send the change; a failure is reported to both PFS servers.
run_pfsSend ==
  /\ \/ SendMayWork /\ Step("pfsSend", "pfsClear")
     \/ SendMayFail /\ Step("pfsSend", "pfsReport")
  /\ UNCHANGED <<sem, g_pfs_change, msg, fate>>

\* SendVasChange of both PFS handlers.
run_pfsReport ==
  /\ Step("pfsReport", "pfsClear")
  /\ UNCHANGED <<sem, g_pfs_change, msg, fate>>

\* Faulty variant: the byte is not cleared.
run_pfsClear_keep ==
  /\ Step("pfsClear", "wait")
  /\ UNCHANGED <<sem, g_pfs_change, msg, fate>>

\* g_pfs_change = 0x0;
run_pfsClear ==
  /\ Step("pfsClear", "wait")
  /\ g_pfs_change' = NoChange
  /\ UNCHANGED <<sem, msg, fate>>

\* dequeue(&msg); an empty queue is logged as critical and skipped.
run_dequeue ==
  /\ rpc = "dequeue"
  /\ IF queue = <<>>
       THEN rpc' = "wait" /\ UNCHANGED <<queue, msg, fate>>
       ELSE /\ rpc' = "connected"
            /\ msg' = <<Head(queue)>>
            /\ queue' = Tail(queue)
            /\ fate' = [fate EXCEPT ![Head(queue)] = "held"]
  /\ UNCHANGED <<sem, posting, pfsVars, argVars, wpc, envVars>>

\* The event in hand ends.
Settle(from, to, f) ==
  /\ Step(from, to)
  /\ fate' = [fate EXCEPT ![Head(msg)] = f]
  /\ msg' = <<>>
  /\ UNCHANGED <<sem, g_pfs_change>>

\* Faulty variant: an event without a connection is kept for later, as in
\* CVasIfHandler, but nobody comes back to it.
run_connected_keep ==
  /\ connected
  /\ Step("connected", "send")
  /\ UNCHANGED <<sem, g_pfs_change, msg, fate>>

\* if(va.connected == 1), else "Discard a dequeued msg!".
run_connected ==
  \/ /\ connected
     /\ Step("connected", "send")
     /\ UNCHANGED <<sem, g_pfs_change, msg, fate>>
  \/ /\ ~connected
     /\ Settle("connected", "wait", "discarded")

\* send(va.sockfd, msg): delivered, lost in a dead connection, or refused and
\* reported.
run_send ==
  \/ SendMayWork /\ Settle("send", "wait", IF link THEN "vas" ELSE "lost")
  \/ SendMayFail /\ Settle("send", "report", "lost")

\* SendVasChange of both PFS handlers.
run_report ==
  /\ Step("report", "wait")
  /\ UNCHANGED <<sem, g_pfs_change, msg, fate>>

Run ==
  \/ run_start
  \/ WaitSemaphore
  \/ run_flag
  \/ run_pfsSend
  \/ run_pfsReport
  \/ run_pfsClear
  \/ run_dequeue
  \/ run_connected
  \/ run_send
  \/ run_report

-----------------------------------------------------------------------------
(* The EXTRA VAS server (external) *)

VasCrash ==
  /\ vasUp
  /\ nFail < MaxFail
  /\ nFail' = nFail + 1
  /\ vasUp' = FALSE
  /\ link' = FALSE
  /\ UNCHANGED <<queueVars, pfsVars, argVars, wpc, runVars>>

VasRecover ==
  /\ ~vasUp
  /\ vasUp' = TRUE
  /\ UNCHANGED <<queueVars, pfsVars, argVars, wpc, runVars, link, nFail>>

-----------------------------------------------------------------------------

Next ==
  \/ \E p \in Producers : (\E m \in Messages : EnqueueMessage(p, m)) \/ enqueue_post(p)
  \/ \E s \in Pfs : PfsChange(s) \/ PfsChange_post(s)
  \/ Watcher
  \/ Run
  \/ VasCrash
  \/ VasRecover

Spec == Init /\ [][Next]_vars

\* The threads are scheduled, and a call that has begun ends.  The watcher owes
\* nothing: Run does not depend on it once it has started.
Fairness ==
  /\ WF_vars(Run)
  /\ \A p \in Producers : WF_vars(enqueue_post(p))
  /\ \A s \in Pfs : WF_vars(PfsChange_post(s))

FairSpec == Spec /\ Fairness

-----------------------------------------------------------------------------
(* Properties *)

\* The types of all variables.
TypeOK ==
  /\ queue \in Seq(Messages)
  /\ sem \in Nat
  /\ posting \in SUBSET Producers
  /\ g_pfs_change \in Pfs \cup {NoChange}
  /\ pfsPosting \in SUBSET Pfs
  /\ connected \in BOOLEAN
  /\ sockfd \in {"none", "live", "stale"}
  /\ wpc \in {"connect", "sockfd", "connected", "poll", "destroy"}
  /\ rpc \in {"start", "wait", "flag", "pfsSend", "pfsReport", "pfsClear", "dequeue", "connected",
              "send", "report"}
  /\ msg \in Seq(Messages)
  /\ vasUp \in BOOLEAN
  /\ link \in BOOLEAN
  /\ nFail \in 0 .. MaxFail
  /\ nChange \in 0 .. MaxChange
  /\ fate \in [Messages -> {"new", "queued", "refused", "held", "vas", "discarded", "lost"}]

\* Tokens that will wake Run, or that it holds without having used them.
Tokens ==
  sem + Cardinality(posting) + Cardinality(pfsPosting)
    + (IF rpc \in {"flag", "dequeue"} THEN 1 ELSE 0)

\* A change request that Run has not begun to serve.
Waiting == IF g_pfs_change # NoChange /\ rpc \notin {"pfsSend", "pfsReport", "pfsClear"} THEN 1 ELSE 0

\* No event is left in the queue, and no change request in the byte, without a
\* token that will make Run look again, although both share one semaphore.
TokensCoverWork == Len(queue) + Waiting <= Tokens

\* An event is only discarded or lost if the connection failed: events that were
\* diverted before the EXTRA server was reached for the first time wait for it.
LossNeedsFailure ==
  \A m \in Messages : fate[m] \in {"lost", "discarded"} => nFail > 0

\* Once Run has seen the first connection, every queued event is dealt with, and
\* so is every change request, whether or not the server is ever up again: the
\* queue that takes the events of dead servers does not fill up.
EventsLeave ==
  /\ \A m \in Messages :
       (fate[m] = "queued" /\ rpc # "start") ~> fate[m] \in {"vas", "discarded", "lost"}
  /\ (g_pfs_change # NoChange /\ rpc # "start") ~> g_pfs_change = NoChange
=============================================================================
