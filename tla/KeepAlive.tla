------------------------------ MODULE KeepAlive ------------------------------
(***************************************************************************)
(* The active/backup pair.  The active gateway runs CKeepAlivedServer       *)
(* (src/CKeepAlivedServer.cpp), a thread that answers health checks of one  *)
(* connection.  The backup gateway connects to it (main in src/src/main.cpp *)
(* and CKeepAlivedClient::HealthCheck) and becomes active itself after      *)
(* three failures in a row.                                                 *)
(*                                                                         *)
(* The server's thread ends when nobody connects within the ten seconds of  *)
(* its accept timeout, and serves no second connection; but the kernel goes *)
(* on accepting connections and data as long as the process lives, and the  *)
(* backup never insists on an answer.  It does so up to a limit: nobody     *)
(* takes a connection out of the listen queue or reads a health check any   *)
(* more, so the queue and the buffers fill, and then connect() and Send()   *)
(* fail although the active gateway is well.                                *)
(***************************************************************************)
EXTENDS Naturals

CONSTANTS MaxRetry,  \* failures before the backup takes over: 3 in the code
          Backlog,   \* connections the listen queue holds: 1024 in the code
          Buffer,    \* health checks the kernels hold that nobody reads
          MaxFail,   \* bound: crashes and network failures
          MaxIntr,   \* bound: interrupted polls of the backup
          MaxLocal   \* bound: attempts that fail in the backup itself

ASSUME RetryAssumption == MaxRetry \in Nat \ {0}
ASSUME KernelAssumption == Backlog \in Nat \ {0} /\ Buffer \in Nat \ {0}
ASSUME BoundAssumption == MaxFail \in Nat /\ MaxIntr \in Nat /\ MaxLocal \in Nat

VARIABLES
  \* the active gateway
  up,        \* its process runs
  kpc,       \* its keep-alive thread: "accept", "serve" or "gone" (ended, or
             \* spinning on a connection that is over)
  queue,     \* connections in its listen queue, abandoned ones included
  \* the backup gateway
  bpc,       \* "connect", "health" or "active" (has taken over)
  retry,
  \* the connection
  net,       \* the network works
  peer,      \* "none", "alive", "closed", "silent" (host gone), "cut" (network
             \* gone) or "reset"
  accepted,  \* the keep-alive thread serves it
  unread,    \* health checks that arrived and nobody has read
  answer,    \* an answer waits for the backup
  unacked,   \* health checks sent that cannot be acknowledged
  nFail, nIntr, nLocal,
  \* history
  outage,    \* the active gateway was out of reach at some time
  refused,   \* it was in reach and its listen queue full at some attempt
  missed,    \* failures since the backup last sent a health check
  own        \* those among them, and interrupted polls, that the backup itself
             \* is the cause of

active == <<up, kpc, queue>>
backup == <<bpc, retry>>
conn   == <<peer, accepted, unread, answer, unacked>>
bounds == <<nFail, nIntr, nLocal>>
hist   == <<outage, refused, missed, own>>
vars   == <<active, backup, net, conn, bounds, hist>>

Init ==
  /\ up \in BOOLEAN
  /\ kpc = IF up THEN "accept" ELSE "gone"
  /\ bpc = "connect"
  /\ retry = 0
  /\ net = TRUE
  /\ peer = "none"
  /\ accepted = FALSE
  /\ queue = 0
  /\ unread = 0
  /\ answer = FALSE
  /\ unacked = 0
  /\ nFail = 0
  /\ nIntr = 0
  /\ nLocal = 0
  /\ outage = ~up
  /\ refused = FALSE
  /\ missed = 0
  /\ own = 0

-----------------------------------------------------------------------------
(* The backup gateway *)

connect_ok ==
  /\ bpc = "connect"
  /\ up /\ net /\ queue < Backlog
  /\ queue' = queue + 1
  /\ bpc' = "health"
  /\ peer' = "alive"
  /\ UNCHANGED <<up, kpc, retry, net, accepted, unread, answer, unacked, bounds, hist>>

\* Faulty variant: one failure more is needed.
Failed_late(n) ==
  /\ retry' = retry + n
  /\ bpc' = IF retry + n > MaxRetry THEN "active" ELSE "connect"
  /\ missed' = missed + 1
  /\ peer' = "none"
  /\ accepted' = FALSE
  /\ unread' = 0
  /\ answer' = FALSE
  /\ unacked' = 0

\* DestroySocket(); retry++; three failures make the backup active.  A connection
\* that was not accepted stays in the listen queue.
Failed(n) ==
  /\ retry' = retry + n
  /\ bpc' = IF retry + n >= MaxRetry THEN "active" ELSE "connect"
  /\ missed' = missed + 1
  /\ peer' = "none"
  /\ accepted' = FALSE
  /\ unread' = 0
  /\ answer' = FALSE
  /\ unacked' = 0

\* Faulty variant: an attempt that fails is not counted.
connect_fail_uncounted ==
  /\ bpc = "connect"
  /\ ~(up /\ net) \/ queue = Backlog
  /\ UNCHANGED vars

\* connect() fails: the active gateway is out of reach, or its listen queue full.
connect_fail ==
  /\ bpc = "connect"
  /\ ~(up /\ net) \/ queue = Backlog
  /\ Failed(1)
  /\ refused' = (refused \/ (up /\ net))
  /\ UNCHANGED <<active, net, bounds, outage, own>>

\* CreateSocket fails, or connect() for a reason that lies in the backup (no
\* descriptor, no memory, a signal).
connect_local ==
  /\ bpc = "connect"
  /\ nLocal < MaxLocal
  /\ nLocal' = nLocal + 1
  /\ Failed(1)
  /\ own' = own + 1
  /\ UNCHANGED <<active, net, nFail, nIntr, outage, refused>>

\* poll() is interrupted; the third time HealthCheck returns false, and main
\* counts once more.
health_interrupted ==
  /\ bpc = "health"
  /\ nIntr < MaxIntr
  /\ nIntr' = nIntr + 1
  /\ own' = own + 1
  /\ IF retry + 1 = MaxRetry
       THEN Failed(2)
       ELSE retry' = retry + 1 /\ UNCHANGED <<bpc, conn, missed>>
  /\ UNCHANGED <<active, net, nFail, nLocal, outage, refused>>

\* No more data fits in the buffers of the two kernels.
Full == unread + unacked >= Buffer

\* Faulty variant: the counter is not set back.
health_send_noReset ==
  /\ bpc = "health"
  /\ ~answer /\ peer \notin {"closed", "reset"}
  /\ ~Full
  /\ missed' = 0
  /\ own' = 0
  /\ IF peer = "alive"
       THEN unread' = unread + 1 /\ UNCHANGED unacked
       ELSE unacked' = unacked + 1 /\ UNCHANGED unread
  /\ UNCHANGED <<active, backup, net, peer, accepted, answer, bounds, outage, refused>>

\* poll() times out: a health check is sent, which succeeds as long as the
\* kernel takes it, and the failures are forgotten.
health_send ==
  /\ bpc = "health"
  /\ ~answer /\ peer \notin {"closed", "reset"}
  /\ ~Full
  /\ retry' = 0
  /\ missed' = 0
  /\ own' = 0
  /\ IF peer = "alive"
       THEN unread' = unread + 1 /\ UNCHANGED unacked
       ELSE unacked' = unacked + 1 /\ UNCHANGED unread
  /\ UNCHANGED <<active, bpc, net, peer, accepted, answer, bounds, outage, refused>>

\* Faulty variant: a failed Send() is counted twice, by HealthCheck (the lines
\* that are commented out there) and by main.
health_full_twice ==
  /\ bpc = "health"
  /\ ~answer /\ peer \notin {"closed", "reset"}
  /\ Full
  /\ Failed(2)
  /\ UNCHANGED <<active, net, bounds, outage, refused, own>>

\* Send() < 0: poll() times out and the kernel takes no more within the send
\* timeout.
health_full ==
  /\ bpc = "health"
  /\ ~answer /\ peer \notin {"closed", "reset"}
  /\ Full
  /\ Failed(1)
  /\ UNCHANGED <<active, net, bounds, outage, refused, own>>

\* Receive() of an answer.
health_answer ==
  /\ bpc = "health"
  /\ answer
  /\ answer' = FALSE
  /\ UNCHANGED <<active, backup, net, peer, accepted, unread, unacked, bounds, hist>>

\* Receive() <= 0, or Send() < 0 on a connection that was lost since poll().
health_fail ==
  /\ bpc = "health"
  /\ ~answer /\ peer \in {"closed", "reset"}
  /\ Failed(1)
  /\ UNCHANGED <<active, net, bounds, outage, refused, own>>

Backup ==
  \/ connect_ok
  \/ connect_fail
  \/ health_send
  \/ health_full
  \/ health_answer
  \/ health_fail

-----------------------------------------------------------------------------
(* The keep-alive thread of the active gateway *)

\* The oldest connection of the listen queue is taken: the backup's, unless it
\* has abandoned that one.
accept ==
  /\ kpc = "accept"
  /\ queue > 0
  /\ queue' = queue - 1
  /\ kpc' = "serve"
  /\ accepted' = (queue = 1 /\ peer # "none")
  /\ UNCHANGED <<up, backup, net, peer, unread, answer, unacked, bounds, hist>>

\* EAGAIN: the thread returns.
accept_timeout ==
  /\ kpc = "accept"
  /\ queue = 0
  /\ kpc' = "gone"
  /\ UNCHANGED <<up, queue, backup, net, conn, bounds, hist>>

\* What was received, one health check or several, is answered with one 'Y'.
serve ==
  /\ kpc = "serve"
  /\ accepted /\ unread > 0
  /\ unread' \in 0 .. unread - 1
  /\ answer' = (peer = "alive")
  /\ UNCHANGED <<active, backup, net, peer, accepted, unacked, bounds, hist>>

\* The connection is over: recv() <= 0 again and again, and no further accept().
serve_end ==
  /\ kpc = "serve"
  /\ ~accepted
  /\ kpc' = "gone"
  /\ UNCHANGED <<up, queue, backup, net, conn, bounds, hist>>

Server == accept \/ accept_timeout \/ serve \/ serve_end

-----------------------------------------------------------------------------
(* Failures (external) *)

\* The active process ends, or its host does; then nobody closes the connection.
Crash ==
  /\ up
  /\ nFail < MaxFail
  /\ nFail' = nFail + 1
  /\ up' = FALSE
  /\ kpc' = "gone"
  /\ outage' = TRUE
  /\ peer' \in (IF peer = "alive" THEN {"closed", "silent"}
                ELSE IF peer = "cut" THEN {"silent"} ELSE {peer})
  /\ accepted' = FALSE
  /\ queue' = 0
  /\ unread' = 0
  /\ UNCHANGED <<backup, net, answer, unacked, nIntr, nLocal, refused, missed, own>>

Restart ==
  /\ ~up
  /\ up' = TRUE
  /\ kpc' = "accept"
  /\ UNCHANGED <<queue, backup, net, conn, bounds, hist>>

NetDown ==
  /\ net
  /\ nFail < MaxFail
  /\ nFail' = nFail + 1
  /\ net' = FALSE
  /\ outage' = TRUE
  /\ peer' = IF peer = "alive" THEN "cut" ELSE peer
  /\ UNCHANGED <<active, backup, accepted, unread, answer, unacked, nIntr, nLocal, refused, missed, own>>

\* The network is back, and with it a connection that TCP has not given up.
NetUp ==
  /\ ~net
  /\ net' = TRUE
  /\ IF peer = "cut"
       THEN peer' = "alive" /\ unread' = unread + unacked /\ unacked' = 0
       ELSE UNCHANGED <<peer, unread, unacked>>
  /\ UNCHANGED <<active, backup, accepted, answer, bounds, hist>>

\* TCP gives up on a health check that is never acknowledged.
TcpGivesUp ==
  /\ peer \in {"silent", "cut"}
  /\ unacked > 0
  /\ peer' = "reset"
  /\ UNCHANGED <<active, backup, net, accepted, unread, answer, unacked, bounds, hist>>

Next ==
  \/ Backup
  \/ connect_local
  \/ health_interrupted
  \/ Server
  \/ Crash
  \/ Restart
  \/ NetDown
  \/ NetUp
  \/ TcpGivesUp

Spec == Init /\ [][Next]_vars

\* The backup is scheduled and TCP gives up in the end.  Nothing is asked of the
\* keep-alive thread.
Fairness == WF_vars(Backup) /\ WF_vars(TcpGivesUp)

FairSpec == Spec /\ Fairness

-----------------------------------------------------------------------------
(* Properties *)

\* The types of all variables.
TypeOK ==
  /\ up \in BOOLEAN
  /\ kpc \in {"accept", "serve", "gone"}
  /\ bpc \in {"connect", "health", "active"}
  /\ retry \in 0 .. MaxRetry + 1
  /\ net \in BOOLEAN
  /\ peer \in {"none", "alive", "closed", "silent", "cut", "reset"}
  /\ accepted \in BOOLEAN
  /\ queue \in 0 .. Backlog
  /\ unread \in 0 .. Buffer
  /\ answer \in BOOLEAN
  /\ unacked \in 0 .. Buffer
  /\ nFail \in 0 .. MaxFail
  /\ nIntr \in 0 .. MaxIntr
  /\ nLocal \in 0 .. MaxLocal
  /\ outage \in BOOLEAN
  /\ refused \in BOOLEAN
  /\ missed \in Nat
  /\ own \in Nat

\* The backup does not take over from an active gateway that was in reach all the
\* time, although its keep-alive thread may have ended or be spinning, unless its
\* listen queue was found full or the backup itself failed, in the row of failures
\* that led to the takeover, one time less than the limit.  One failure comes from
\* buffers that nobody empties, never two: the connection that follows has room
\* for a health check, which sets the counter back.
TakeoverNeedsOutage == bpc = "active" => outage \/ refused \/ own >= MaxRetry - 1

\* Failures that lie apart do not add up: the backup takes over after three lost
\* connections or failed attempts with no health check sent in between.
FailuresInARow == bpc = "active" /\ nIntr = 0 => missed >= MaxRetry

\* If the active gateway is gone for good, the backup takes over, whether the
\* connection was closed or its host just fell silent.
DeadActiveReplaced == <>[]~up => <>(bpc = "active")
=============================================================================
