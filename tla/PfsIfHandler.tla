---------------------------- MODULE PfsIfHandler ----------------------------
(***************************************************************************)
(* CPfsIfHandler (src/src/pfsifhandler.cpp): one thread keeps the           *)
(* connection to one PFS server alive with heartbeats; when the server is   *)
(* gone it tells every VAS handler, and the EXTRA one, to use the other PFS *)
(* server.  Watchers of VAS servers call SendVasChange, which sends and     *)
(* receives on the very same socket, without a lock.                        *)
(*                                                                         *)
(* All packets have the same size, so that an answer can be taken for an    *)
(* answer to something else.  TCP keeps no boundaries: an answer is two     *)
(* pieces, "head" and then its last byte, the result 'Y' or 'N', which      *)
(* mostly arrive together.  A receive takes what is there, up to one packet *)
(* (two pieces), and has a timeout of ten seconds.  m_nSock is read anew by *)
(* each Send and Receive, and cfg.nVasServerCount by each turn of the loop  *)
(* over the VAS handlers, while the administration's reload counts anew.    *)
(***************************************************************************)
EXTENDS Naturals, Sequences, FiniteSets

CONSTANTS Callers,   \* threads that call SendVasChange
          NVas,      \* VAS handlers that main created; handler NVas is the EXTRA one
          MaxTries,  \* reconnection attempts: 3 in the code
          MaxCalls   \* bound: calls of SendVasChange

ASSUME CountAssumption == NVas \in Nat /\ MaxTries \in Nat \ {0}
ASSUME BoundAssumption == MaxCalls \in Nat

VARIABLES
  pc,        \* where the PFS thread is
  tries,     \* try_out_count; 0 outside its loop
  i,         \* the VAS handler to tell next; 0 outside its loop
  nVasServerCount, \* cfg.nVasServerCount
  cpc,       \* cpc[c]: where caller c is; "broken": its receive was shut down
  \* the connection and the server
  up,        \* the server runs and takes connections
  peer,      \* m_nSock: "none" (-1), or a connection that is "alive" or ended by
             \* being "closed" or going "silent"
  inbox,     \* requests on their way to the server
  answers,   \* the pieces of answers that have arrived
  rest,      \* the result of an answer whose head has arrived before it, or "none"
  nCalls,
  \* history, since the last connection was made
  told,      \* handlers told
  here,      \* attempts to reconnect that failed in the gateway itself
  seen       \* what happened: "lost" (the server failed), "late" (an answer came
             \* too late), "split" (one came in two parts), "overlap" (a
             \* SendVasChange was on its way), "shrunk" (cfg.nVasServerCount was
             \* below NVas during the loop over the handlers)

thread == <<pc, tries, i>>
conn   == <<peer, inbox, answers, rest>>
hist   == <<told, here, seen>>
vars   == <<thread, nVasServerCount, cpc, conn, up, nCalls, hist>>

Handlers == 0 .. NVas
Seen == {"lost", "late", "split", "overlap", "shrunk"}

Init ==
  /\ pc = "connect"
  /\ tries = 0
  /\ i = 0
  /\ nVasServerCount = NVas
  /\ cpc = [c \in Callers |-> "idle"]
  /\ up \in BOOLEAN
  /\ peer = "none"
  /\ inbox = <<>>
  /\ answers = <<>>
  /\ rest = "none"
  /\ nCalls = 0
  /\ told = {}
  /\ here = 0
  /\ seen = {}

-----------------------------------------------------------------------------
(* The PFS thread *)

\* ConnectToPfsServer() == 0
ConnectToPfsServer ==
  /\ up
  /\ peer' = "alive"
  /\ inbox' = <<>>
  /\ answers' = <<>>
  /\ rest' = "none"
  /\ told' = {}
  /\ here' = 0
  /\ seen' = IF \E c \in Callers : cpc[c] # "idle" THEN {"overlap"} ELSE {}
  /\ pc' = "poll"

\* The outer loop connects; a failure, of whatever kind, sleeps for ten seconds.
connect ==
  /\ pc = "connect"
  /\ ConnectToPfsServer
  /\ UNCHANGED <<tries, i, nVasServerCount, cpc, up, nCalls>>

\* poll() reports POLLIN ...
poll_readable ==
  /\ pc = "poll"
  /\ answers # <<>> \/ peer = "closed"
  /\ pc' = "drain"
  /\ UNCHANGED <<tries, i, nVasServerCount, cpc, conn, up, nCalls, hist>>

\* ... or times out.
poll_timeout ==
  /\ pc = "poll"
  /\ answers = <<>>
  /\ peer # "closed"
  /\ pc' = "hbSend"
  /\ UNCHANGED <<tries, i, nVasServerCount, cpc, conn, up, nCalls, hist>>

\* Receive(buf, 200) takes all that has arrived, whoever asked for it.
drain ==
  /\ pc = "drain"
  /\ answers # <<>>
  /\ answers' = <<>>
  /\ pc' = "poll"
  /\ UNCHANGED <<tries, i, nVasServerCount, cpc, peer, inbox, rest, up, nCalls, hist>>

\* SendHeartBeat: Send.
hbSend ==
  /\ pc = "hbSend"
  /\ peer # "closed"
  /\ inbox' = IF peer = "alive" THEN Append(inbox, "hb") ELSE inbox
  /\ pc' = "hbRecv"
  /\ UNCHANGED <<tries, i, nVasServerCount, cpc, peer, answers, rest, up, nCalls, hist>>

\* What a Receive of one packet leaves.
AfterReceive == SubSeq(answers, 3, Len(answers))

\* It returned a whole packet with the result 'Y'.
PositiveAnswer == Len(answers) >= 2 /\ answers[2] = "Y"

\* SendHeartBeat: Receive, whole and with result 'Y'.
hbRecv ==
  /\ pc = "hbRecv"
  /\ PositiveAnswer
  /\ answers' = AfterReceive
  /\ pc' = "poll"
  /\ UNCHANGED <<tries, i, nVasServerCount, cpc, peer, inbox, rest, up, nCalls, hist>>

\* Something is on its way from the server.
Coming == peer = "alive" /\ (inbox # <<>> \/ rest # "none")

\* A receive times out: nothing is there, and nothing is coming, or too late.
Timeout ==
  /\ answers = <<>>
  /\ \/ ~Coming /\ UNCHANGED seen
     \/ Coming /\ seen' = seen \cup {"late"}

\* Faulty variant: an idle poll counts as a failure, too.
Fails_idle ==
  \/ pc = "hbSend" /\ peer = "closed" /\ UNCHANGED seen
  \/ pc \in {"poll", "drain", "hbRecv"} /\ Timeout

\* Receive() <= 0 in the poll loop, or SendHeartBeat() <= 0: the peer has closed,
\* the receive times out, what it returned is shorter than a packet, or the result
\* is not 'Y'.
Fails ==
  \/ pc = "hbSend" /\ peer = "closed" /\ UNCHANGED seen
  \/ pc \in {"drain", "hbRecv"} /\ answers = <<>> /\ peer = "closed" /\ UNCHANGED seen
  \/ pc \in {"drain", "hbRecv"} /\ Timeout
  \/ pc = "hbRecv" /\ answers # <<>> /\ ~PositiveAnswer /\ UNCHANGED seen

\* DestroySocket(): shutdown() ends the receives of all threads.
destroy ==
  /\ Fails
  /\ pc' = "retry"
  /\ peer' = "none"
  /\ inbox' = <<>>
  /\ answers' = <<>>
  /\ rest' = "none"
  /\ cpc' = [c \in Callers |-> IF cpc[c] = "recv" THEN "broken" ELSE cpc[c]]
  /\ UNCHANGED <<tries, i, nVasServerCount, up, nCalls, told, here>>

retry_ok ==
  /\ pc = "retry"
  /\ ConnectToPfsServer
  /\ tries' = 0
  /\ UNCHANGED <<i, nVasServerCount, cpc, up, nCalls>>

\* The counter of VAS servers is below the number of handlers at the loop.
Shrunk == IF nVasServerCount < NVas THEN {"shrunk"} ELSE {}

\* Faulty variant: one attempt too few.
NotReconnected_early ==
  /\ pc = "retry"
  /\ IF tries + 2 >= MaxTries
       THEN pc' = "tell" /\ tries' = 0 /\ seen' = seen \cup Shrunk
       ELSE tries' = tries + 1 /\ UNCHANGED <<pc, seen>>
  /\ UNCHANGED <<i, nVasServerCount, cpc, conn, up, told>>

\* try_out_count counts an attempt that failed; the last one leads to the loop
\* over the VAS handlers.
NotReconnected ==
  /\ pc = "retry"
  /\ IF tries + 1 = MaxTries
       THEN pc' = "tell" /\ tries' = 0 /\ seen' = seen \cup Shrunk
       ELSE tries' = tries + 1 /\ UNCHANGED <<pc, seen>>
  /\ UNCHANGED <<i, nVasServerCount, cpc, conn, up, told>>

\* connect() fails: the server is not there.
retry_fail ==
  /\ ~up
  /\ NotReconnected
  /\ UNCHANGED <<nCalls, here>>

\* CreateSocket() fails, or connect() for a reason that lies in the gateway.
retry_local ==
  /\ here' = here + 1
  /\ NotReconnected
  /\ UNCHANGED nCalls

\* Faulty variant: the EXTRA handler is forgotten.
tell_noExtra ==
  /\ pc = "tell"
  /\ IF i < nVasServerCount
       THEN /\ told' = told \cup {i}
            /\ i' = i + 1
            /\ UNCHANGED pc
       ELSE /\ pc' = "connect"
            /\ i' = 0
            /\ UNCHANGED told
  /\ UNCHANGED <<tries, nVasServerCount, cpc, conn, up, nCalls, here, seen>>

\* PfsChange(m_cMatePfsPort) of VAS handler i, as long as i is below
\* cfg.nVasServerCount; then of the EXTRA handler, and back to the outer loop.
tell ==
  /\ pc = "tell"
  /\ IF i < nVasServerCount
       THEN /\ told' = told \cup {i}
            /\ i' = i + 1
            /\ UNCHANGED pc
       ELSE /\ told' = told \cup {NVas}
            /\ pc' = "connect"
            /\ i' = 0
  /\ UNCHANGED <<tries, nVasServerCount, cpc, conn, up, nCalls, here, seen>>

Run ==
  \/ connect
  \/ poll_readable
  \/ poll_timeout
  \/ drain
  \/ hbSend
  \/ hbRecv
  \/ destroy
  \/ retry_ok
  \/ retry_fail
  \/ retry_local
  \/ tell

-----------------------------------------------------------------------------
(* SendVasChange, called by other threads *)

SendVasChange(c) ==
  /\ cpc[c] = "idle"
  /\ nCalls < MaxCalls
  /\ nCalls' = nCalls + 1
  /\ cpc' = [cpc EXCEPT ![c] = "send"]
  /\ seen' = seen \cup {"overlap"}
  /\ UNCHANGED <<thread, nVasServerCount, conn, up, told, here>>

\* Send() on the socket of this moment; no socket or a closed one: return.
vasChange_send(c) ==
  /\ cpc[c] = "send"
  /\ cpc' = [cpc EXCEPT ![c] = IF peer \in {"none", "closed"} THEN "idle" ELSE "enter"]
  /\ inbox' = IF peer = "alive" THEN Append(inbox, "vas") ELSE inbox
  /\ UNCHANGED <<thread, nVasServerCount, peer, answers, rest, up, nCalls, hist>>

\* Receive() starts, on the socket of this moment.
vasChange_enter(c) ==
  /\ cpc[c] = "enter"
  /\ cpc' = [cpc EXCEPT ![c] = IF peer = "none" THEN "idle" ELSE "recv"]
  /\ UNCHANGED <<thread, nVasServerCount, conn, up, nCalls, hist>>

\* Receive() returns an answer, anybody's, or a part of one.
vasChange_recv(c) ==
  /\ cpc[c] = "recv"
  /\ answers # <<>>
  /\ answers' = AfterReceive
  /\ cpc' = [cpc EXCEPT ![c] = "idle"]
  /\ UNCHANGED <<thread, nVasServerCount, peer, inbox, rest, up, nCalls, hist>>

\* Faulty variant: a receive without a timeout.
vasChange_fail_noTimeout(c) ==
  /\ cpc[c] = "broken" \/ (cpc[c] = "recv" /\ answers = <<>> /\ peer = "closed")
  /\ cpc' = [cpc EXCEPT ![c] = "idle"]
  /\ UNCHANGED <<thread, nVasServerCount, conn, up, nCalls, hist>>

\* Receive() fails: the socket has been shut down, the peer has closed, or the
\* ten seconds are over with nothing at hand.
vasChange_fail(c) ==
  /\ cpc[c] = "broken" \/ (cpc[c] = "recv" /\ answers = <<>>)
  /\ cpc' = [cpc EXCEPT ![c] = "idle"]
  /\ UNCHANGED <<thread, nVasServerCount, conn, up, nCalls, hist>>

InCall(c) == vasChange_send(c) \/ vasChange_enter(c) \/ vasChange_recv(c) \/ vasChange_fail(c)

-----------------------------------------------------------------------------
(* The administration's reload: LoadParameters counts the VAS servers anew.  A  *)
(* file that names more of them than there are handlers is met in ScsStartup.   *)

\* The line of the first VAS server sets the counter to 0 ...
reload_reset ==
  /\ nVasServerCount' = 0
  /\ seen' = IF pc = "tell" THEN seen \cup {"shrunk"} ELSE seen
  /\ UNCHANGED <<thread, cpc, conn, up, nCalls, told, here>>

\* ... and each line of a VAS server adds one.
reload_server ==
  /\ nVasServerCount < NVas
  /\ nVasServerCount' = nVasServerCount + 1
  /\ UNCHANGED <<thread, cpc, conn, up, nCalls, hist>>

-----------------------------------------------------------------------------
(* The PFS server (external) *)

\* It answers requests in order; it may refuse a VAS change.
Results(request) == IF request = "hb" THEN {"Y"} ELSE {"Y", "N"}

Answer ==
  /\ peer = "alive" /\ rest = "none"
  /\ inbox # <<>>
  /\ inbox' = Tail(inbox)
  /\ \E r \in Results(Head(inbox)) : answers' = answers \o <<"head", r>>
  /\ UNCHANGED <<thread, nVasServerCount, cpc, peer, rest, up, nCalls, hist>>

\* An answer arrives without its end ...
Answer_head ==
  /\ peer = "alive" /\ rest = "none"
  /\ inbox # <<>>
  /\ inbox' = Tail(inbox)
  /\ rest' \in Results(Head(inbox))
  /\ answers' = Append(answers, "head")
  /\ seen' = seen \cup {"split"}
  /\ UNCHANGED <<thread, nVasServerCount, cpc, peer, up, nCalls, told, here>>

\* ... which follows.
Answer_rest ==
  /\ peer = "alive" /\ rest # "none"
  /\ answers' = Append(answers, rest)
  /\ rest' = "none"
  /\ UNCHANGED <<thread, nVasServerCount, cpc, peer, inbox, up, nCalls, hist>>

\* It fails, and its connection is closed or goes silent.
PfsDown ==
  /\ up
  /\ up' = FALSE
  /\ seen' = seen \cup {"lost"}
  /\ IF peer = "alive"
       THEN peer' \in {"closed", "silent"} /\ inbox' = <<>> /\ rest' = "none"
       ELSE UNCHANGED <<peer, inbox, rest>>
  /\ UNCHANGED <<thread, nVasServerCount, cpc, answers, nCalls, told, here>>

PfsUp ==
  /\ ~up
  /\ up' = TRUE
  /\ UNCHANGED <<thread, nVasServerCount, cpc, conn, nCalls, hist>>

-----------------------------------------------------------------------------

Next ==
  \/ Run
  \/ \E c \in Callers : SendVasChange(c) \/ InCall(c)
  \/ reload_reset
  \/ reload_server
  \/ Answer
  \/ Answer_head
  \/ Answer_rest
  \/ PfsDown
  \/ PfsUp

Spec == Init /\ [][Next]_vars

\* The threads are scheduled and a running server answers.  The timer of a
\* receive runs on while other threads take the data it waits for: a receive
\* whose timeout is possible again and again ends (strong fairness).  Nothing is
\* asked of a reload: a file may name fewer servers than before.
Fairness ==
  /\ WF_vars(Run)
  /\ WF_vars(Answer \/ Answer_rest)
  /\ \A c \in Callers : WF_vars(InCall(c)) /\ SF_vars(vasChange_fail(c))

FairSpec == Spec /\ Fairness

-----------------------------------------------------------------------------
(* Properties *)

\* The types of all variables.
TypeOK ==
  /\ pc \in {"connect", "poll", "drain", "hbSend", "hbRecv", "retry", "tell"}
  /\ tries \in 0 .. MaxTries - 1
  /\ i \in 0 .. NVas
  /\ nVasServerCount \in 0 .. NVas
  /\ cpc \in [Callers -> {"idle", "send", "enter", "recv", "broken"}]
  /\ up \in BOOLEAN
  /\ peer \in {"none", "alive", "closed", "silent"}
  /\ inbox \in Seq({"hb", "vas"})
  /\ answers \in Seq({"head", "Y", "N"})
  /\ rest \in {"none", "Y", "N"}
  /\ nCalls \in 0 .. MaxCalls
  /\ told \in SUBSET Handlers
  /\ here \in 0 .. MaxTries
  /\ seen \in SUBSET Seen

\* Answers that go to the wrong thread, come late or in parts, and refusals may
\* break a healthy connection, but they never make the gateway turn the VAS servers
\* to the other PFS server: that takes a server that failed since it was connected,
\* or three attempts to reconnect that fail in the gateway itself; those of
\* different connections do not add up.
ChangeNeedsFailure == told # {} => "lost" \in seen \/ here >= MaxTries

\* Without a SendVasChange on it, and with answers whole and in time, a connection
\* to a running server is not given up: heartbeat and poll loop do not take each
\* other's answers.
HealthyConnectionKept ==
  pc = "retry" => seen \cap {"lost", "late", "split", "overlap"} # {}

\* "Send PFS Change request to ALL VAS..." (pfsifhandler.cpp:163): if the server
\* dies for good while it is connected, the EXTRA handler is told, and every VAS
\* handler too, whatever the callers of SendVasChange do to the connection, unless
\* a reload had the counter of VAS servers below their number during the loop.
DeadPfsAnnounced ==
  <>[]~up => (pc = "poll" ~> NVas \in told /\ (told = Handlers \/ "shrunk" \in seen))

\* A call of SendVasChange returns: a VAS watcher never hangs in it, although
\* the PFS thread may have taken its answer.
CallsReturn == \A c \in Callers : cpc[c] # "idle" ~> cpc[c] = "idle"
=============================================================================
