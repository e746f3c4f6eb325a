----------------------------- MODULE CtiSocketIf -----------------------------
(***************************************************************************)
(* CCtiSocketIf (src/src/ctisocketif.cpp): one thread keeps a connection to *)
(* the active or the standby CTI server, cuts the byte stream into messages *)
(* and enqueues the five kinds of call events the gateway uses.             *)
(*                                                                         *)
(* A message is a header of two units (MessageLength and MessageType) and a *)
(* body of MessageLength units.  Units arrive one by one, so that recv() may *)
(* return less than it was asked for; it returns 0 when the peer has closed *)
(* and -1 after the ten seconds of SO_RCVTIMEO or on a reset connection.    *)
(* A header read at a wrong place of the stream has arbitrary fields.       *)
(***************************************************************************)
EXTENDS Integers, Sequences

CONSTANTS MaxBody,      \* bound: units in a body
          MaxIdle,      \* idle poll timeouts before a heartbeat: 180 in the code
          SplitHeaders, \* the two units of a header may arrive apart
          MaxMsg,       \* bound: messages of the servers
          MaxFail,      \* bound: failures of the servers and refused opens
          MaxCut,       \* bound: failures in the middle of a message
          MaxStall      \* bound: receive timeouts on a working connection

ASSUME BoundAssumption ==
  /\ MaxBody \in Nat /\ MaxIdle \in Nat \ {0} /\ SplitHeaders \in BOOLEAN
  /\ MaxMsg \in Nat /\ MaxFail \in Nat /\ MaxCut \in Nat /\ MaxStall \in Nat

VARIABLES
  pc,                 \* where Run is
  next_server,
  cont_timeout_count,
  hdr,                \* the units read into mhdr
  mhdr,               \* MessageLength and MessageType
  buf,                \* the units in buf
  total_rcvd_bytes,
  \* the connection
  server,             \* the server of the present or last connection
  peer,               \* "none", "alive", "closed" (FIN), "silent" (gone without
                      \* a word) or "reset"
  unacked,            \* a heartbeat was sent to a silent peer
  stream,             \* units that have arrived
  rest,               \* units of the message the server is sending
  \* environment
  up, nMsg, nFail, nCut, nStall,
  \* history of the present connection
  sent,               \* event messages the server began to send
  got,                \* messages put into the CTI queue while not disturbed, as units
  disturbed           \* a header arrived in two parts, or a receive failed

control == <<pc, next_server, cont_timeout_count>>
message == <<hdr, mhdr, buf, total_rcvd_bytes>>
conn    == <<server, peer, unacked>>
bytes   == <<stream, rest>>
env     == <<up, nMsg, nFail, nCut, nStall>>
history == <<sent, got, disturbed>>
vars    == <<control, message, conn, bytes, env, history>>

Servers == {"active", "standby"}

\* "event" is one of the five types that are enqueued, "other" any type that is
\* only logged, "bad" a number outside the range of message types.
Types == {"event", "other", "bad"}

\* The units of message m: part 0 is its length, 1 its type, the others its body.
Units(m) == [k \in 1 .. m.len + 2 |-> [of |-> m, part |-> k - 1]]

\* OPEN_CONF, the answer to OPEN_REQ.
OpenConf == [no |-> 0, len |-> 1, type |-> "other"]

NoHeader == [len |-> 0, type |-> "other"]

Init ==
  /\ pc = "active"
  /\ next_server = 0
  /\ cont_timeout_count = 0
  /\ hdr = <<>>
  /\ mhdr = NoHeader
  /\ buf = <<>>
  /\ total_rcvd_bytes = 0
  /\ server = "active"
  /\ peer = "none"
  /\ unacked = FALSE
  /\ stream = <<>>
  /\ rest = <<>>
  /\ up \in [Servers -> BOOLEAN]
  /\ nMsg = 0
  /\ nFail = 0
  /\ nCut = 0
  /\ nStall = 0
  /\ sent = <<>>
  /\ got = <<>>
  /\ disturbed = FALSE

-----------------------------------------------------------------------------
(* Connecting *)

Number(s) == IF s = "active" THEN 0 ELSE 1
Other(s) == IF s = "active" THEN "standby" ELSE "active"

\* Faulty variant: the standby server is tried again and again.
AfterFailure_stuck(s) == 1

\* next_server after an attempt that failed.
AfterFailure(s) == 1 - Number(s)

\* if(next_server == ...) is false.
connect_skip(s) ==
  /\ pc = s
  /\ next_server # Number(s)
  /\ pc' = Other(s)
  /\ UNCHANGED <<next_server, cont_timeout_count, message, conn, bytes, env, history>>

\* CreateSocket or ConnectToServer fails, or the open request is not confirmed:
\* the socket is closed and the other server is next.
connect_fail(s) ==
  /\ pc = s
  /\ next_server = Number(s)
  /\ \/ ~up[s] /\ UNCHANGED nFail
     \/ up[s] /\ nFail < MaxFail /\ nFail' = nFail + 1
  /\ next_server' = AfterFailure(s)
  /\ pc' = Other(s)
  /\ UNCHANGED <<cont_timeout_count, message, conn, bytes, up, nMsg, nCut, nStall, history>>

\* The connection to s is taken as confirmed; units of OPEN_CONF are still to come.
Connected(s, pending) ==
  /\ pc = s
  /\ next_server = Number(s)
  /\ up[s]
  /\ pc' = "poll"
  /\ cont_timeout_count' = 0
  /\ server' = s
  /\ peer' = "alive"
  /\ unacked' = FALSE
  /\ stream' = <<>>
  /\ rest' = pending
  /\ sent' = <<>>
  /\ got' = <<>>
  /\ UNCHANGED <<next_server, message, up, nMsg, nFail, nCut>>

connect_confirmed(s) ==
  /\ Connected(s, <<>>)
  /\ disturbed' = FALSE
  /\ UNCHANGED nStall

\* The wait for OPEN_CONF times out.  The -1 is stored in an unsigned variable
\* and passes for a length, and the answer, or the rest of it, comes later.
connect_late(s) ==
  /\ nStall < MaxStall
  /\ nStall' = nStall + 1
  /\ \E k \in 0 .. OpenConf.len + 1 :
       /\ Connected(s, SubSeq(Units(OpenConf), k + 1, OpenConf.len + 2))
       /\ disturbed' = (k # 0)

-----------------------------------------------------------------------------
(* The poll loop *)

\* DestroySocket(), and start over with next_server.  (The counter is cleared
\* before the next poll.)
Disconnect ==
  /\ pc' = "active"
  /\ peer' = "none"
  /\ unacked' = FALSE
  /\ stream' = <<>>
  /\ rest' = <<>>
  /\ sent' = <<>>
  /\ got' = <<>>
  /\ disturbed' = FALSE
  /\ cont_timeout_count' = 0
  /\ UNCHANGED <<next_server, server>>

\* poll() reports POLLIN: data, the end of the stream or an error.
poll_readable ==
  /\ pc = "poll"
  /\ stream # <<>> \/ peer \in {"closed", "reset"}
  /\ pc' = "header"
  /\ cont_timeout_count' = 0
  /\ UNCHANGED <<next_server, message, conn, bytes, env, history>>

\* poll() times out.
poll_timeout ==
  /\ pc = "poll"
  /\ stream = <<>>
  /\ peer \in {"alive", "silent"}
  /\ pc' = "peek"
  /\ UNCHANGED <<next_server, cont_timeout_count, message, conn, bytes, env, history>>

\* After a timeout, data that came in the meantime is seen by recv(MSG_PEEK);
\* otherwise the timeout is counted.
peek ==
  /\ pc = "peek"
  /\ stream # <<>> \/ cont_timeout_count + 1 < MaxIdle
  /\ pc' = "poll"
  /\ cont_timeout_count' = IF stream # <<>> THEN cont_timeout_count ELSE cont_timeout_count + 1
  /\ peer' = IF stream = <<>> /\ peer = "reset" THEN "closed" ELSE peer
  /\ UNCHANGED <<next_server, message, server, unacked, bytes, env, history>>

\* Faulty variant: the counter is not set back.
heartbeat_noReset ==
  /\ pc = "peek"
  /\ stream = <<>>
  /\ cont_timeout_count + 1 >= MaxIdle
  /\ pc' = "poll"
  /\ cont_timeout_count' = cont_timeout_count + 1
  /\ unacked' = (peer = "silent")
  /\ UNCHANGED <<next_server, message, server, peer, bytes, env, history>>

\* Faulty variant: no heartbeat is sent.
heartbeat_none ==
  /\ pc = "peek"
  /\ stream = <<>>
  /\ cont_timeout_count + 1 >= MaxIdle
  /\ pc' = "poll"
  /\ cont_timeout_count' = 0
  /\ UNCHANGED <<next_server, message, conn, bytes, env, history>>

\* The counter is full: send a heartbeat.  A peer that has closed may still
\* take it, a reset connection does not.
heartbeat ==
  /\ pc = "peek"
  /\ stream = <<>>
  /\ cont_timeout_count + 1 >= MaxIdle
  /\ \/ /\ peer # "reset"
        /\ pc' = "poll"
        /\ cont_timeout_count' = 0
        /\ unacked' = (peer = "silent")
        /\ UNCHANGED <<next_server, server, peer, bytes, history>>
     \/ /\ peer \in {"closed", "reset"}
        /\ Disconnect
  /\ UNCHANGED <<message, env>>

\* recv(&mhdr): whatever has arrived of it passes for a header.
header ==
  /\ pc = "header"
  /\ stream # <<>>
  /\ LET k == IF Len(stream) >= 2 THEN 2 ELSE 1
         us == SubSeq(stream, 1, k)
     IN  /\ hdr' = us
         /\ \E len \in (IF us[1].part = 0 THEN {us[1].of.len} ELSE 0 .. MaxBody),
               type \in (IF k = 2 /\ us[2].part = 1 THEN {us[2].of.type} ELSE Types) :
              mhdr' = [len |-> len, type |-> type]
         /\ stream' = SubSeq(stream, k + 1, Len(stream))
         /\ disturbed' = (disturbed \/ k = 1)
  /\ buf' = <<>>
  /\ total_rcvd_bytes' = 0
  /\ pc' = "body"
  /\ UNCHANGED <<next_server, cont_timeout_count, conn, rest, env, sent, got>>

\* recv() <= 0: disconnect.
header_fail ==
  /\ pc = "header"
  /\ stream = <<>>
  /\ Disconnect
  /\ UNCHANGED <<message, env>>

\* while(total_rcvd_bytes < mhdr.MessageLength), an unsigned comparison: -1 ends
\* the loop.
InBody == pc = "body" /\ total_rcvd_bytes # -1 /\ total_rcvd_bytes < mhdr.len

\* Faulty variant: every recv() asks for the whole body.
body_recv_whole ==
  /\ InBody
  /\ stream # <<>>
  /\ LET k == IF Len(stream) < mhdr.len THEN Len(stream) ELSE mhdr.len
     IN  /\ buf' = SubSeq(buf, 1, total_rcvd_bytes) \o SubSeq(stream, 1, k)
         /\ total_rcvd_bytes' = total_rcvd_bytes + k
         /\ stream' = SubSeq(stream, k + 1, Len(stream))
  /\ UNCHANGED <<control, hdr, mhdr, conn, rest, env, history>>

\* recv() of the part of the body that is missing.  When the peer has closed and
\* nothing is left, recv() returns 0 and the loop goes round without a change.
body_recv ==
  /\ InBody
  /\ stream # <<>>
  /\ LET want == mhdr.len - total_rcvd_bytes
         k == IF Len(stream) < want THEN Len(stream) ELSE want
     IN  /\ buf' = SubSeq(buf, 1, total_rcvd_bytes) \o SubSeq(stream, 1, k)
         /\ total_rcvd_bytes' = total_rcvd_bytes + k
         /\ stream' = SubSeq(stream, k + 1, Len(stream))
  /\ UNCHANGED <<control, hdr, mhdr, conn, rest, env, history>>

\* recv() returns -1 and total_rcvd_bytes goes down by one.
body_error ==
  /\ InBody
  /\ stream = <<>>
  /\ \/ peer \in {"silent", "reset"} /\ UNCHANGED nStall
     \/ peer = "alive" /\ nStall < MaxStall /\ nStall' = nStall + 1
  /\ total_rcvd_bytes' = total_rcvd_bytes - 1
  /\ peer' = IF peer = "reset" THEN "closed" ELSE peer
  /\ disturbed' = TRUE
  /\ UNCHANGED <<control, hdr, mhdr, buf, server, unacked, bytes, up, nMsg, nFail, nCut, sent, got>>

\* The body is complete.  What remains in mhdr and buf is not used again.
BodyDone ==
  /\ pc = "body"
  /\ ~InBody
  /\ hdr' = <<>>
  /\ mhdr' = NoHeader
  /\ buf' = <<>>
  /\ total_rcvd_bytes' = 0

\* The message goes to the CTI queue ...
dispatch_event ==
  /\ BodyDone
  /\ mhdr.type = "event"
  /\ got' = IF disturbed THEN got ELSE Append(got, hdr \o buf)
  /\ pc' = "poll"
  /\ UNCHANGED <<next_server, cont_timeout_count, conn, bytes, env, sent, disturbed>>

\* ... or is discarded ...
dispatch_other ==
  /\ BodyDone
  /\ mhdr.type = "other"
  /\ pc' = "poll"
  /\ UNCHANGED <<next_server, cont_timeout_count, conn, bytes, env, history>>

\* ... or shows that something is wrong: disconnect and reconnect.
dispatch_bad ==
  /\ BodyDone
  /\ mhdr.type = "bad"
  /\ Disconnect
  /\ UNCHANGED env

Run ==
  \/ \E s \in Servers : connect_skip(s) \/ connect_fail(s) \/ connect_confirmed(s) \/ connect_late(s)
  \/ poll_readable
  \/ poll_timeout
  \/ peek
  \/ heartbeat
  \/ header
  \/ header_fail
  \/ body_recv
  \/ body_error
  \/ dispatch_event
  \/ dispatch_other
  \/ dispatch_bad

-----------------------------------------------------------------------------
(* The CTI servers (external) *)

\* The server starts to send a message.
BeginMessage(len, type) ==
  /\ peer = "alive"
  /\ rest = <<>>
  /\ nMsg < MaxMsg
  /\ nMsg' = nMsg + 1
  /\ LET m == [no |-> nMsg + 1, len |-> len, type |-> type]
     IN  /\ rest' = Units(m)
         /\ sent' = IF type = "event" THEN Append(sent, m) ELSE sent
  /\ UNCHANGED <<control, message, conn, stream, up, nFail, nCut, nStall, got, disturbed>>

\* The next unit arrives, a header as a whole unless SplitHeaders.
Arrive ==
  /\ rest # <<>>
  /\ LET k == IF ~SplitHeaders /\ rest[1].part = 0 THEN 2 ELSE 1
     IN  /\ stream' = stream \o SubSeq(rest, 1, k)
         /\ rest' = SubSeq(rest, k + 1, Len(rest))
  /\ UNCHANGED <<control, message, conn, env, history>>

\* A server fails; its connection is closed, or goes silent.
ServerDown(s) ==
  /\ up[s]
  /\ nFail < MaxFail
  /\ nFail' = nFail + 1
  /\ up' = [up EXCEPT ![s] = FALSE]
  /\ IF server = s /\ peer = "alive"
       THEN /\ peer' \in {"closed", "silent"}
            /\ rest' = <<>>
            /\ \/ rest = <<>> /\ UNCHANGED nCut
               \/ rest # <<>> /\ nCut < MaxCut /\ nCut' = nCut + 1
       ELSE UNCHANGED <<peer, rest, nCut>>
  /\ UNCHANGED <<control, message, server, unacked, stream, nMsg, nStall, history>>

ServerUp(s) ==
  /\ ~up[s]
  /\ up' = [up EXCEPT ![s] = TRUE]
  /\ UNCHANGED <<control, message, conn, bytes, nMsg, nFail, nCut, nStall, history>>

\* TCP gives up on a heartbeat that is never acknowledged.
TcpGivesUp ==
  /\ peer = "silent"
  /\ unacked
  /\ peer' = "reset"
  /\ UNCHANGED <<control, message, server, unacked, bytes, env, history>>

Next ==
  \/ Run
  \/ \E len \in 0 .. MaxBody, type \in {"event", "other"} : BeginMessage(len, type)
  \/ Arrive
  \/ \E s \in Servers : ServerDown(s) \/ ServerUp(s)
  \/ TcpGivesUp

Spec == Init /\ [][Next]_vars

\* The thread is scheduled, a message that was begun arrives, and TCP gives up
\* retransmitting in the end.
Fairness == WF_vars(Run) /\ WF_vars(Arrive) /\ WF_vars(TcpGivesUp)

FairSpec == Spec /\ Fairness

-----------------------------------------------------------------------------
(* Properties *)

Message == [no : 0 .. MaxMsg, len : 0 .. MaxBody, type : Types]
Unit == [of : Message, part : 0 .. MaxBody + 1]

\* The types of all variables.
TypeOK ==
  /\ pc \in Servers \cup {"poll", "peek", "header", "body"}
  /\ next_server \in {0, 1}
  /\ cont_timeout_count \in 0 .. MaxIdle - 1
  /\ hdr \in Seq(Unit)
  /\ mhdr \in [len : 0 .. MaxBody, type : Types]
  /\ buf \in Seq(Unit)
  /\ total_rcvd_bytes \in -1 .. MaxBody
  /\ server \in Servers
  /\ peer \in {"none", "alive", "closed", "silent", "reset"}
  /\ unacked \in BOOLEAN
  /\ stream \in Seq(Unit)
  /\ rest \in Seq(Unit)
  /\ up \in [Servers -> BOOLEAN]
  /\ nMsg \in 0 .. MaxMsg
  /\ nFail \in 0 .. MaxFail
  /\ nCut \in 0 .. MaxCut
  /\ nStall \in 0 .. MaxStall
  /\ sent \in Seq(Message)
  /\ got \in Seq(Seq(Unit))
  /\ disturbed \in BOOLEAN

\* As long as headers arrive in one piece and no receive fails, the CTI queue
\* gets exactly the event messages of the connection, whole and in order,
\* however their bodies are cut up on the way; when all that was sent has been
\* read, none is missing.  A new connection starts in step again, also after a
\* wrong message type.
FramingKept ==
  ~disturbed =>
    /\ Len(got) <= Len(sent)
    /\ \A i \in 1 .. Len(got) : got[i] = Units(sent[i])
    /\ pc = "poll" /\ stream = <<>> /\ rest = <<>> /\ peer = "alive" => Len(got) = Len(sent)

\* "Something wrong in the socket.  So disconnect it and reconnect it."
\* (ctisocketif.cpp:722): if one of the servers is up for good from some time
\* on, the thread comes back again and again to waiting for messages on a working
\* connection, whether the servers closed their connections or fell silent.
Reconnects ==
  \A s \in Servers : <>[]up[s] => []<>(pc = "poll" /\ peer = "alive")

\* The same, as long as headers arrive in one piece, no receive times out on a
\* working connection and no connection ends in the middle of a message.
ReconnectsUndisturbed ==
  [](~disturbed /\ nStall = 0 /\ nCut = 0) => Reconnects
=============================================================================
