---------------------------- MODULE CtiIfHandler ----------------------------
(***************************************************************************)
(* CCtiIfHandler (src/src/ctiifhandler.cpp): one thread interprets the      *)
(* events of one CTI server, keeps a record per call in m_mapCDR and sends  *)
(* start ('S') and end ('E') of recording events to the VAS server in whose *)
(* address range the agent's phone lies.                                    *)
(*                                                                         *)
(* The CTI server is the environment: calls begin, are established, have    *)
(* RTP streams that start and stop, and are cleared; a ConnectionCallID is  *)
(* used again by later calls.  Each event reaches the handler in order      *)
(* (CtiQueue is a FIFO) or is lost: the ring was full, or the CTI socket    *)
(* was being reconnected.  The handler's map is private to its thread, so   *)
(* handling an event when it happens loses no behaviour.                    *)
(*                                                                         *)
(* The table of address ranges is not the handler's: the administration's   *)
(* reload clears it and fills it again, without a lock, while events are    *)
(* handled.  An event looks an address up twice, first to decide whether to *)
(* send and then to find out where to, and the table may change in between. *)
(*                                                                         *)
(* Data: a call key stands for its call (CALL_VAR_1, or the key made by     *)
(* GenerateCallKey), the agent id and extension go with the agent address.  *)
(***************************************************************************)
EXTENDS Integers

CONSTANTS CallIds,     \* ConnectionCallIDs
          Ips,         \* addresses of RTP streams
          NoIp,        \* cAgentIp or szIp after memset: ""
          Tables,      \* what g_vas_ip_01 .. and g_vas_range may say at some moment:
                       \* for each address the number of its VAS server, or -1
          NoRecord,    \* the id is not in m_mapCDR
          NoMsg,       \* no message for a VAS server
          MaxCalls,    \* bound: calls made in a behaviour
          MaxRtp,      \* bound: RTP events of one call
          MaxLost      \* bound: events lost in a behaviour

ASSUME IpAssumption == NoIp \notin Ips
ASSUME RangeAssumption ==
  Tables \subseteq [Ips -> Int] /\ \A t \in Tables, ip \in Ips : t[ip] = -1 \/ t[ip] > 0
ASSUME BoundAssumption == MaxCalls \in Nat /\ MaxRtp \in Nat /\ MaxLost \in Nat

VARIABLES
  m_mapCDR,    \* m_mapCDR[c]: INFO_FOR_VAS of call id c, or NoRecord
  msg,         \* the message the last step put into a VAS queue, or NoMsg
  vasRange,    \* the table of address ranges at this moment
  \* the calls as the CTI server knows them
  call,        \* call[c]: number of the live call with id c, 0 if none
  outbound,    \* outbound[c]: the live call was placed by an agent
  established, \* established[c]: the live call has been answered
  talk,        \* talk[c]: addresses of its running agent (direction 0) streams
  rtpEvents,   \* rtpEvents[c]: RTP events of the live call so far
  nCalls,      \* calls so far
  nLost,       \* lost events so far
  \* history, for the properties
  opened,      \* opened[c]: the last 'S' sent from the present record of c
  inCharge,    \* inCharge[c]: the VAS server in charge of the record's agent when
               \* the agent's stream started or the outbound call was answered, as
               \* both lookups of that event saw it; -1 if none or if they differ
  lostClear,   \* lostClear[c]: a CALL_CLEARED event was lost with a record in the map
  lostRtp,     \* lostRtp[c]: an RTP_STARTED event of the live call was lost
  overlap,     \* overlap[c]: two agents' streams of the live call ran at once
  earlyStop,   \* earlyStop[c]: an agent stream stopped before the call was answered
  stopped      \* address of the agent stream that stopped in the last step, or NoIp

handler == <<m_mapCDR, msg, opened>>
calls   == <<call, outbound, established, talk, rtpEvents, nCalls>>
history == <<lostClear, lostRtp, overlap, earlyStop>>
ranges  == <<vasRange, inCharge>>
vars    == <<handler, ranges, calls, nLost, history, stopped>>

INFO_FOR_VAS ==
  [cCID : {"var3", "called"},         \* CALL_VAR_3 of BEGIN_CALL, or the called number
   cCallkey : 1 .. MaxCalls,
   cAgentIp : Ips \cup {NoIp},
   nTwoRtpStarted : Nat,
   nTwoRtpStopped : Nat,
   nInboundCall : {0, 1},
   nInitialCallEstablished : {0, 1}]

VasNos == {t[ip] : t \in Tables, ip \in Ips} \ {-1}

PKT_SCS_EVT_MSG ==
  [type : {"S", "E"}, callId : CallIds, cCID : {"var3", "called"},
   cCallkey : 1 .. MaxCalls, cAgentIp : Ips, vasno : VasNos]

ASSUME NoneAssumption == NoRecord \notin INFO_FOR_VAS /\ NoMsg \notin PKT_SCS_EVT_MSG

\* The VAS server a table puts in charge of an address, -1 if none or if there is
\* no address.
GetVasNo(table, ip) == IF ip = NoIp THEN -1 ELSE table[ip]

Init ==
  /\ m_mapCDR = [c \in CallIds |-> NoRecord]
  /\ msg = NoMsg
  /\ vasRange \in Tables
  /\ call = [c \in CallIds |-> 0]
  /\ outbound = [c \in CallIds |-> FALSE]
  /\ established = [c \in CallIds |-> FALSE]
  /\ talk = [c \in CallIds |-> {}]
  /\ rtpEvents = [c \in CallIds |-> 0]
  /\ nCalls = 0
  /\ nLost = 0
  /\ opened = [c \in CallIds |-> NoMsg]
  /\ inCharge = [c \in CallIds |-> -1]
  /\ lostClear = [c \in CallIds |-> FALSE]
  /\ lostRtp = [c \in CallIds |-> FALSE]
  /\ overlap = [c \in CallIds |-> FALSE]
  /\ earlyStop = [c \in CallIds |-> FALSE]
  /\ stopped = NoIp

-----------------------------------------------------------------------------
(* The handlers *)

\* MakeScsEvent: the message built from record ifv for a VAS server.
Message(c, ifv, type, vasno) ==
  [type |-> type, callId |-> c, cCID |-> ifv.cCID, cCallkey |-> ifv.cCallkey,
   cAgentIp |-> ifv.cAgentIp, vasno |-> vasno]

\* Faulty variant: vasno == -1 is not tested.
ScsEvent_noDiscard(c, ifv, type) ==
  Message(c, ifv, type, GetVasNo(vasRange', ifv.cAgentIp))

\* SendScsEventToVasQueue looks the agent's address up anew, after the handler has:
\* the message, or NoMsg ("DATA TO DISCARD") when no VAS server has the address.
ScsEvent(c, ifv, type) ==
  LET vasno == GetVasNo(vasRange', ifv.cAgentIp)
  IN  IF vasno = -1 THEN NoMsg ELSE Message(c, ifv, type, vasno)

\* The handler ends with record ifv in the map and message m for a VAS queue.
Update(c, ifv, m) ==
  /\ m_mapCDR' = [m_mapCDR EXCEPT ![c] = ifv]
  /\ msg' = m
  /\ opened' = [opened EXCEPT ![c] = IF m # NoMsg /\ m.type = "S" THEN m ELSE @]

\* The handler changes nothing: the call is unknown, or the event was lost.
NoUpdate ==
  /\ msg' = NoMsg
  /\ UNCHANGED <<m_mapCDR, opened>>

\* m_mapCDR.insert() leaves a record that is already there as it is.
OnBeginCallEvent(c, key, out) ==
  IF m_mapCDR[c] # NoRecord
    THEN NoUpdate
    ELSE Update(c, [cCID |-> "var3", cCallkey |-> key, cAgentIp |-> NoIp,
                    nTwoRtpStarted |-> 0, nTwoRtpStopped |-> 0,
                    nInboundCall |-> IF out THEN 0 ELSE 1,
                    nInitialCallEstablished |-> IF out THEN 1 ELSE 0], NoMsg)

\* Faulty variant: the answer is noted, the start of recording forgotten.
OnCallEstablishedEvent_noSend(c) ==
  IF m_mapCDR[c] = NoRecord \/ m_mapCDR[c].nInboundCall = 1
    THEN NoUpdate
    ELSE Update(c, [m_mapCDR[c] EXCEPT !.nInitialCallEstablished = 0], NoMsg)

\* Only an outbound call is interested: its recording starts now if the agent's
\* stream is known already.
OnCallEstablishedEvent(c) ==
  LET ifv == m_mapCDR[c]
      answered == [ifv EXCEPT !.nInitialCallEstablished = 0]
      named == [answered EXCEPT !.cCID = "called"]
  IN  IF ifv = NoRecord \/ ifv.nInboundCall = 1
        THEN NoUpdate
        ELSE IF GetVasNo(vasRange, ifv.cAgentIp) > 0
               THEN Update(c, named, ScsEvent(c, named, "S"))
               ELSE Update(c, answered, NoMsg)

\* Faulty variant: the address is taken from streams of both directions.
MergeRtpStarted_bothDirections(ifv, dir, ip) ==
  [ifv EXCEPT !.nTwoRtpStarted = @ + 1, !.cAgentIp = ip]

\* Faulty variant: an outbound call keeps the first agent's address.
MergeRtpStarted_firstAgent(ifv, dir, ip) ==
  [ifv EXCEPT !.nTwoRtpStarted = @ + 1,
              !.cAgentIp = IF dir = 0 /\ (ifv.nInboundCall = 1 \/ @ = NoIp) THEN ip ELSE @]

\* The record after the fields of an RTP_STARTED event have been merged: only
\* direction 0 carries the agent's address.  An inbound record is replaced by a
\* fresh one that takes over caller, key and start counter.
MergeRtpStarted(ifv, dir, ip) ==
  LET counted == [ifv EXCEPT !.nTwoRtpStarted = @ + 1]
  IN  CASE dir # 0 -> counted
        [] dir = 0 /\ ifv.nInboundCall = 1 ->
             [counted EXCEPT !.cAgentIp = ip, !.nTwoRtpStopped = 0, !.nInitialCallEstablished = 0]
        [] dir = 0 /\ ifv.nInboundCall = 0 -> [counted EXCEPT !.cAgentIp = ip]

\* Faulty variant: nInitialCallEstablished is not tested (before 2020.06).
OnRTPStartedEvent_noAnswerTest(c, dir, ip) ==
  IF m_mapCDR[c] = NoRecord
    THEN NoUpdate
    ELSE LET ifv == MergeRtpStarted(m_mapCDR[c], dir, ip)
         IN  IF dir = 0 /\ GetVasNo(vasRange, ip) > 0
               THEN Update(c, [ifv EXCEPT !.nTwoRtpStarted = 0], ScsEvent(c, ifv, "S"))
               ELSE Update(c, ifv, NoMsg)

\* A start of recording is sent for an agent's stream in a VAS server's range,
\* for an outbound call only once it has been answered.
OnRTPStartedEvent(c, dir, ip) ==
  IF m_mapCDR[c] = NoRecord
    THEN NoUpdate
    ELSE LET ifv == MergeRtpStarted(m_mapCDR[c], dir, ip)
             szIp == IF dir = 0 THEN ip ELSE NoIp
             start == /\ ifv.nInboundCall = 1 \/ ifv.nInitialCallEstablished = 0
                      /\ ifv.nTwoRtpStarted >= 1
                      /\ GetVasNo(vasRange, szIp) > 0
         IN  IF start
               THEN Update(c, [ifv EXCEPT !.nTwoRtpStarted = 0], ScsEvent(c, ifv, "S"))
               ELSE Update(c, ifv, NoMsg)

\* The address of the event decides whether an 'E' is sent, the address in the
\* record where to; the direction plays no part.
OnRTPStoppedEvent(c, ip) ==
  IF m_mapCDR[c] = NoRecord
    THEN NoUpdate
    ELSE LET ifv == [m_mapCDR[c] EXCEPT !.nTwoRtpStopped = @ + 1]
         IN  IF ifv.nTwoRtpStopped >= 1 /\ GetVasNo(vasRange, ip) > 0
               THEN Update(c, [ifv EXCEPT !.nTwoRtpStopped = 0], ScsEvent(c, ifv, "E"))
               ELSE Update(c, ifv, NoMsg)

\* Faulty variant: the record stays in the map.
OnCallClearedEvent_noErase(c) == NoUpdate

\* The record is erased.
OnCallClearedEvent(c) ==
  /\ m_mapCDR' = [m_mapCDR EXCEPT ![c] = NoRecord]
  /\ msg' = NoMsg
  /\ opened' = [opened EXCEPT ![c] = NoMsg]

-----------------------------------------------------------------------------
(* What happens at the CTI server, and whether its event reaches the handler *)

\* The event is lost on the way.
Lose ==
  /\ nLost < MaxLost
  /\ nLost' = nLost + 1
  /\ NoUpdate
  /\ UNCHANGED ranges

\* A reload clears the table and fills it anew (LoadParameters, SetRange); any
\* table may be found on the way.
Reload ==
  /\ vasRange' \in Tables
  /\ msg' = NoMsg
  /\ stopped' = NoIp
  /\ UNCHANGED <<m_mapCDR, opened, inCharge, calls, nLost, history>>

\* The server that both lookups of an event find in charge of an address.
InCharge(ip) ==
  LET vasno == GetVasNo(vasRange, ip)
  IN  IF GetVasNo(vasRange', ip) = vasno THEN vasno ELSE -1

\* Calls end before their ConnectionCallID is used again.
Begin(c, out) ==
  /\ call[c] = 0
  /\ nCalls < MaxCalls
  /\ nCalls' = nCalls + 1
  /\ call' = [call EXCEPT ![c] = nCalls + 1]
  /\ outbound' = [outbound EXCEPT ![c] = out]
  /\ established' = [established EXCEPT ![c] = FALSE]
  /\ talk' = [talk EXCEPT ![c] = {}]
  /\ rtpEvents' = [rtpEvents EXCEPT ![c] = 0]
  /\ lostRtp' = [lostRtp EXCEPT ![c] = FALSE]
  /\ overlap' = [overlap EXCEPT ![c] = FALSE]
  /\ earlyStop' = [earlyStop EXCEPT ![c] = FALSE]
  /\ stopped' = NoIp
  /\ UNCHANGED lostClear

BeginCall(c, out) ==
  /\ Begin(c, out)
  /\ OnBeginCallEvent(c, nCalls + 1, out)
  /\ UNCHANGED <<ranges, nLost>>

BeginCallLost(c, out) == Begin(c, out) /\ Lose

Establish(c) ==
  /\ call[c] # 0
  /\ ~established[c]
  /\ established' = [established EXCEPT ![c] = TRUE]
  /\ stopped' = NoIp
  /\ UNCHANGED <<call, outbound, talk, rtpEvents, nCalls, history>>

CallEstablished(c) ==
  /\ Establish(c)
  /\ vasRange' \in Tables
  /\ OnCallEstablishedEvent(c)
  /\ inCharge' = [inCharge EXCEPT ![c] =
                    IF m_mapCDR[c] = NoRecord \/ m_mapCDR[c].nInboundCall = 1
                      THEN @ ELSE InCharge(m_mapCDR[c].cAgentIp)]
  /\ UNCHANGED nLost

CallEstablishedLost(c) == Establish(c) /\ Lose

\* An agent's stream (direction 0), the opposite one (1) or one without an
\* address starts.
StartRtp(c, dir, ip) ==
  /\ call[c] # 0
  /\ rtpEvents[c] < MaxRtp
  /\ rtpEvents' = [rtpEvents EXCEPT ![c] = @ + 1]
  /\ dir = 0 => ip \notin talk[c]
  /\ talk' = [talk EXCEPT ![c] = IF dir = 0 THEN @ \cup {ip} ELSE @]
  /\ overlap' = [overlap EXCEPT ![c] = @ \/ (dir = 0 /\ talk[c] # {})]
  /\ stopped' = NoIp
  /\ UNCHANGED <<call, outbound, established, nCalls, lostClear, earlyStop>>

RTPStarted(c, dir, ip) ==
  /\ StartRtp(c, dir, ip)
  /\ vasRange' \in Tables
  /\ OnRTPStartedEvent(c, dir, ip)
  /\ inCharge' = [inCharge EXCEPT ![c] =
                    IF m_mapCDR[c] = NoRecord \/ dir # 0 THEN @ ELSE InCharge(ip)]
  /\ UNCHANGED <<nLost, lostRtp>>

RTPStartedLost(c, dir, ip) ==
  /\ StartRtp(c, dir, ip)
  /\ Lose
  /\ lostRtp' = [lostRtp EXCEPT ![c] = TRUE]

\* A running agent stream, or the opposite stream, stops.
StopRtp(c, dir, ip) ==
  /\ call[c] # 0
  /\ rtpEvents[c] < MaxRtp
  /\ rtpEvents' = [rtpEvents EXCEPT ![c] = @ + 1]
  /\ dir = 0 => ip \in talk[c]
  /\ talk' = [talk EXCEPT ![c] = IF dir = 0 THEN @ \ {ip} ELSE @]
  /\ earlyStop' = [earlyStop EXCEPT ![c] = @ \/ (dir = 0 /\ ~established[c])]
  /\ stopped' = IF dir = 0 THEN ip ELSE NoIp
  /\ UNCHANGED <<call, outbound, established, nCalls, lostClear, lostRtp, overlap>>

RTPStopped(c, dir, ip) ==
  /\ StopRtp(c, dir, ip)
  /\ vasRange' \in Tables
  /\ OnRTPStoppedEvent(c, ip)
  /\ UNCHANGED <<inCharge, nLost>>

RTPStoppedLost(c, dir, ip) == StopRtp(c, dir, ip) /\ Lose

Clear(c) ==
  /\ call[c] # 0
  /\ call' = [call EXCEPT ![c] = 0]
  /\ stopped' = NoIp
  /\ UNCHANGED <<outbound, established, talk, rtpEvents, nCalls, lostRtp, overlap, earlyStop>>

CallCleared(c) ==
  /\ Clear(c)
  /\ OnCallClearedEvent(c)
  /\ inCharge' = [inCharge EXCEPT ![c] = -1]
  /\ lostClear' = [lostClear EXCEPT ![c] = FALSE]
  /\ UNCHANGED <<vasRange, nLost>>

CallClearedLost(c) ==
  /\ Clear(c)
  /\ Lose
  /\ lostClear' = [lostClear EXCEPT ![c] = @ \/ m_mapCDR[c] # NoRecord]

Next ==
  \/ \E c \in CallIds :
       \/ \E out \in BOOLEAN : BeginCall(c, out) \/ BeginCallLost(c, out)
       \/ CallEstablished(c)
       \/ CallEstablishedLost(c)
       \/ \E dir \in {0, 1}, ip \in Ips \cup {NoIp} :
            \/ RTPStarted(c, dir, ip)
            \/ RTPStartedLost(c, dir, ip)
            \/ RTPStopped(c, dir, ip)
            \/ RTPStoppedLost(c, dir, ip)
       \/ CallCleared(c)
       \/ CallClearedLost(c)
  \/ Reload

Spec == Init /\ [][Next]_vars

-----------------------------------------------------------------------------
(* Properties *)

\* The types of all variables.
TypeOK ==
  /\ m_mapCDR \in [CallIds -> INFO_FOR_VAS \cup {NoRecord}]
  /\ msg \in PKT_SCS_EVT_MSG \cup {NoMsg}
  /\ vasRange \in Tables
  /\ call \in [CallIds -> 0 .. MaxCalls]
  /\ outbound \in [CallIds -> BOOLEAN]
  /\ established \in [CallIds -> BOOLEAN]
  /\ talk \in [CallIds -> SUBSET (Ips \cup {NoIp})]
  /\ rtpEvents \in [CallIds -> 0 .. MaxRtp]
  /\ nCalls \in 0 .. MaxCalls
  /\ nLost \in 0 .. MaxLost
  /\ opened \in [CallIds -> PKT_SCS_EVT_MSG \cup {NoMsg}]
  /\ inCharge \in [CallIds -> VasNos \cup {-1}]
  /\ lostClear \in [CallIds -> BOOLEAN]
  /\ lostRtp \in [CallIds -> BOOLEAN]
  /\ overlap \in [CallIds -> BOOLEAN]
  /\ earlyStop \in [CallIds -> BOOLEAN]
  /\ stopped \in Ips \cup {NoIp}

\* A record in the map belongs to the call that is live under its id: same key
\* and same direction.  The only way to a stale record, whose key would be put
\* on another call's recording, is a lost CALL_CLEARED event, since insert()
\* does not replace a record.
RecordIsCurrent ==
  \A c \in CallIds :
    m_mapCDR[c] # NoRecord /\ ~lostClear[c]
      => /\ m_mapCDR[c].cCallkey = call[c]
         /\ m_mapCDR[c].nInboundCall = (IF outbound[c] THEN 0 ELSE 1)

\* The agent the record names has been announced: when a VAS server was in
\* charge of the agent's address as the stream started or the outbound call was
\* answered, and the call is inbound or answered, the last 'S' of the call went to
\* this server with the data now in the record, no matter in which order
\* CALL_ESTABLISHED and RTP_STARTED arrived, what was lost in between and how
\* reloads changed the table since.
AgentAnnounced ==
  \A c \in CallIds :
    LET ifv == m_mapCDR[c] IN
      (ifv # NoRecord /\ ifv.nInitialCallEstablished = 0 /\ inCharge[c] > 0)
        => opened[c] = Message(c, ifv, "S", inCharge[c])

\* An 'E' of an inbound or answered call closes the recording the last 'S'
\* opened: same VAS server, call key, caller and agent.  The condition is that the
\* server in charge of the agent is the one that was so at the start; when a reload
\* has moved the address, the 'E' goes to a server that knows of no start.
EndClosesLastStart ==
  (/\ msg # NoMsg /\ msg.type = "E"
   /\ m_mapCDR[msg.callId].nInitialCallEstablished = 0
   /\ GetVasNo(vasRange, m_mapCDR[msg.callId].cAgentIp) = inCharge[msg.callId])
    => /\ opened[msg.callId] # NoMsg
       /\ msg = [opened[msg.callId] EXCEPT !.type = "E"]

\* No recording is started for a phone that is only ringing: an 'S' of an
\* outbound call implies that the call was answered (unless the record is a
\* stale one).
NoStartBeforeAnswer ==
  (msg # NoMsg /\ msg.type = "S" /\ outbound[msg.callId] /\ ~lostClear[msg.callId])
    => established[msg.callId]

\* A recording is started for a running stream of the agent.  The exception is
\* an outbound call whose early stream stopped before the answer:
\* OnCallEstablishedEvent uses the address of the stopped stream.
StartWhileTalking ==
  (msg # NoMsg /\ msg.type = "S" /\ ~lostClear[msg.callId] /\ ~earlyStop[msg.callId])
    => msg.cAgentIp \in talk[msg.callId]

\* The 'E' sent when an agent's stream stops is about this agent, as long as
\* the streams of successive agents of a call do not overlap and their starts
\* were not lost.  (When they overlap, the record already names the next agent.)
EndNamesStoppedAgent ==
  (/\ msg # NoMsg /\ msg.type = "E" /\ stopped # NoIp
   /\ ~overlap[msg.callId] /\ ~lostRtp[msg.callId])
    => msg.cAgentIp = stopped
=============================================================================
