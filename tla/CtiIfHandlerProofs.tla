-------------------------- MODULE CtiIfHandlerProofs --------------------------
(***************************************************************************)
(* Proofs about CtiIfHandler for every set of call ids and addresses, every *)
(* set of tables of address ranges that reloads may bring about at any      *)
(* moment, between the two lookups of an event too, and every number of     *)
(* calls, of RTP events and of lost events.                                 *)
(*                                                                         *)
(* Every step is about one call id.  The invariant is a conjunction over    *)
(* the ids of what relates the record in the map to the call (RecordOK),    *)
(* and of what the message of the last event says (MessageOK).              *)
(***************************************************************************)
EXTENDS CtiIfHandler, TLAPS

Known(c) == m_mapCDR[c] # NoRecord

\* Unless a CALL_CLEARED event was lost, the record is that of the live call.
Current(c) ==
  Known(c) /\ ~lostClear[c]
    => /\ m_mapCDR[c].cCallkey = call[c]
       /\ m_mapCDR[c].nInboundCall = (IF outbound[c] THEN 0 ELSE 1)

\* The agent the record names has been announced.
Announced(c) ==
  Known(c) /\ m_mapCDR[c].nInitialCallEstablished = 0 /\ inCharge[c] > 0
    => opened[c] = Message(c, m_mapCDR[c], "S", inCharge[c])

\* A server is in charge of a record only.
Charged(c) == inCharge[c] > 0 => Known(c)

\* nInitialCallEstablished of an outbound call is cleared by its answer only.
Answered(c) ==
  Known(c) /\ ~lostClear[c] /\ m_mapCDR[c].nInboundCall = 0
    /\ m_mapCDR[c].nInitialCallEstablished = 0
    => established[c]

\* Before the answer, the agent the record names is on the line, unless a stream
\* stopped early: OnCallEstablishedEvent announces a running stream.
Talking(c) ==
  Known(c) /\ ~lostClear[c] /\ ~earlyStop[c] /\ ~established[c] /\ m_mapCDR[c].cAgentIp # NoIp
    => m_mapCDR[c].cAgentIp \in talk[c]

\* When streams of agents follow each other and no start was lost, the only
\* running one is that of the agent the record names.
Named(c) ==
  Known(c) /\ ~overlap[c] /\ ~lostRtp[c] => talk[c] \subseteq {m_mapCDR[c].cAgentIp}

RecordOK(c) == Current(c) /\ Announced(c) /\ Charged(c) /\ Answered(c) /\ Talking(c) /\ Named(c)

MessageOK ==
  EndClosesLastStart /\ NoStartBeforeAnswer /\ StartWhileTalking /\ EndNamesStoppedAgent

\* The inductive invariant.
IInv == TypeOK /\ (\A c \in CallIds : RecordOK(c)) /\ MessageOK

\* What one event, or its loss, does.
StepOf(c) ==
  \/ \E out \in BOOLEAN : BeginCall(c, out) \/ BeginCallLost(c, out)
  \/ CallEstablished(c)
  \/ CallEstablishedLost(c)
  \/ \E dir \in {0, 1}, ip \in Ips \cup {NoIp} :
       \/ RTPStarted(c, dir, ip)
       \/ RTPStartedLost(c, dir, ip)
       \/ RTPStopped(c, dir, ip)
       \/ RTPStoppedLost(c, dir, ip)
  \/ CallCleared(c)
  \/ CallClearedLost(c)

-----------------------------------------------------------------------------
(* The operators of the model *)

\* The VAS server of an address is a positive number, or there is none.
LEMMA VasNumbers ==
  ASSUME NEW t \in Tables, NEW ip \in Ips \cup {NoIp}
  PROVE  /\ GetVasNo(t, ip) \in Int
         /\ GetVasNo(t, ip) = -1 \/ GetVasNo(t, ip) > 0
         /\ GetVasNo(t, ip) > 0 => ip \in Ips /\ GetVasNo(t, ip) \in VasNos
<1>1. CASE ip = NoIp
  BY <1>1 DEF GetVasNo
<1>2. CASE ip # NoIp
  <2>1. ip \in Ips /\ t[ip] \in Int /\ (t[ip] = -1 \/ t[ip] > 0) /\ GetVasNo(t, ip) = t[ip]
    BY <1>2, RangeAssumption DEF GetVasNo
  <2>2. t[ip] > 0 => t[ip] \in VasNos
    BY <2>1 DEF VasNos
  <2> QED BY <2>1, <2>2
<1> QED BY <1>1, <1>2

\* What both lookups of an event agree on.
LEMMA BothLookups ==
  ASSUME vasRange \in Tables, vasRange' \in Tables, NEW ip \in Ips \cup {NoIp}
  PROVE  /\ InCharge(ip) \in VasNos \cup {-1}
         /\ InCharge(ip) > 0 => /\ GetVasNo(vasRange, ip) = InCharge(ip)
                               /\ GetVasNo(vasRange', ip) = InCharge(ip)
<1>1. GetVasNo(vasRange, ip) = -1 \/ GetVasNo(vasRange, ip) \in VasNos
  BY VasNumbers
<1> QED BY <1>1 DEF InCharge

\* A message is made exactly when the second lookup finds a VAS server in charge.
LEMMA Messages ==
  ASSUME vasRange' \in Tables,
         NEW c \in CallIds, NEW ifv \in INFO_FOR_VAS, NEW type \in {"S", "E"},
         NEW n, n = GetVasNo(vasRange', ifv.cAgentIp)
  PROVE  /\ ScsEvent(c, ifv, type) \in PKT_SCS_EVT_MSG \cup {NoMsg}
         /\ n <= 0 => ScsEvent(c, ifv, type) = NoMsg
         /\ n > 0 => /\ ScsEvent(c, ifv, type) \in PKT_SCS_EVT_MSG
                     /\ ScsEvent(c, ifv, type) # NoMsg
                     /\ ScsEvent(c, ifv, type) = Message(c, ifv, type, n)
<1>1. ifv.cAgentIp \in Ips \cup {NoIp} /\ ifv.cCID \in {"var3", "called"} /\ ifv.cCallkey \in 1 .. MaxCalls
  BY DEF INFO_FOR_VAS
<1>2. CASE n = -1
  BY <1>2 DEF ScsEvent
<1>3. CASE n > 0
  <2>1. ScsEvent(c, ifv, type) = Message(c, ifv, type, n)
    BY <1>3 DEF ScsEvent
  <2>2. n \in VasNos /\ ifv.cAgentIp \in Ips
    BY <1>1, <1>3, VasNumbers
  <2>3. Message(c, ifv, type, n) \in PKT_SCS_EVT_MSG
    BY <1>1, <2>2 DEF PKT_SCS_EVT_MSG, Message
  <2> QED BY <1>3, <1>1, VasNumbers, <2>1, <2>3, NoneAssumption
<1> QED BY <1>1, <1>2, <1>3, VasNumbers

\* The message depends on the caller, the key and the agent of the record only.
LEMMA SameMessage ==
  ASSUME NEW c, NEW type, NEW r, NEW s, NEW n,
         r.cCID = s.cCID, r.cCallkey = s.cCallkey, r.cAgentIp = s.cAgentIp
  PROVE  /\ Message(c, r, type, n) = Message(c, s, type, n)
         /\ ScsEvent(c, r, type) = ScsEvent(c, s, type)
  BY DEF ScsEvent, Message

\* What the merge of an RTP_STARTED event keeps and changes.
LEMMA Merged ==
  ASSUME NEW ifv \in INFO_FOR_VAS, NEW dir \in {0, 1}, NEW ip \in Ips \cup {NoIp},
         NEW r, r = MergeRtpStarted(ifv, dir, ip)
  PROVE  /\ r \in INFO_FOR_VAS
         /\ r.cCID = ifv.cCID
         /\ r.cCallkey = ifv.cCallkey
         /\ r.nInboundCall = ifv.nInboundCall
         /\ r.nTwoRtpStarted >= 1
         /\ dir = 0 => r.cAgentIp = ip
         /\ dir = 1 => r.cAgentIp = ifv.cAgentIp
         /\ dir = 0 /\ ifv.nInboundCall = 1 => r.nInitialCallEstablished = 0
         /\ dir = 1 \/ ifv.nInboundCall = 0
              => r.nInitialCallEstablished = ifv.nInitialCallEstablished
<1>1. CASE dir = 1
  BY <1>1 DEF MergeRtpStarted, INFO_FOR_VAS
<1> DEFINE counted == [ifv EXCEPT !.nTwoRtpStarted = @ + 1]
<1>a. /\ counted \in INFO_FOR_VAS
      /\ counted.cCID = ifv.cCID /\ counted.cCallkey = ifv.cCallkey
      /\ counted.nInboundCall = ifv.nInboundCall /\ counted.nTwoRtpStarted >= 1
      /\ counted.nInitialCallEstablished = ifv.nInitialCallEstablished
  BY DEF INFO_FOR_VAS
<1>2. CASE dir = 0 /\ ifv.nInboundCall = 1
  <2>1. r = [counted EXCEPT !.cAgentIp = ip, !.nTwoRtpStopped = 0, !.nInitialCallEstablished = 0]
    BY <1>2 DEF MergeRtpStarted
  <2> HIDE DEF counted
  <2>2. r \in INFO_FOR_VAS
    <3> DEFINE named == [counted EXCEPT !.cAgentIp = ip]
    <3> DEFINE fresh == [named EXCEPT !.nTwoRtpStopped = 0]
    <3>1. named \in INFO_FOR_VAS
      BY <1>a DEF INFO_FOR_VAS
    <3>2. fresh \in INFO_FOR_VAS
      <4> HIDE DEF named
      <4> QED BY <3>1 DEF INFO_FOR_VAS
    <3>3. r = [fresh EXCEPT !.nInitialCallEstablished = 0]
      BY <2>1
    <3> HIDE DEF fresh
    <3> QED BY <3>2, <3>3 DEF INFO_FOR_VAS
  <2>3. /\ r.cCID = counted.cCID /\ r.cCallkey = counted.cCallkey
        /\ r.nInboundCall = counted.nInboundCall /\ r.nTwoRtpStarted = counted.nTwoRtpStarted
        /\ r.cAgentIp = ip /\ r.nInitialCallEstablished = 0
    BY <1>a, <2>1 DEF INFO_FOR_VAS
  <2> QED BY <1>a, <1>2, <2>2, <2>3
<1>3. CASE dir = 0 /\ ifv.nInboundCall = 0
  <2>1. r = [counted EXCEPT !.cAgentIp = ip]
    BY <1>3 DEF MergeRtpStarted
  <2> HIDE DEF counted
  <2> QED BY <1>a, <1>3, <2>1 DEF INFO_FOR_VAS
<1> QED BY <1>1, <1>2, <1>3 DEF INFO_FOR_VAS

\* The effect of the end of a handler on the handler's state.
LEMMA Updated ==
  ASSUME TypeOK, NEW c \in CallIds, NEW r \in INFO_FOR_VAS \cup {NoRecord},
         NEW m \in PKT_SCS_EVT_MSG \cup {NoMsg}, Update(c, r, m)
  PROVE  /\ m_mapCDR' \in [CallIds -> INFO_FOR_VAS \cup {NoRecord}]
         /\ opened' \in [CallIds -> PKT_SCS_EVT_MSG \cup {NoMsg}]
         /\ msg' \in PKT_SCS_EVT_MSG \cup {NoMsg}
         /\ msg' = m
         /\ m_mapCDR'[c] = r
         /\ opened'[c] = IF m # NoMsg /\ m.type = "S" THEN m ELSE opened[c]
         /\ \A d \in CallIds \ {c} : m_mapCDR'[d] = m_mapCDR[d] /\ opened'[d] = opened[d]
<1>1. /\ m_mapCDR' \in [CallIds -> INFO_FOR_VAS \cup {NoRecord}]
      /\ m_mapCDR'[c] = r
      /\ \A d \in CallIds \ {c} : m_mapCDR'[d] = m_mapCDR[d]
  BY DEF Update, TypeOK
<1>2. /\ opened' \in [CallIds -> PKT_SCS_EVT_MSG \cup {NoMsg}]
      /\ opened'[c] = IF m # NoMsg /\ m.type = "S" THEN m ELSE opened[c]
      /\ \A d \in CallIds \ {c} : opened'[d] = opened[d]
  BY DEF Update, TypeOK
<1> QED BY <1>1, <1>2 DEF Update

-----------------------------------------------------------------------------
(* The handlers.  Each lemma says what a handler does to the record of its    *)
(* call, to the last start and to the message.                                *)

\* A handler keeps types and touches one call only.
Kept(c) ==
  /\ m_mapCDR' \in [CallIds -> INFO_FOR_VAS \cup {NoRecord}]
  /\ opened' \in [CallIds -> PKT_SCS_EVT_MSG \cup {NoMsg}]
  /\ msg' \in PKT_SCS_EVT_MSG \cup {NoMsg}
  /\ \A d \in CallIds \ {c} : m_mapCDR'[d] = m_mapCDR[d] /\ opened'[d] = opened[d]

\* The record and the last start stay, and no message is sent.
Silent(c) == m_mapCDR'[c] = m_mapCDR[c] /\ opened'[c] = opened[c] /\ msg' = NoMsg

\* The record is replaced, and a start, an end or nothing is sent; a start or an
\* end may still be discarded.
Starts(c) == /\ msg' = ScsEvent(c, m_mapCDR'[c], "S")
             /\ opened'[c] = IF msg' = NoMsg THEN opened[c] ELSE msg'
Ends(c)   == msg' = ScsEvent(c, m_mapCDR'[c], "E") /\ opened'[c] = opened[c]
Mute(c)   == msg' = NoMsg /\ opened'[c] = opened[c]

\* The table is one of the possible ones, and the server in charge changes for one
\* call only.
RangesKept(c) ==
  /\ vasRange' \in Tables
  /\ inCharge' \in [CallIds -> VasNos \cup {-1}]
  /\ \A d \in CallIds \ {c} : inCharge'[d] = inCharge[d]

\* Fields of the record that no event changes.
KeepsCall(r, s) == s.cCallkey = r.cCallkey /\ s.nInboundCall = r.nInboundCall

LEMMA NoUpdateEffect ==
  ASSUME TypeOK, NEW c \in CallIds, NoUpdate
  PROVE  Kept(c) /\ Silent(c)
  BY DEF TypeOK, NoUpdate, Kept, Silent

LEMMA UpdateEffect ==
  ASSUME TypeOK, NEW c \in CallIds, NEW r \in INFO_FOR_VAS, NEW m, Update(c, r, m),
         m \in PKT_SCS_EVT_MSG \cup {NoMsg}
  PROVE  /\ Kept(c)
         /\ m_mapCDR'[c] = r
         /\ r # NoRecord
         /\ m = NoMsg => Mute(c)
  BY Updated, NoneAssumption DEF Kept, Mute

LEMMA StartEffect ==
  ASSUME TypeOK, vasRange' \in Tables, NEW c \in CallIds, NEW r \in INFO_FOR_VAS, NEW m,
         Update(c, r, m), m = ScsEvent(c, r, "S")
  PROVE  Kept(c) /\ m_mapCDR'[c] = r /\ Starts(c)
<1>1. m \in PKT_SCS_EVT_MSG \cup {NoMsg} /\ (m # NoMsg => m.type = "S")
  <2>1. r.cAgentIp \in Ips \cup {NoIp}
    BY DEF INFO_FOR_VAS
  <2> QED BY <2>1, Messages, VasNumbers DEF Message
<1>2. msg' = m /\ m_mapCDR'[c] = r /\ opened'[c] = IF m = NoMsg THEN opened[c] ELSE m
  BY <1>1, Updated
<1> QED BY <1>1, <1>2, UpdateEffect DEF Starts

LEMMA EndEffect ==
  ASSUME TypeOK, vasRange' \in Tables, NEW c \in CallIds, NEW r \in INFO_FOR_VAS, NEW m,
         Update(c, r, m), m = ScsEvent(c, r, "E")
  PROVE  Kept(c) /\ m_mapCDR'[c] = r /\ Ends(c)
<1>1. m \in PKT_SCS_EVT_MSG \cup {NoMsg} /\ (m # NoMsg => m.type = "E")
  <2>1. r.cAgentIp \in Ips \cup {NoIp}
    BY DEF INFO_FOR_VAS
  <2> QED BY <2>1, Messages, VasNumbers DEF Message
<1>2. msg' = m /\ m_mapCDR'[c] = r /\ opened'[c] = opened[c]
  BY <1>1, Updated
<1> QED BY <1>1, <1>2, UpdateEffect DEF Ends

\* BEGIN_CALL makes a record without an agent, unless there is one.
LEMMA BeginEffect ==
  ASSUME TypeOK, NEW c \in CallIds, NEW key \in 1 .. MaxCalls, NEW out \in BOOLEAN,
         OnBeginCallEvent(c, key, out)
  PROVE  /\ Kept(c)
         /\ Known(c) => Silent(c)
         /\ ~Known(c) =>
              LET s == m_mapCDR'[c] IN
              /\ s # NoRecord
              /\ s.cCallkey = key
              /\ s.nInboundCall = (IF out THEN 0 ELSE 1)
              /\ s.nInitialCallEstablished = (IF out THEN 1 ELSE 0)
              /\ s.cAgentIp = NoIp
              /\ Mute(c)
<1>1. CASE Known(c)
  BY <1>1, NoUpdateEffect DEF OnBeginCallEvent, Known
<1>2. CASE ~Known(c)
  <2> DEFINE r == [cCID |-> "var3", cCallkey |-> key, cAgentIp |-> NoIp,
                   nTwoRtpStarted |-> 0, nTwoRtpStopped |-> 0,
                   nInboundCall |-> IF out THEN 0 ELSE 1,
                   nInitialCallEstablished |-> IF out THEN 1 ELSE 0]
  <2>1. r \in INFO_FOR_VAS
    BY DEF INFO_FOR_VAS
  <2>2. Update(c, r, NoMsg)
    BY <1>2 DEF OnBeginCallEvent, Known
  <2>3. Kept(c) /\ m_mapCDR'[c] = r /\ r # NoRecord /\ Mute(c)
    <3> HIDE DEF r
    <3> QED BY <2>1, <2>2, UpdateEffect
  <2> QED BY <1>2, <2>3
<1> QED BY <1>1, <1>2

\* CALL_ESTABLISHED is noted in the record of an outbound call, and announces an
\* agent that is known by then.
LEMMA EstablishedEffect ==
  ASSUME TypeOK, vasRange' \in Tables, NEW c \in CallIds, OnCallEstablishedEvent(c)
  PROVE  LET r == m_mapCDR[c]
             s == m_mapCDR'[c]
         IN  /\ Kept(c)
             /\ ~Known(c) \/ r.nInboundCall = 1 => Silent(c)
             /\ Known(c) /\ r.nInboundCall = 0 =>
                  /\ s # NoRecord
                  /\ KeepsCall(r, s)
                  /\ s.cAgentIp = r.cAgentIp
                  /\ s.nInitialCallEstablished = 0
                  /\ IF GetVasNo(vasRange, r.cAgentIp) > 0 THEN Starts(c) ELSE Mute(c)
<1> DEFINE r == m_mapCDR[c]
           answered == [r EXCEPT !.nInitialCallEstablished = 0]
           named == [answered EXCEPT !.cCID = "called"]
<1>1. CASE ~Known(c) \/ r.nInboundCall = 1
  BY <1>1, NoUpdateEffect DEF OnCallEstablishedEvent, Known
<1>2. CASE Known(c) /\ r.nInboundCall # 1
  <2>1. r \in INFO_FOR_VAS /\ r.nInboundCall = 0
    <3>1. r \in INFO_FOR_VAS
      BY <1>2 DEF TypeOK, Known
    <3> QED BY <1>2, <3>1 DEF INFO_FOR_VAS
  <2>2. /\ answered \in INFO_FOR_VAS
        /\ KeepsCall(r, answered) /\ answered.cAgentIp = r.cAgentIp
        /\ answered.nInitialCallEstablished = 0
    BY <2>1 DEF INFO_FOR_VAS, KeepsCall
  <2>3. /\ named \in INFO_FOR_VAS
        /\ KeepsCall(answered, named) /\ named.cAgentIp = answered.cAgentIp
        /\ named.nInitialCallEstablished = answered.nInitialCallEstablished
    <3> HIDE DEF answered
    <3> QED BY <2>2 DEF INFO_FOR_VAS, KeepsCall
  <2>4. CASE GetVasNo(vasRange, r.cAgentIp) > 0
    <3>1. Update(c, named, ScsEvent(c, named, "S"))
      BY <1>2, <2>4 DEF OnCallEstablishedEvent, Known
    <3> HIDE DEF answered, named
    <3>2. Kept(c) /\ m_mapCDR'[c] = named /\ Starts(c)
      BY <2>2, <2>3, <2>4, <3>1, StartEffect
    <3> QED BY <1>2, <2>2, <2>3, <2>4, <3>2, NoneAssumption DEF KeepsCall
  <2>5. CASE ~(GetVasNo(vasRange, r.cAgentIp) > 0)
    <3>1. Update(c, answered, NoMsg)
      BY <1>2, <2>5 DEF OnCallEstablishedEvent, Known
    <3> HIDE DEF answered
    <3>2. Kept(c) /\ m_mapCDR'[c] = answered /\ answered # NoRecord /\ Mute(c)
      BY <2>2, <3>1, UpdateEffect
    <3> QED BY <1>2, <2>2, <2>5, <3>2
  <2> QED BY <2>4, <2>5
<1> QED BY <1>1, <1>2

\* RTP_STARTED names the agent of direction 0, and announces it unless the call
\* waits for its answer.
LEMMA StartedEffect ==
  ASSUME TypeOK, vasRange' \in Tables, NEW c \in CallIds, NEW dir \in {0, 1},
         NEW ip \in Ips \cup {NoIp}, OnRTPStartedEvent(c, dir, ip)
  PROVE  LET r == m_mapCDR[c]
             s == m_mapCDR'[c]
         IN  /\ Kept(c)
             /\ ~Known(c) => Silent(c)
             /\ Known(c) =>
                  /\ s # NoRecord
                  /\ KeepsCall(r, s)
                  /\ s.cCID = r.cCID
                  /\ dir = 0 => s.cAgentIp = ip
                  /\ dir = 1 => s.cAgentIp = r.cAgentIp
                  /\ dir = 0 /\ r.nInboundCall = 1 => s.nInitialCallEstablished = 0
                  /\ dir = 1 \/ r.nInboundCall = 0
                       => s.nInitialCallEstablished = r.nInitialCallEstablished
                  /\ IF /\ dir = 0
                        /\ r.nInboundCall = 1 \/ r.nInitialCallEstablished = 0
                        /\ GetVasNo(vasRange, ip) > 0
                       THEN Starts(c) ELSE Mute(c)
<1>1. CASE ~Known(c)
  BY <1>1, NoUpdateEffect DEF OnRTPStartedEvent, Known
<1>2. CASE Known(c)
  <2> DEFINE r == m_mapCDR[c]
             ifv == MergeRtpStarted(r, dir, ip)
             szIp == IF dir = 0 THEN ip ELSE NoIp
             start == /\ ifv.nInboundCall = 1 \/ ifv.nInitialCallEstablished = 0
                      /\ ifv.nTwoRtpStarted >= 1
                      /\ GetVasNo(vasRange, szIp) > 0
             sent == [ifv EXCEPT !.nTwoRtpStarted = 0]
  <2>1. r \in INFO_FOR_VAS
    BY <1>2 DEF TypeOK, Known
  <2>2. IF start THEN Update(c, sent, ScsEvent(c, ifv, "S")) ELSE Update(c, ifv, NoMsg)
    BY <1>2 DEF OnRTPStartedEvent, Known
  <2>3. /\ ifv \in INFO_FOR_VAS
        /\ ifv.cCID = r.cCID /\ KeepsCall(r, ifv) /\ ifv.nTwoRtpStarted >= 1
        /\ dir = 0 => ifv.cAgentIp = ip
        /\ dir = 1 => ifv.cAgentIp = r.cAgentIp
        /\ dir = 0 /\ r.nInboundCall = 1 => ifv.nInitialCallEstablished = 0
        /\ dir = 1 \/ r.nInboundCall = 0
             => ifv.nInitialCallEstablished = r.nInitialCallEstablished
    BY <2>1, Merged DEF KeepsCall
  <2>4. start <=> /\ dir = 0
                  /\ r.nInboundCall = 1 \/ r.nInitialCallEstablished = 0
                  /\ GetVasNo(vasRange, ip) > 0
    <3>1. GetVasNo(vasRange, NoIp) = -1 /\ r.nInboundCall \in {0, 1}
      BY <2>1 DEF GetVasNo, INFO_FOR_VAS
    <3> HIDE DEF ifv
    <3> QED BY <2>3, <3>1 DEF KeepsCall
  <2>5. CASE start
    <3>1. /\ sent \in INFO_FOR_VAS /\ KeepsCall(ifv, sent)
          /\ sent.cCID = ifv.cCID /\ sent.cAgentIp = ifv.cAgentIp
          /\ sent.nInitialCallEstablished = ifv.nInitialCallEstablished
      <4> HIDE DEF ifv
      <4> QED BY <2>3 DEF INFO_FOR_VAS, KeepsCall
    <3>2. ScsEvent(c, ifv, "S") = ScsEvent(c, sent, "S")
      <4> HIDE DEF ifv, sent
      <4> QED BY <3>1, SameMessage DEF KeepsCall
    <3>3. Update(c, sent, ScsEvent(c, sent, "S"))
      BY <2>2, <2>5, <3>2
    <3>4. Kept(c) /\ m_mapCDR'[c] = sent /\ Starts(c)
      <4> HIDE DEF ifv, sent
      <4> QED BY <2>3, <2>4, <2>5, <3>1, <3>3, StartEffect
    <3> HIDE DEF ifv, sent
    <3> QED BY <1>2, <2>3, <2>4, <2>5, <3>1, <3>4, NoneAssumption DEF KeepsCall
  <2>6. CASE ~start
    <3>1. Update(c, ifv, NoMsg)
      BY <2>2, <2>6
    <3> HIDE DEF ifv
    <3>2. Kept(c) /\ m_mapCDR'[c] = ifv /\ ifv # NoRecord /\ Mute(c)
      BY <2>3, <3>1, UpdateEffect
    <3> QED BY <1>2, <2>3, <2>4, <2>6, <3>2
  <2> QED BY <2>5, <2>6
<1> QED BY <1>1, <1>2

\* RTP_STOPPED sends an end for an address in a VAS server's range.
LEMMA StoppedEffect ==
  ASSUME TypeOK, vasRange' \in Tables, NEW c \in CallIds, NEW ip \in Ips \cup {NoIp},
         OnRTPStoppedEvent(c, ip)
  PROVE  LET r == m_mapCDR[c]
             s == m_mapCDR'[c]
         IN  /\ Kept(c)
             /\ ~Known(c) => Silent(c)
             /\ Known(c) =>
                  /\ s \in INFO_FOR_VAS
                  /\ s # NoRecord
                  /\ KeepsCall(r, s)
                  /\ s.cCID = r.cCID
                  /\ s.cAgentIp = r.cAgentIp
                  /\ s.nInitialCallEstablished = r.nInitialCallEstablished
                  /\ IF GetVasNo(vasRange, ip) > 0 THEN Ends(c) ELSE Mute(c)
<1>1. CASE ~Known(c)
  BY <1>1, NoUpdateEffect DEF OnRTPStoppedEvent, Known
<1>2. CASE Known(c)
  <2> DEFINE r == m_mapCDR[c]
             ifv == [r EXCEPT !.nTwoRtpStopped = @ + 1]
             sent == [ifv EXCEPT !.nTwoRtpStopped = 0]
  <2>1. r \in INFO_FOR_VAS
    BY <1>2 DEF TypeOK, Known
  <2>2. /\ ifv \in INFO_FOR_VAS /\ KeepsCall(r, ifv) /\ ifv.nTwoRtpStopped >= 1
        /\ ifv.cCID = r.cCID /\ ifv.cAgentIp = r.cAgentIp
        /\ ifv.nInitialCallEstablished = r.nInitialCallEstablished
    BY <2>1 DEF INFO_FOR_VAS, KeepsCall
  <2>3. CASE GetVasNo(vasRange, ip) > 0
    <3>1. Update(c, sent, ScsEvent(c, ifv, "E"))
      BY <1>2, <2>2, <2>3 DEF OnRTPStoppedEvent, Known
    <3>2. /\ sent \in INFO_FOR_VAS /\ KeepsCall(ifv, sent)
          /\ sent.cCID = ifv.cCID /\ sent.cAgentIp = ifv.cAgentIp
          /\ sent.nInitialCallEstablished = ifv.nInitialCallEstablished
      <4> HIDE DEF ifv
      <4> QED BY <2>2 DEF INFO_FOR_VAS, KeepsCall
    <3> HIDE DEF ifv, sent
    <3>3. ScsEvent(c, ifv, "E") = ScsEvent(c, sent, "E")
      BY <3>2, SameMessage DEF KeepsCall
    <3>4. Kept(c) /\ m_mapCDR'[c] = sent /\ Ends(c)
      BY <3>1, <3>2, <3>3, EndEffect
    <3> QED BY <1>2, <2>2, <2>3, <3>2, <3>4, NoneAssumption DEF KeepsCall
  <2>4. CASE ~(GetVasNo(vasRange, ip) > 0)
    <3>1. Update(c, ifv, NoMsg)
      BY <1>2, <2>4 DEF OnRTPStoppedEvent, Known
    <3> HIDE DEF ifv
    <3>2. Kept(c) /\ m_mapCDR'[c] = ifv /\ ifv # NoRecord /\ Mute(c)
      BY <2>2, <3>1, UpdateEffect
    <3> QED BY <1>2, <2>2, <2>4, <3>2
  <2> QED BY <2>3, <2>4
<1> QED BY <1>1, <1>2

\* CALL_CLEARED erases the record.
LEMMA ClearedEffect ==
  ASSUME TypeOK, NEW c \in CallIds, OnCallClearedEvent(c)
  PROVE  Kept(c) /\ m_mapCDR'[c] = NoRecord /\ msg' = NoMsg
  BY DEF TypeOK, OnCallClearedEvent, Kept

-----------------------------------------------------------------------------
(* The calls.  Each lemma says what an event at the CTI server does to the    *)
(* state of its call.                                                         *)

\* The part of TypeOK that is not the handler's.
CallsOK ==
  /\ call \in [CallIds -> 0 .. MaxCalls]
  /\ outbound \in [CallIds -> BOOLEAN]
  /\ established \in [CallIds -> BOOLEAN]
  /\ talk \in [CallIds -> SUBSET (Ips \cup {NoIp})]
  /\ rtpEvents \in [CallIds -> 0 .. MaxRtp]
  /\ nCalls \in 0 .. MaxCalls
  /\ nLost \in 0 .. MaxLost
  /\ lostClear \in [CallIds -> BOOLEAN]
  /\ lostRtp \in [CallIds -> BOOLEAN]
  /\ overlap \in [CallIds -> BOOLEAN]
  /\ earlyStop \in [CallIds -> BOOLEAN]
  /\ stopped \in Ips \cup {NoIp}

LEMMA TypeParts ==
  ASSUME NEW c \in CallIds, Kept(c), RangesKept(c), CallsOK'
  PROVE  TypeOK'
  BY Zenon DEF TypeOK, CallsOK, Kept, RangesKept

\* All that the properties of call d refer to, besides the handler's state.
SameCall(d) ==
  /\ call'[d] = call[d] /\ outbound'[d] = outbound[d] /\ established'[d] = established[d]
  /\ talk'[d] = talk[d] /\ lostClear'[d] = lostClear[d] /\ lostRtp'[d] = lostRtp[d]
  /\ overlap'[d] = overlap[d] /\ earlyStop'[d] = earlyStop[d]

\* The event keeps types and touches one call only.
CallKept(c) == CallsOK' /\ \A d \in CallIds \ {c} : SameCall(d)

LEMMA Except ==
  ASSUME NEW S, NEW T, NEW f \in [S -> T], NEW x \in S, NEW v \in T
  PROVE  /\ [f EXCEPT ![x] = v] \in [S -> T]
         /\ [f EXCEPT ![x] = v][x] = v
         /\ \A y \in S \ {x} : [f EXCEPT ![x] = v][y] = f[y]
  BY Zenon

LEMMA LoseEffect ==
  ASSUME TypeOK, Lose \/ UNCHANGED nLost
  PROVE  nLost' \in 0 .. MaxLost
  BY BoundAssumption DEF TypeOK, Lose

LEMMA BeginCallEffect ==
  ASSUME TypeOK, NEW c \in CallIds, NEW out \in BOOLEAN, Begin(c, out), Lose \/ UNCHANGED nLost
  PROVE  /\ CallKept(c)
         /\ nCalls + 1 \in 1 .. MaxCalls
         /\ call[c] = 0 /\ call'[c] = nCalls + 1 /\ outbound'[c] = out
         /\ ~established'[c] /\ talk'[c] = {} /\ lostClear' = lostClear
<1>1. nCalls + 1 \in 1 .. MaxCalls /\ nCalls' \in 0 .. MaxCalls
  BY BoundAssumption DEF TypeOK, Begin
<1>2. /\ call' \in [CallIds -> 0 .. MaxCalls] /\ call'[c] = nCalls + 1
      /\ \A d \in CallIds \ {c} : call'[d] = call[d]
  BY <1>1 DEF TypeOK, Begin
<1>3. /\ outbound' \in [CallIds -> BOOLEAN] /\ outbound'[c] = out
      /\ \A d \in CallIds \ {c} : outbound'[d] = outbound[d]
  BY Except, Zenon DEF TypeOK, Begin
<1>4. /\ established' \in [CallIds -> BOOLEAN] /\ ~established'[c]
      /\ \A d \in CallIds \ {c} : established'[d] = established[d]
  BY Except, Zenon DEF TypeOK, Begin
<1>5. /\ talk' \in [CallIds -> SUBSET (Ips \cup {NoIp})] /\ talk'[c] = {}
      /\ \A d \in CallIds \ {c} : talk'[d] = talk[d]
  BY DEF TypeOK, Begin
<1>6. rtpEvents' \in [CallIds -> 0 .. MaxRtp]
  BY BoundAssumption DEF TypeOK, Begin
<1>7. /\ lostRtp' \in [CallIds -> BOOLEAN] /\ overlap' \in [CallIds -> BOOLEAN]
      /\ earlyStop' \in [CallIds -> BOOLEAN]
      /\ \A d \in CallIds \ {c} :
           lostRtp'[d] = lostRtp[d] /\ overlap'[d] = overlap[d] /\ earlyStop'[d] = earlyStop[d]
  BY Except, Zenon DEF TypeOK, Begin
<1>8. lostClear' = lostClear /\ lostClear \in [CallIds -> BOOLEAN] /\ stopped' = NoIp /\ call[c] = 0
  BY Zenon DEF TypeOK, Begin
<1> QED BY <1>1, <1>2, <1>3, <1>4, <1>5, <1>6, <1>7, <1>8, LoseEffect, Zenon
        DEF CallKept, CallsOK, SameCall

LEMMA EstablishEffect ==
  ASSUME TypeOK, NEW c \in CallIds, Establish(c), Lose \/ UNCHANGED nLost
  PROVE  /\ CallKept(c)
         /\ ~established[c] /\ established'[c]
         /\ UNCHANGED <<call, outbound, talk, lostClear, lostRtp, overlap, earlyStop>>
<1>1. /\ established' \in [CallIds -> BOOLEAN] /\ established'[c] /\ ~established[c]
      /\ \A d \in CallIds \ {c} : established'[d] = established[d]
  BY Except, Zenon DEF TypeOK, Establish
<1>2. UNCHANGED <<call, outbound, talk, rtpEvents, nCalls, lostClear, lostRtp, overlap, earlyStop>>
  BY Zenon DEF Establish, history
<1> QED BY <1>1, <1>2, LoseEffect, Zenon DEF TypeOK, Establish, CallKept, CallsOK, SameCall

LEMMA StartRtpEffect ==
  ASSUME TypeOK, NEW c \in CallIds, NEW dir \in {0, 1}, NEW ip \in Ips \cup {NoIp},
         StartRtp(c, dir, ip), Lose \/ UNCHANGED nLost,
         lostRtp' = lostRtp \/ lostRtp' = [lostRtp EXCEPT ![c] = TRUE]
  PROVE  /\ CallKept(c)
         /\ UNCHANGED <<call, outbound, established, lostClear, earlyStop>>
         /\ dir = 0 => talk'[c] = talk[c] \cup {ip}
         /\ dir = 1 => talk'[c] = talk[c]
         /\ ~overlap'[c] => ~overlap[c] /\ (dir = 0 => talk[c] = {})
         /\ ~lostRtp'[c] => ~lostRtp[c]
<1>1. UNCHANGED <<call, outbound, established, nCalls, lostClear, earlyStop>> /\ stopped' = NoIp
  BY Zenon DEF StartRtp
<1>2. rtpEvents' \in [CallIds -> 0 .. MaxRtp]
  BY BoundAssumption DEF TypeOK, StartRtp
<1>3. /\ talk' \in [CallIds -> SUBSET (Ips \cup {NoIp})]
      /\ \A d \in CallIds \ {c} : talk'[d] = talk[d]
      /\ dir = 0 => talk'[c] = talk[c] \cup {ip}
      /\ dir = 1 => talk'[c] = talk[c]
  BY DEF TypeOK, StartRtp
<1>4. /\ overlap' \in [CallIds -> BOOLEAN]
      /\ \A d \in CallIds \ {c} : overlap'[d] = overlap[d]
      /\ overlap'[c] <=> overlap[c] \/ (dir = 0 /\ talk[c] # {})
  BY Zenon DEF TypeOK, StartRtp
<1>5. /\ lostRtp' \in [CallIds -> BOOLEAN]
      /\ \A d \in CallIds \ {c} : lostRtp'[d] = lostRtp[d]
      /\ ~lostRtp'[c] => ~lostRtp[c]
  <2>1. CASE lostRtp' = lostRtp
    BY <2>1, Zenon DEF TypeOK
  <2>2. CASE lostRtp' = [lostRtp EXCEPT ![c] = TRUE]
    BY <2>2, Except, Zenon DEF TypeOK
  <2> QED BY <2>1, <2>2
<1> QED BY <1>1, <1>2, <1>3, <1>4, <1>5, LoseEffect, Zenon DEF TypeOK, CallKept, CallsOK, SameCall

LEMMA StopRtpEffect ==
  ASSUME TypeOK, NEW c \in CallIds, NEW dir \in {0, 1}, NEW ip \in Ips \cup {NoIp},
         StopRtp(c, dir, ip), Lose \/ UNCHANGED nLost
  PROVE  /\ CallKept(c)
         /\ UNCHANGED <<call, outbound, established, lostClear, lostRtp, overlap>>
         /\ dir = 0 => ip \in talk[c] /\ talk'[c] = talk[c] \ {ip} /\ stopped' = ip
         /\ dir = 1 => talk'[c] = talk[c] /\ stopped' = NoIp
         /\ ~earlyStop'[c] => ~earlyStop[c] /\ (dir = 0 => established[c])
<1>1. UNCHANGED <<call, outbound, established, nCalls, lostClear, lostRtp, overlap>>
  BY Zenon DEF StopRtp
<1>2. rtpEvents' \in [CallIds -> 0 .. MaxRtp]
  BY BoundAssumption DEF TypeOK, StopRtp
<1>3. /\ talk' \in [CallIds -> SUBSET (Ips \cup {NoIp})]
      /\ \A d \in CallIds \ {c} : talk'[d] = talk[d]
      /\ dir = 0 => ip \in talk[c] /\ talk'[c] = talk[c] \ {ip} /\ stopped' = ip
      /\ dir = 1 => talk'[c] = talk[c] /\ stopped' = NoIp
  BY DEF TypeOK, StopRtp
<1>4. /\ earlyStop' \in [CallIds -> BOOLEAN]
      /\ \A d \in CallIds \ {c} : earlyStop'[d] = earlyStop[d]
      /\ earlyStop'[c] <=> earlyStop[c] \/ (dir = 0 /\ ~established[c])
  BY Zenon DEF TypeOK, StopRtp
<1> QED BY <1>1, <1>2, <1>3, <1>4, LoseEffect, Zenon DEF TypeOK, CallKept, CallsOK, SameCall

LEMMA ClearEffect ==
  ASSUME TypeOK, NEW c \in CallIds, Clear(c), Lose \/ UNCHANGED nLost,
         NEW b \in BOOLEAN, lostClear' = [lostClear EXCEPT ![c] = b]
  PROVE  /\ CallKept(c)
         /\ lostClear'[c] = b
         /\ UNCHANGED <<talk, lostRtp, overlap>>
<1>1. UNCHANGED <<outbound, established, talk, rtpEvents, nCalls, lostRtp, overlap, earlyStop>>
  BY Zenon DEF Clear
<1>2. call' \in [CallIds -> 0 .. MaxCalls] /\ \A d \in CallIds \ {c} : call'[d] = call[d]
  BY BoundAssumption DEF TypeOK, Clear
<1>3. /\ lostClear' \in [CallIds -> BOOLEAN] /\ lostClear'[c] = b
      /\ \A d \in CallIds \ {c} : lostClear'[d] = lostClear[d]
  BY Except, Zenon DEF TypeOK
<1> QED BY <1>1, <1>2, <1>3, LoseEffect, Zenon DEF TypeOK, Clear, CallKept, CallsOK, SameCall

-----------------------------------------------------------------------------
(* The properties *)

\* A step about c leaves the properties of the other ids alone.
LEMMA OtherCalls ==
  ASSUME NEW c \in CallIds, Kept(c), RangesKept(c), CallKept(c), NEW d \in CallIds \ {c},
         RecordOK(d)
  PROVE  RecordOK(d)'
<1>1. /\ m_mapCDR'[d] = m_mapCDR[d] /\ opened'[d] = opened[d] /\ inCharge'[d] = inCharge[d]
      /\ SameCall(d)
  BY Zenon DEF Kept, RangesKept, CallKept
<1> QED BY <1>1, Zenon
        DEF SameCall, RecordOK, Known, Current, Announced, Charged, Answered, Talking, Named

\* Without a message there is nothing to show about it.
LEMMA NoMessage == msg' = NoMsg => MessageOK'
  BY Zenon DEF MessageOK, EndClosesLastStart, NoStartBeforeAnswer, StartWhileTalking,
              EndNamesStoppedAgent

\* The data of a message are those of the record.
LEMMA MessageData ==
  ASSUME vasRange' \in Tables, NEW c \in CallIds, Kept(c), m_mapCDR'[c] # NoRecord,
         NEW type \in {"S", "E"}, msg' = ScsEvent(c, m_mapCDR'[c], type), msg' # NoMsg,
         NEW n, n = GetVasNo(vasRange', m_mapCDR'[c].cAgentIp)
  PROVE  /\ m_mapCDR'[c] \in INFO_FOR_VAS
         /\ n > 0
         /\ msg' = Message(c, m_mapCDR'[c], type, n)
         /\ msg'.type = type /\ msg'.callId = c /\ msg'.cAgentIp = m_mapCDR'[c].cAgentIp
<1>1. m_mapCDR'[c] \in INFO_FOR_VAS
  BY DEF Kept
<1>2. m_mapCDR'[c].cAgentIp \in Ips \cup {NoIp}
  BY <1>1 DEF INFO_FOR_VAS
<1>3. n > 0
  BY <1>1, <1>2, VasNumbers, Messages
<1>4. msg' = Message(c, m_mapCDR'[c], type, n)
  BY <1>1, <1>3, Messages
<1> QED BY <1>1, <1>3, <1>4 DEF Message

\* A start is about an answered call and a running stream.
LEMMA StartMessage ==
  ASSUME vasRange' \in Tables, NEW c \in CallIds, Kept(c), m_mapCDR'[c] # NoRecord, Starts(c),
         outbound'[c] /\ ~lostClear'[c] => established'[c],
         ~lostClear'[c] /\ ~earlyStop'[c] => m_mapCDR'[c].cAgentIp \in talk'[c]
  PROVE  MessageOK'
<1>0. CASE msg' = NoMsg
  BY <1>0, NoMessage
<1>a. CASE msg' # NoMsg
  <2>1. msg'.type = "S" /\ msg'.callId = c /\ msg'.cAgentIp = m_mapCDR'[c].cAgentIp
    BY <1>a, MessageData DEF Starts
  <2>2. EndClosesLastStart' /\ EndNamesStoppedAgent'
    BY <2>1 DEF EndClosesLastStart, EndNamesStoppedAgent
  <2>3. NoStartBeforeAnswer' /\ StartWhileTalking'
    BY <2>1, Zenon DEF NoStartBeforeAnswer, StartWhileTalking
  <2> QED BY <2>2, <2>3 DEF MessageOK
<1> QED BY <1>0, <1>a

\* A start announces the agent to the server that both lookups found.
LEMMA StartAnnounces ==
  ASSUME TypeOK, vasRange' \in Tables, NEW c \in CallIds, Kept(c), m_mapCDR'[c] # NoRecord,
         Starts(c), inCharge'[c] = InCharge(m_mapCDR'[c].cAgentIp)
  PROVE  Announced(c)'
<1> DEFINE s == m_mapCDR'[c]
<1> SUFFICES ASSUME inCharge'[c] > 0
             PROVE  opened'[c] = Message(c, s, "S", inCharge'[c])
  BY Zenon DEF Announced
<1>1. s \in INFO_FOR_VAS
  BY DEF Kept
<1>2. s.cAgentIp \in Ips \cup {NoIp}
  BY <1>1 DEF INFO_FOR_VAS
<1>3. GetVasNo(vasRange', s.cAgentIp) = inCharge'[c]
  BY <1>2, BothLookups DEF TypeOK
<1> HIDE DEF s
<1>4. ScsEvent(c, s, "S") = Message(c, s, "S", inCharge'[c]) /\ ScsEvent(c, s, "S") # NoMsg
  BY <1>1, <1>3, Messages
<1> QED BY <1>4 DEF Starts, s

\* No server is in charge of an agent that the first lookup found none for.
LEMMA NotInCharge ==
  ASSUME vasRange \in Tables, vasRange' \in Tables, NEW ip \in Ips \cup {NoIp},
         ~(GetVasNo(vasRange, ip) > 0)
  PROVE  ~(InCharge(ip) > 0)
  BY BothLookups

\* An end closes what the last start opened, and names the agent that stopped.
LEMMA EndMessage ==
  ASSUME vasRange' \in Tables, NEW c \in CallIds, Kept(c), m_mapCDR'[c] # NoRecord, Ends(c),
         Announced(c)',
         stopped' # NoIp /\ ~overlap'[c] /\ ~lostRtp'[c] => m_mapCDR'[c].cAgentIp = stopped'
  PROVE  MessageOK'
<1>1. CASE msg' = NoMsg
  BY <1>1, NoMessage
<1>2. CASE msg' # NoMsg
  <2> DEFINE s == m_mapCDR'[c]
             n == GetVasNo(vasRange', s.cAgentIp)
  <2>1. /\ s \in INFO_FOR_VAS /\ n > 0 /\ msg' = Message(c, s, "E", n)
        /\ msg'.type = "E" /\ msg'.callId = c /\ msg'.cAgentIp = s.cAgentIp
    BY <1>2, MessageData DEF Ends
  <2>2. NoStartBeforeAnswer' /\ StartWhileTalking'
    BY <2>1 DEF NoStartBeforeAnswer, StartWhileTalking
  <2>3. EndNamesStoppedAgent'
    BY <2>1, Zenon DEF EndNamesStoppedAgent
  <2>4. EndClosesLastStart'
    <3> SUFFICES ASSUME s.nInitialCallEstablished = 0, n = inCharge'[c]
                 PROVE  opened'[c] # NoMsg /\ msg' = [opened'[c] EXCEPT !.type = "E"]
      BY <2>1, Zenon DEF EndClosesLastStart
    <3>1. opened'[c] = Message(c, s, "S", n)
      BY <2>1, Zenon DEF Announced, Known
    <3>2. ScsEvent(c, s, "S") = Message(c, s, "S", n) /\ ScsEvent(c, s, "S") # NoMsg
      <4> HIDE DEF n
      <4>1. n = GetVasNo(vasRange', s.cAgentIp)
        BY DEF n
      <4> HIDE DEF s
      <4> QED BY <2>1, <4>1, Messages
    <3> HIDE DEF s, n
    <3>3. [Message(c, s, "S", n) EXCEPT !.type = "E"] = Message(c, s, "E", n)
      BY DEF Message
    <3> QED BY <2>1, <3>1, <3>2, <3>3
  <2> QED BY <2>2, <2>3, <2>4 DEF MessageOK
<1> QED BY <1>1, <1>2

\* What every step about c establishes.
Good(c) == Kept(c) /\ RangesKept(c) /\ CallKept(c) /\ RecordOK(c)' /\ MessageOK'

\* The table and the servers in charge stay as they are.
LEMMA SameRanges ==
  ASSUME TypeOK, NEW c \in CallIds, UNCHANGED ranges
  PROVE  RangesKept(c) /\ inCharge' = inCharge
  BY Zenon DEF TypeOK, ranges, RangesKept

\* The server in charge changes for the call of the event.
LEMMA NewRanges ==
  ASSUME TypeOK, NEW c \in CallIds, vasRange' \in Tables, NEW n \in VasNos \cup {-1},
         inCharge' = [inCharge EXCEPT ![c] = n]
  PROVE  RangesKept(c) /\ inCharge'[c] = n
  BY Except, Zenon DEF TypeOK, RangesKept

\* A record that outlives its call is there because a CALL_CLEARED event was lost:
\* otherwise its key would be that of a live call.
LEMMA StaleRecord ==
  ASSUME TypeOK, NEW c \in CallIds, RecordOK(c), Known(c), call[c] = 0
  PROVE  lostClear[c]
<1>1. m_mapCDR[c] \in INFO_FOR_VAS
  BY DEF TypeOK, Known
<1>2. m_mapCDR[c].cCallkey # 0
  BY <1>1 DEF INFO_FOR_VAS
<1> QED BY <1>2 DEF RecordOK, Current

LEMMA BeginCallStep ==
  ASSUME TypeOK, NEW c \in CallIds, NEW out \in BOOLEAN, RecordOK(c), BeginCall(c, out)
  PROVE  Good(c)
<1>1. /\ CallKept(c)
      /\ nCalls + 1 \in 1 .. MaxCalls
      /\ call[c] = 0 /\ call'[c] = nCalls + 1 /\ outbound'[c] = out
      /\ ~established'[c] /\ talk'[c] = {} /\ lostClear' = lostClear
  BY BeginCallEffect DEF BeginCall
<1>2. /\ Kept(c)
      /\ Known(c) => Silent(c)
      /\ ~Known(c) =>
           /\ m_mapCDR'[c] # NoRecord
           /\ m_mapCDR'[c].cCallkey = nCalls + 1
           /\ m_mapCDR'[c].nInboundCall = (IF out THEN 0 ELSE 1)
           /\ m_mapCDR'[c].nInitialCallEstablished = (IF out THEN 1 ELSE 0)
           /\ m_mapCDR'[c].cAgentIp = NoIp
           /\ Mute(c)
  BY <1>1, BeginEffect DEF BeginCall
<1>r. RangesKept(c) /\ inCharge' = inCharge
  BY SameRanges DEF BeginCall
<1>3. RecordOK(c)'
  <2>1. CASE Known(c)
    <3>1. lostClear[c]
      BY <1>1, <2>1, StaleRecord
    <3> QED BY <1>1, <1>2, <1>r, <2>1, <3>1, Zenon
            DEF RecordOK, Known, Current, Announced, Charged, Answered, Talking, Named, Silent
  <2>2. CASE ~Known(c)
    <3>1. ~(inCharge'[c] > 0)
      BY <1>r, <2>2, Zenon DEF RecordOK, Charged
    <3> QED BY <1>1, <1>2, <2>2, <3>1
            DEF RecordOK, Known, Current, Announced, Charged, Answered, Talking, Named
  <2> QED BY <2>1, <2>2
<1>4. MessageOK'
  BY <1>2, NoMessage DEF Silent, Mute
<1> QED BY <1>1, <1>2, <1>r, <1>3, <1>4 DEF Good

LEMMA BeginCallLostStep ==
  ASSUME TypeOK, NEW c \in CallIds, NEW out \in BOOLEAN, RecordOK(c), BeginCallLost(c, out)
  PROVE  Good(c)
<1>1. /\ CallKept(c)
      /\ call[c] = 0 /\ talk'[c] = {} /\ lostClear' = lostClear
  BY BeginCallEffect DEF BeginCallLost
<1>2. Kept(c) /\ Silent(c)
  BY NoUpdateEffect DEF BeginCallLost, Lose
<1>r. RangesKept(c) /\ inCharge' = inCharge
  BY SameRanges DEF BeginCallLost, Lose
<1>3. RecordOK(c)'
  <2>1. Known(c) => lostClear[c]
    BY <1>1, StaleRecord
  <2> QED BY <1>1, <1>2, <1>r, <2>1, Zenon
          DEF RecordOK, Known, Current, Announced, Charged, Answered, Talking, Named, Silent
<1>4. MessageOK'
  BY <1>2, NoMessage DEF Silent
<1> QED BY <1>1, <1>2, <1>r, <1>3, <1>4 DEF Good

LEMMA CallEstablishedStep ==
  ASSUME TypeOK, NEW c \in CallIds, RecordOK(c), CallEstablished(c)
  PROVE  Good(c)
<1> DEFINE r == m_mapCDR[c]
           s == m_mapCDR'[c]
<1>1. /\ CallKept(c)
      /\ ~established[c] /\ established'[c]
      /\ UNCHANGED <<call, outbound, talk, lostClear, lostRtp, overlap, earlyStop>>
  BY EstablishEffect DEF CallEstablished
<1>2. /\ Kept(c)
      /\ ~Known(c) \/ r.nInboundCall = 1 => Silent(c)
      /\ Known(c) /\ r.nInboundCall = 0 =>
           /\ s # NoRecord
           /\ KeepsCall(r, s)
           /\ s.cAgentIp = r.cAgentIp
           /\ s.nInitialCallEstablished = 0
           /\ IF GetVasNo(vasRange, r.cAgentIp) > 0 THEN Starts(c) ELSE Mute(c)
  BY EstablishedEffect DEF CallEstablished
<1> DEFINE n == IF ~Known(c) \/ r.nInboundCall = 1 THEN inCharge[c] ELSE InCharge(r.cAgentIp)
<1>r. vasRange' \in Tables /\ RangesKept(c) /\ inCharge'[c] = n
  <2>1. vasRange \in Tables /\ vasRange' \in Tables
    BY DEF TypeOK, CallEstablished
  <2>2. inCharge' = [inCharge EXCEPT ![c] = n]
    BY Zenon DEF CallEstablished, Known
  <2>3. CASE ~Known(c) \/ r.nInboundCall = 1
    <3>1. n \in VasNos \cup {-1}
      BY <2>3, Zenon DEF TypeOK
    <3> HIDE DEF n
    <3> QED BY <2>1, <2>2, <3>1, NewRanges
  <2>4. CASE ~(~Known(c) \/ r.nInboundCall = 1)
    <3>1. r \in INFO_FOR_VAS
      BY <2>4 DEF TypeOK, Known
    <3>2. r.cAgentIp \in Ips \cup {NoIp}
      BY <3>1 DEF INFO_FOR_VAS
    <3>3. n \in VasNos \cup {-1}
      BY <2>1, <2>4, <3>2, BothLookups, Zenon
    <3> HIDE DEF n
    <3> QED BY <2>1, <2>2, <3>3, NewRanges
  <2> QED BY <2>3, <2>4
<1>3. ~Known(c) \/ r.nInboundCall = 1 \/ r.nInboundCall = 0
  <2>1. Known(c) => r \in INFO_FOR_VAS
    BY DEF TypeOK, Known
  <2> QED BY <2>1 DEF INFO_FOR_VAS
<1>4. CASE ~Known(c) \/ r.nInboundCall = 1
  <2>1. RecordOK(c)'
    BY <1>1, <1>2, <1>4, <1>r, Zenon
    DEF RecordOK, Known, Current, Announced, Charged, Answered, Talking, Named, Silent
  <2> QED BY <1>1, <1>2, <1>4, <1>r, <2>1, NoMessage DEF Good, Silent
<1>5. CASE Known(c) /\ r.nInboundCall = 0
  <2>1. RecordOK(c)'
    <3>1. Current(c)' /\ Answered(c)' /\ Talking(c)' /\ Named(c)'
      BY <1>1, <1>2, <1>5, Zenon
      DEF RecordOK, Known, Current, Answered, Talking, Named, KeepsCall
    <3>2. r \in INFO_FOR_VAS
      BY <1>5 DEF TypeOK, Known
    <3>3. r.cAgentIp \in Ips \cup {NoIp} /\ inCharge'[c] = InCharge(s.cAgentIp)
      BY <1>2, <1>5, <1>r, <3>2 DEF INFO_FOR_VAS
    <3>4. Announced(c)'
      <4>1. CASE GetVasNo(vasRange, r.cAgentIp) > 0
        BY <1>2, <1>5, <1>r, <3>3, <4>1, StartAnnounces
      <4>2. CASE ~(GetVasNo(vasRange, r.cAgentIp) > 0)
        <5>1. ~(inCharge'[c] > 0)
          BY <1>2, <1>5, <1>r, <3>3, <4>2, NotInCharge DEF TypeOK
        <5> QED BY <5>1, Zenon DEF Announced
      <4> QED BY <4>1, <4>2
    <3>5. Charged(c)'
      BY <1>2, <1>5, Zenon DEF Charged, Known
    <3> QED BY <3>1, <3>4, <3>5 DEF RecordOK
  <2>2. CASE GetVasNo(vasRange, r.cAgentIp) > 0
    <3>1. r.cAgentIp # NoIp
      BY <2>2 DEF GetVasNo
    <3>2. ~lostClear'[c] /\ ~earlyStop'[c] => s.cAgentIp \in talk'[c]
      BY <1>1, <1>2, <1>5, <3>1, Zenon DEF RecordOK, Talking
    <3>3. MessageOK'
      BY <1>1, <1>2, <1>5, <1>r, <2>2, <3>2, StartMessage
    <3> QED BY <1>1, <1>2, <1>r, <2>1, <3>3 DEF Good
  <2>3. CASE ~(GetVasNo(vasRange, r.cAgentIp) > 0)
    BY <1>1, <1>2, <1>5, <1>r, <2>1, <2>3, NoMessage DEF Good, Mute
  <2> QED BY <2>2, <2>3
<1> QED BY <1>3, <1>4, <1>5

LEMMA CallEstablishedLostStep ==
  ASSUME TypeOK, NEW c \in CallIds, RecordOK(c), CallEstablishedLost(c)
  PROVE  Good(c)
<1>1. /\ CallKept(c)
      /\ ~established[c] /\ established'[c]
      /\ UNCHANGED <<call, outbound, talk, lostClear, lostRtp, overlap, earlyStop>>
  BY EstablishEffect DEF CallEstablishedLost
<1>2. Kept(c) /\ Silent(c)
  BY NoUpdateEffect DEF CallEstablishedLost, Lose
<1>r. RangesKept(c) /\ inCharge' = inCharge
  BY SameRanges DEF CallEstablishedLost, Lose
<1>3. RecordOK(c)'
  BY <1>1, <1>2, <1>r, Zenon
  DEF RecordOK, Known, Current, Announced, Charged, Answered, Talking, Named, Silent
<1> QED BY <1>1, <1>2, <1>r, <1>3, NoMessage DEF Good, Silent

LEMMA RTPStartedStep ==
  ASSUME TypeOK, NEW c \in CallIds, NEW dir \in {0, 1}, NEW ip \in Ips \cup {NoIp},
         RecordOK(c), RTPStarted(c, dir, ip)
  PROVE  Good(c)
<1> DEFINE r == m_mapCDR[c]
           s == m_mapCDR'[c]
           announce == /\ dir = 0
                       /\ r.nInboundCall = 1 \/ r.nInitialCallEstablished = 0
                       /\ GetVasNo(vasRange, ip) > 0
<1>1. /\ CallKept(c)
      /\ UNCHANGED <<call, outbound, established, lostClear, earlyStop>>
      /\ dir = 0 => talk'[c] = talk[c] \cup {ip}
      /\ dir = 1 => talk'[c] = talk[c]
      /\ ~overlap'[c] => ~overlap[c] /\ (dir = 0 => talk[c] = {})
      /\ ~lostRtp'[c] => ~lostRtp[c]
  BY StartRtpEffect DEF RTPStarted
<1>2. /\ Kept(c)
      /\ ~Known(c) => Silent(c)
      /\ Known(c) =>
           /\ s # NoRecord
           /\ KeepsCall(r, s)
           /\ s.cCID = r.cCID
           /\ dir = 0 => s.cAgentIp = ip
           /\ dir = 1 => s.cAgentIp = r.cAgentIp
           /\ dir = 0 /\ r.nInboundCall = 1 => s.nInitialCallEstablished = 0
           /\ dir = 1 \/ r.nInboundCall = 0
                => s.nInitialCallEstablished = r.nInitialCallEstablished
           /\ IF announce THEN Starts(c) ELSE Mute(c)
  BY StartedEffect DEF RTPStarted
<1> DEFINE n == IF ~Known(c) \/ dir # 0 THEN inCharge[c] ELSE InCharge(ip)
<1>r. vasRange' \in Tables /\ RangesKept(c) /\ inCharge'[c] = n
  <2>1. vasRange \in Tables /\ vasRange' \in Tables
    BY DEF TypeOK, RTPStarted
  <2>2. inCharge' = [inCharge EXCEPT ![c] = n]
    BY Zenon DEF RTPStarted, Known
  <2>3. n \in VasNos \cup {-1}
    <3>1. inCharge[c] \in VasNos \cup {-1}
      BY Zenon DEF TypeOK
    <3> QED BY <2>1, <3>1, BothLookups, Zenon
  <2> HIDE DEF n
  <2> QED BY <2>1, <2>2, <2>3, NewRanges
<1>3. CASE ~Known(c)
  <2>1. ~Known(c)'
    BY <1>2, <1>3, Zenon DEF Known, Silent
  <2>2. RecordOK(c)'
    BY <1>3, <1>r, <2>1, Zenon DEF RecordOK, Current, Announced, Charged, Answered, Talking, Named
  <2> QED BY <1>1, <1>2, <1>3, <1>r, <2>2, NoMessage DEF Good, Silent
<1>4. CASE Known(c)
  <2>1. r.nInboundCall \in {0, 1}
    <3>1. r \in INFO_FOR_VAS
      BY <1>4 DEF TypeOK, Known
    <3> QED BY <3>1 DEF INFO_FOR_VAS
  <2>2. Current(c)'
    BY <1>1, <1>2, <1>4, Zenon DEF RecordOK, Current, KeepsCall
  <2>3. Answered(c)'
    <3> SUFFICES ASSUME ~lostClear[c], s.nInboundCall = 0, s.nInitialCallEstablished = 0
                 PROVE  established[c]
      BY <1>1, Zenon DEF Answered
    <3> QED BY <1>2, <1>4, Zenon DEF RecordOK, Answered, KeepsCall
  <2>4. Talking(c)'
    <3>1. CASE dir = 0
      BY <1>1, <1>2, <1>4, <3>1 DEF Talking
    <3>2. CASE dir = 1
      BY <1>1, <1>2, <1>4, <3>2, Zenon DEF RecordOK, Talking
    <3> QED BY <3>1, <3>2
  <2>5. Named(c)'
    <3>1. CASE dir = 0
      BY <1>1, <1>2, <1>4, <3>1 DEF Named
    <3>2. CASE dir = 1
      BY <1>1, <1>2, <1>4, <3>2, Zenon DEF RecordOK, Named
    <3> QED BY <3>1, <3>2
  <2>6. Announced(c)'
    <3>1. CASE announce
      BY <1>2, <1>4, <1>r, <3>1, StartAnnounces
    <3>2. CASE ~announce
      <4> SUFFICES ASSUME s.nInitialCallEstablished = 0, inCharge'[c] > 0
                   PROVE  opened'[c] = Message(c, s, "S", inCharge'[c])
        BY Zenon DEF Announced
      <4>1. CASE dir = 0
        <5>1. ~(GetVasNo(vasRange, ip) > 0)
          BY <1>2, <1>4, <2>1, <3>2, <4>1
        <5>2. ~(InCharge(ip) > 0)
          BY <1>r, <5>1, NotInCharge DEF TypeOK
        <5> QED BY <1>4, <1>r, <4>1, <5>2
      <4>2. CASE dir = 1
        <5>1. inCharge'[c] = inCharge[c]
          BY <1>r, <4>2
        <5>2. opened'[c] = Message(c, r, "S", inCharge[c])
          BY <1>2, <1>4, <3>2, <4>2, <5>1, Zenon DEF RecordOK, Announced, Mute
        <5>3. Message(c, r, "S", inCharge[c]) = Message(c, s, "S", inCharge[c])
          BY <1>2, <1>4, <4>2, SameMessage DEF KeepsCall
        <5> QED BY <5>1, <5>2, <5>3
      <4> QED BY <4>1, <4>2
    <3> QED BY <3>1, <3>2
  <2>7. MessageOK'
    <3>1. CASE announce
      <4>1. outbound'[c] /\ ~lostClear'[c] => established'[c]
        <5> SUFFICES ASSUME outbound[c], ~lostClear[c] PROVE established[c]
          BY <1>1, Zenon
        <5>1. r.nInboundCall = 0
          BY <1>4 DEF RecordOK, Current
        <5>2. r.nInitialCallEstablished = 0
          BY <3>1, <5>1
        <5> QED BY <1>4, <5>1, <5>2, Zenon DEF RecordOK, Answered
      <4>2. s.cAgentIp \in talk'[c]
        BY <1>1, <1>2, <1>4, <3>1
      <4> QED BY <1>2, <1>4, <1>r, <3>1, <4>1, <4>2, StartMessage
    <3>2. CASE ~announce
      BY <1>2, <1>4, <3>2, NoMessage DEF Mute
    <3> QED BY <3>1, <3>2
  <2>8. Charged(c)'
    BY <1>2, <1>4, Zenon DEF Charged, Known
  <2> QED BY <1>1, <1>2, <1>r, <2>2, <2>3, <2>4, <2>5, <2>6, <2>7, <2>8 DEF Good, RecordOK
<1> QED BY <1>3, <1>4

LEMMA RTPStartedLostStep ==
  ASSUME TypeOK, NEW c \in CallIds, NEW dir \in {0, 1}, NEW ip \in Ips \cup {NoIp},
         RecordOK(c), RTPStartedLost(c, dir, ip)
  PROVE  Good(c)
<1>1. /\ CallKept(c)
      /\ UNCHANGED <<call, outbound, established, lostClear, earlyStop>>
      /\ talk[c] \subseteq talk'[c]
  <2>1. /\ CallKept(c)
        /\ UNCHANGED <<call, outbound, established, lostClear, earlyStop>>
        /\ dir = 0 => talk'[c] = talk[c] \cup {ip}
        /\ dir = 1 => talk'[c] = talk[c]
    BY StartRtpEffect DEF RTPStartedLost
  <2> QED BY <2>1
<1>2. lostRtp'[c]
  BY Except, Zenon DEF TypeOK, RTPStartedLost
<1>3. Kept(c) /\ Silent(c)
  BY NoUpdateEffect DEF RTPStartedLost, Lose
<1>r. RangesKept(c) /\ inCharge' = inCharge
  BY SameRanges DEF RTPStartedLost, Lose
<1>4. RecordOK(c)'
  BY <1>1, <1>2, <1>3, <1>r, Zenon
  DEF RecordOK, Known, Current, Announced, Charged, Answered, Talking, Named, Silent
<1> QED BY <1>1, <1>3, <1>r, <1>4, NoMessage DEF Good, Silent

LEMMA RTPStoppedStep ==
  ASSUME TypeOK, NEW c \in CallIds, NEW dir \in {0, 1}, NEW ip \in Ips \cup {NoIp},
         RecordOK(c), RTPStopped(c, dir, ip)
  PROVE  Good(c)
<1> DEFINE r == m_mapCDR[c]
           s == m_mapCDR'[c]
<1>1. /\ CallKept(c)
      /\ UNCHANGED <<call, outbound, established, lostClear, lostRtp, overlap>>
      /\ dir = 0 => ip \in talk[c] /\ talk'[c] = talk[c] \ {ip} /\ stopped' = ip
      /\ dir = 1 => talk'[c] = talk[c] /\ stopped' = NoIp
      /\ ~earlyStop'[c] => ~earlyStop[c] /\ (dir = 0 => established[c])
  BY StopRtpEffect DEF RTPStopped
<1>2. /\ Kept(c)
      /\ ~Known(c) => Silent(c)
      /\ Known(c) =>
           /\ s \in INFO_FOR_VAS
           /\ s # NoRecord
           /\ KeepsCall(r, s)
           /\ s.cCID = r.cCID
           /\ s.cAgentIp = r.cAgentIp
           /\ s.nInitialCallEstablished = r.nInitialCallEstablished
           /\ IF GetVasNo(vasRange, ip) > 0 THEN Ends(c) ELSE Mute(c)
  BY StoppedEffect DEF RTPStopped
<1>r. vasRange' \in Tables /\ RangesKept(c) /\ inCharge' = inCharge
  BY Zenon DEF TypeOK, RTPStopped, RangesKept
<1>3. CASE ~Known(c)
  <2>1. ~Known(c)'
    BY <1>2, <1>3, Zenon DEF Known, Silent
  <2>2. RecordOK(c)'
    BY <1>3, <1>r, <2>1, Zenon DEF RecordOK, Current, Announced, Charged, Answered, Talking, Named
  <2> QED BY <1>1, <1>2, <1>3, <1>r, <2>2, NoMessage DEF Good, Silent
<1>4. CASE Known(c)
  <2>1. Current(c)' /\ Answered(c)'
    BY <1>1, <1>2, <1>4, Zenon DEF RecordOK, Current, Answered, KeepsCall
  <2>2. Talking(c)' /\ Named(c)'
    <3>1. CASE dir = 0
      BY <1>1, <1>2, <1>4, <3>1 DEF RecordOK, Talking, Named
    <3>2. CASE dir = 1
      BY <1>1, <1>2, <1>4, <3>2, Zenon DEF RecordOK, Talking, Named
    <3> QED BY <3>1, <3>2
  <2>3. Announced(c)'
    <3>1. opened'[c] = opened[c]
      BY <1>2, <1>4 DEF Ends, Mute
    <3>2. Message(c, r, "S", inCharge[c]) = Message(c, s, "S", inCharge[c])
      BY <1>2, <1>4, SameMessage DEF KeepsCall
    <3> QED BY <1>2, <1>4, <1>r, <3>1, <3>2, Zenon DEF RecordOK, Announced
  <2>4. MessageOK'
    <3>1. CASE GetVasNo(vasRange, ip) > 0
      <4>1. stopped' # NoIp /\ ~overlap'[c] /\ ~lostRtp'[c] => s.cAgentIp = stopped'
        BY <1>1, <1>2, <1>4 DEF RecordOK, Named
      <4> QED BY <1>2, <1>4, <1>r, <2>3, <3>1, <4>1, EndMessage
    <3>2. CASE ~(GetVasNo(vasRange, ip) > 0)
      BY <1>2, <1>4, <3>2, NoMessage DEF Mute
    <3> QED BY <3>1, <3>2
  <2>5. Charged(c)'
    BY <1>2, <1>4, Zenon DEF Charged, Known
  <2> QED BY <1>1, <1>2, <1>r, <2>1, <2>2, <2>3, <2>4, <2>5 DEF Good, RecordOK
<1> QED BY <1>3, <1>4

LEMMA RTPStoppedLostStep ==
  ASSUME TypeOK, NEW c \in CallIds, NEW dir \in {0, 1}, NEW ip \in Ips \cup {NoIp},
         RecordOK(c), RTPStoppedLost(c, dir, ip)
  PROVE  Good(c)
<1>1. /\ CallKept(c)
      /\ UNCHANGED <<call, outbound, established, lostClear, lostRtp, overlap>>
      /\ dir = 0 => ip \in talk[c] /\ talk'[c] = talk[c] \ {ip}
      /\ dir = 1 => talk'[c] = talk[c]
      /\ ~earlyStop'[c] => ~earlyStop[c] /\ (dir = 0 => established[c])
  BY StopRtpEffect DEF RTPStoppedLost
<1>2. Kept(c) /\ Silent(c)
  BY NoUpdateEffect DEF RTPStoppedLost, Lose
<1>r. RangesKept(c) /\ inCharge' = inCharge
  BY SameRanges DEF RTPStoppedLost, Lose
<1>3. Current(c)' /\ Announced(c)' /\ Charged(c)' /\ Answered(c)'
  BY <1>1, <1>2, <1>r, Zenon DEF RecordOK, Known, Current, Announced, Charged, Answered, Silent
<1>4. Talking(c)' /\ Named(c)'
  <2>1. CASE dir = 0
    BY <1>1, <1>2, <2>1 DEF RecordOK, Known, Talking, Named, Silent
  <2>2. CASE dir = 1
    BY <1>1, <1>2, <2>2, Zenon DEF RecordOK, Known, Talking, Named, Silent
  <2> QED BY <2>1, <2>2
<1> QED BY <1>1, <1>2, <1>r, <1>3, <1>4, NoMessage DEF Good, RecordOK, Silent

LEMMA CallClearedStep ==
  ASSUME TypeOK, NEW c \in CallIds, RecordOK(c), CallCleared(c)
  PROVE  Good(c)
<1>1. CallKept(c)
  BY ClearEffect DEF CallCleared
<1>2. Kept(c) /\ ~Known(c)' /\ msg' = NoMsg
  BY ClearedEffect DEF CallCleared, Known
<1>r. RangesKept(c) /\ inCharge'[c] = -1
  BY NewRanges, Zenon DEF TypeOK, CallCleared
<1>3. ~(inCharge'[c] > 0)
  BY <1>r
<1>4. RecordOK(c)'
  BY <1>2, <1>3, Zenon DEF RecordOK, Current, Announced, Charged, Answered, Talking, Named
<1> QED BY <1>1, <1>2, <1>r, <1>4, NoMessage DEF Good

LEMMA CallClearedLostStep ==
  ASSUME TypeOK, NEW c \in CallIds, RecordOK(c), CallClearedLost(c)
  PROVE  Good(c)
<1> DEFINE b == lostClear[c] \/ m_mapCDR[c] # NoRecord
<1>1. b \in BOOLEAN /\ lostClear' = [lostClear EXCEPT ![c] = b]
  BY Zenon DEF TypeOK, CallClearedLost
<1>2. CallKept(c) /\ lostClear'[c] = b /\ UNCHANGED <<talk, lostRtp, overlap>>
  <2> HIDE DEF b
  <2> QED BY <1>1, ClearEffect DEF CallClearedLost
<1>3. Kept(c) /\ Silent(c)
  BY NoUpdateEffect DEF CallClearedLost, Lose
<1>r. RangesKept(c) /\ inCharge' = inCharge
  BY SameRanges DEF CallClearedLost, Lose
<1>4. RecordOK(c)'
  BY <1>2, <1>3, <1>r, Zenon
  DEF RecordOK, Known, Current, Announced, Charged, Answered, Talking, Named, Silent
<1> QED BY <1>2, <1>3, <1>r, <1>4, NoMessage DEF Good, Silent

-----------------------------------------------------------------------------
(* The theorems *)

LEMMA InitStep == Init => IInv
<1> SUFFICES ASSUME Init PROVE IInv
  OBVIOUS
<1>1. TypeOK
  <2>1. /\ outbound \in [CallIds -> BOOLEAN] /\ established \in [CallIds -> BOOLEAN]
        /\ lostClear \in [CallIds -> BOOLEAN] /\ lostRtp \in [CallIds -> BOOLEAN]
        /\ overlap \in [CallIds -> BOOLEAN] /\ earlyStop \in [CallIds -> BOOLEAN]
    BY Zenon DEF Init
  <2>2. inCharge \in [CallIds -> VasNos \cup {-1}]
    BY DEF Init
  <2> QED BY <2>1, <2>2, BoundAssumption DEF Init, TypeOK
<1>2. ASSUME NEW c \in CallIds PROVE RecordOK(c)
  <2>1. ~Known(c)
    BY DEF Init, Known
  <2>2. ~(inCharge[c] > 0)
    BY DEF Init
  <2> QED BY <2>1, <2>2, Zenon DEF RecordOK, Current, Announced, Charged, Answered, Talking, Named
<1>3. MessageOK
  BY Zenon DEF Init, MessageOK, EndClosesLastStart, NoStartBeforeAnswer, StartWhileTalking,
              EndNamesStoppedAgent
<1> QED BY <1>1, <1>2, <1>3 DEF IInv

LEMMA NextStep == IInv /\ [Next]_vars => IInv'
<1> SUFFICES ASSUME IInv, [Next]_vars PROVE IInv'
  OBVIOUS
<1>1. ASSUME NEW c \in CallIds, StepOf(c) PROVE IInv'
  <2>1. TypeOK /\ RecordOK(c)
    BY DEF IInv
  <2>2. Good(c)
    BY <1>1, <2>1, BeginCallStep, BeginCallLostStep, CallEstablishedStep, CallEstablishedLostStep,
       RTPStartedStep, RTPStartedLostStep, RTPStoppedStep, RTPStoppedLostStep, CallClearedStep,
       CallClearedLostStep, Zenon DEF StepOf
  <2>3. TypeOK'
    BY <2>2, TypeParts DEF Good, CallKept
  <2>4. ASSUME NEW d \in CallIds PROVE RecordOK(d)'
    <3>1. RecordOK(d)
      BY DEF IInv
    <3> QED BY <2>2, <3>1, OtherCalls DEF Good
  <2> QED BY <2>2, <2>3, <2>4 DEF IInv, Good
<1>2. CASE UNCHANGED vars
  <2>1. TypeOK'
    BY <1>2, Zenon DEF IInv, TypeOK, vars, handler, ranges, calls, history
  <2>2. ASSUME NEW c \in CallIds PROVE RecordOK(c)'
    <3>1. RecordOK(c)
      BY DEF IInv
    <3> QED BY <1>2, <3>1, Zenon
            DEF RecordOK, Known, Current, Announced, Charged, Answered, Talking, Named,
                vars, handler, ranges, calls, history
  <2>3. MessageOK'
    BY <1>2, Zenon
    DEF IInv, MessageOK, EndClosesLastStart, NoStartBeforeAnswer, StartWhileTalking,
        EndNamesStoppedAgent, vars, handler, ranges, calls, history
  <2> QED BY <2>1, <2>2, <2>3 DEF IInv
<1>3. CASE Reload
  <2>1. TypeOK'
    <3>1. stopped' \in Ips \cup {NoIp} /\ msg' \in PKT_SCS_EVT_MSG \cup {NoMsg}
      BY <1>3 DEF Reload
    <3> QED BY <1>3, <3>1, Zenon DEF IInv, TypeOK, Reload, calls, history
  <2>2. ASSUME NEW c \in CallIds PROVE RecordOK(c)'
    <3>1. RecordOK(c)
      BY DEF IInv
    <3> QED BY <1>3, <3>1, Zenon
            DEF RecordOK, Known, Current, Announced, Charged, Answered, Talking, Named,
                Reload, calls, history
  <2>3. MessageOK'
    BY <1>3, NoMessage DEF Reload
  <2> QED BY <2>1, <2>2, <2>3 DEF IInv
<1> QED BY <1>1, <1>2, <1>3, Zenon DEF Next, StepOf

LEMMA Implied ==
  IInv => /\ TypeOK /\ RecordIsCurrent /\ AgentAnnounced /\ EndClosesLastStart
          /\ NoStartBeforeAnswer /\ StartWhileTalking /\ EndNamesStoppedAgent
<1> SUFFICES ASSUME IInv PROVE RecordIsCurrent /\ AgentAnnounced
  BY Zenon DEF IInv, MessageOK
<1> QED BY Zenon DEF IInv, RecordOK, Known, Current, Announced, RecordIsCurrent, AgentAnnounced

\* Types are kept by the handlers of all events, in any order and whatever is lost.
THEOREM TypeCorrect == Spec => []TypeOK
  BY InitStep, NextStep, Implied, PTL DEF Spec

\* Without a lost CALL_CLEARED event a record is never another call's.
THEOREM RecordAlwaysCurrent == Spec => []RecordIsCurrent
  BY InitStep, NextStep, Implied, PTL DEF Spec

\* The agent a record names has been announced to the VAS server in charge at the
\* start of the stream or at the answer, whatever reloads did to the table since.
THEOREM AgentAlwaysAnnounced == Spec => []AgentAnnounced
  BY InitStep, NextStep, Implied, PTL DEF Spec

\* An end of recording closes what the last start opened, on the same VAS server
\* unless a reload has moved the agent's address to another one in between.
THEOREM EndAlwaysClosesLastStart == Spec => []EndClosesLastStart
  BY InitStep, NextStep, Implied, PTL DEF Spec

\* No recording of an outbound call is started before the answer.
THEOREM NeverStartBeforeAnswer == Spec => []NoStartBeforeAnswer
  BY InitStep, NextStep, Implied, PTL DEF Spec

\* A recording is started for a running stream, unless one stopped early.
THEOREM StartAlwaysWhileTalking == Spec => []StartWhileTalking
  BY InitStep, NextStep, Implied, PTL DEF Spec

\* An end of recording names the agent whose stream stopped, unless streams of
\* agents overlapped or a start was lost.
THEOREM EndAlwaysNamesStoppedAgent == Spec => []EndNamesStoppedAgent
  BY InitStep, NextStep, Implied, PTL DEF Spec
=============================================================================
