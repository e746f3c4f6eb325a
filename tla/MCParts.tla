------------------------------- MODULE MCParts ------------------------------
(***************************************************************************)
(* Instance for TLC of the parts that run by themselves: KeepAlive,         *)
(* InvokeId, CallKey, HeartbeatTime, Packets and LogFile.  They share no    *)
(* state, so each behaviour is one of a single part, chosen at the start,   *)
(* in which the other parts stay as they are: the states add up instead of  *)
(* multiplying.                                                             *)
(***************************************************************************)
EXTENDS KeepAlive, InvokeId, CallKey, HeartbeatTime, Packets, LogFile

VARIABLE part

partVars == <<vars, idVars, keyVars, hbVars, pktVars, logVars, part>>

\* Widths of the fields: small, and smaller than what may run over.
MCWidth ==
  [cIfId |-> 2, cBodySize |-> 2, cTimestamp |-> 3, cEventType |-> 1, cResultCode |-> 1, cCID |-> 3,
   cCallkey |-> 3, cAgentExt |-> 2, cAgentId |-> 2, cAgentIp |-> 2, cReserved |-> 4]

\* A part that does not run is in one of its initial states.
PartsInit ==
  /\ part \in {"keepAlive", "invokeId", "callKey", "heartbeat", "packets", "log"}
  /\ Init /\ (part # "keepAlive" => up)
  /\ IdInit /\ KeyInit /\ PktInit /\ LogInit
  /\ HbInit /\ (part # "heartbeat" => m_day = 0 /\ m_sentTime = 0)

PartsNext ==
  /\ UNCHANGED part
  /\ \/ /\ part = "keepAlive" /\ Next
        /\ UNCHANGED <<idVars, keyVars, hbVars, pktVars, logVars>>
     \/ /\ part = "invokeId" /\ IdNext
        /\ UNCHANGED <<vars, keyVars, hbVars, pktVars, logVars>>
     \/ /\ part = "callKey" /\ KeyNext
        /\ UNCHANGED <<vars, idVars, hbVars, pktVars, logVars>>
     \/ /\ part = "heartbeat" /\ HbNext
        /\ UNCHANGED <<vars, idVars, keyVars, pktVars, logVars>>
     \/ /\ part = "packets" /\ PktNext
        /\ UNCHANGED <<vars, idVars, keyVars, hbVars, logVars>>
     \/ /\ part = "log" /\ LogNext
        /\ UNCHANGED <<vars, idVars, keyVars, hbVars, pktVars>>

\* Fairness and LogFairness, asked only of the part that runs.
PartsFairness ==
  /\ WF_vars(part = "keepAlive" /\ Backup) /\ WF_vars(part = "keepAlive" /\ TcpGivesUp)
  /\ WF_logVars(part = "log" /\ ~logExited /\ LogStep)
  /\ SF_logVars(part = "log" /\ ~logExited /\ signal_exit)

PartsSpec == PartsInit /\ [][PartsNext]_partVars /\ PartsFairness
=============================================================================
