------------------------------ MODULE InvokeId ------------------------------
(***************************************************************************)
(* CCtiSocketIf::GetInvokeID (src/src/ctisocketif.cpp): the number of a     *)
(* request to a CTI server, from one counter that the threads of all CTI    *)
(* sockets share.  The counter is incremented under a lock, but compared    *)
(* with its limit and reset after the lock has been given up.               *)
(***************************************************************************)
EXTENDS Naturals

CONSTANTS SocketThreads,
          FirstID,   \* 1000 in the code
          LastID,    \* 1000000 in the code
          MaxOver    \* bound: how far the counter is followed above LastID

ASSUME InvokeAssumption ==
  FirstID \in Nat /\ LastID \in Nat /\ MaxOver \in Nat /\ FirstID <= LastID

VARIABLES
  m_InvokeID,
  idLocked,   \* m_mutex is held
  idPc,       \* thread -> "idle", "store", "test" or "reset"
  idRead      \* thread -> the number it has read

idVars == <<m_InvokeID, idLocked, idPc, idRead>>

IdInit ==
  /\ m_InvokeID = FirstID
  /\ idLocked = FALSE
  /\ idPc = [t \in SocketThreads |-> "idle"]
  /\ idRead = [t \in SocketThreads |-> 0]

\* Lock and read: invokeID = m_InvokeID ...
invoke_read(t) ==
  /\ idPc[t] = "idle"
  /\ ~idLocked
  /\ m_InvokeID < LastID + MaxOver
  /\ idLocked' = TRUE
  /\ idRead' = [idRead EXCEPT ![t] = m_InvokeID]
  /\ idPc' = [idPc EXCEPT ![t] = "store"]
  /\ UNCHANGED m_InvokeID

\* ... ++, and unlock.  A reset since the read is overwritten.
invoke_store(t) ==
  /\ idPc[t] = "store"
  /\ m_InvokeID' = idRead[t] + 1
  /\ idLocked' = FALSE
  /\ idPc' = [idPc EXCEPT ![t] = "test"]
  /\ UNCHANGED idRead

\* Faulty variant: only the thread that reaches the limit exactly resets.
invoke_test_equal(t) ==
  /\ idPc[t] = "test"
  /\ idPc' = [idPc EXCEPT ![t] = IF m_InvokeID = LastID + 1 THEN "reset" ELSE "idle"]
  /\ UNCHANGED <<m_InvokeID, idLocked, idRead>>

\* if(m_InvokeID > 1000000), without the lock
invoke_test(t) ==
  /\ idPc[t] = "test"
  /\ idPc' = [idPc EXCEPT ![t] = IF m_InvokeID > LastID THEN "reset" ELSE "idle"]
  /\ UNCHANGED <<m_InvokeID, idLocked, idRead>>

\* m_InvokeID = 1000
invoke_reset(t) ==
  /\ idPc[t] = "reset"
  /\ m_InvokeID' = FirstID
  /\ idPc' = [idPc EXCEPT ![t] = "idle"]
  /\ UNCHANGED <<idLocked, idRead>>

IdNext ==
  \E t \in SocketThreads :
    invoke_read(t) \/ invoke_store(t) \/ invoke_test(t) \/ invoke_reset(t)

IdSpec == IdInit /\ [][IdNext]_idVars

-----------------------------------------------------------------------------
(* Properties *)

\* The types of all variables.
IdTypeOK ==
  /\ m_InvokeID \in Nat
  /\ idLocked \in BOOLEAN
  /\ idPc \in [SocketThreads -> {"idle", "store", "test", "reset"}]
  /\ idRead \in [SocketThreads -> Nat]

\* The counter never stays above its limit, although resets race with increments
\* and may be lost: while it is above, a thread is on its way to look at it or to
\* reset it.
OverrunSeen ==
  m_InvokeID > LastID => \E t \in SocketThreads : idPc[t] \in {"test", "reset"}
=============================================================================
