------------------------------- MODULE CallKey ------------------------------
(***************************************************************************)
(* CCtiIfHandler::GenerateCallKey (src/src/ctiifhandler.cpp): the key of a  *)
(* call that the CTI server gave none, made of the day of the month, the    *)
(* time in seconds and a sequence number that wraps.  The threads of all    *)
(* CTI handlers share the number and a static mutex, which the constructor  *)
(* of every further handler initialises again.                              *)
(***************************************************************************)
EXTENDS Naturals, Sequences

CONSTANTS NHandler,    \* CTI handlers, created one after the other
          SeqLimit,    \* 10000 in the code
          MonthTime,   \* seconds after which day and time of day recur
          MaxTime,     \* bound on the clock
          MaxKeys,     \* bound on the keys made
          MaxRestart   \* bound on restarts of the gateway

ASSUME KeyAssumption ==
  /\ NHandler \in Nat /\ SeqLimit \in Nat \ {0} /\ MonthTime \in Nat \ {0}
  /\ MaxTime \in Nat /\ MaxKeys \in Nat /\ MaxRestart \in Nat

VARIABLES
  keyClock,
  m_nCallKeySeqNo,
  m_callkeyMutex,   \* number of the handler that holds it, or 0
  keyPc,            \* handler -> "none", "idle", "format" or "bump"
  nRestart,
  \* history
  keys,             \* the keys made: time, sequence number and run of the gateway
  clash             \* the mutex was initialised while it was held

keyVars == <<keyClock, m_nCallKeySeqNo, m_callkeyMutex, keyPc, nRestart, keys, clash>>

KeyInit ==
  /\ keyClock = 0
  /\ m_nCallKeySeqNo = 0
  /\ m_callkeyMutex = 0
  /\ keyPc = [h \in 1 .. NHandler |-> "none"]
  /\ nRestart = 0
  /\ keys = <<>>
  /\ clash = FALSE

\* new CCtiIfHandler, by main, and the start of its thread
CCtiIfHandler(h) ==
  /\ keyPc[h] = "none"
  /\ \A g \in 1 .. h - 1 : keyPc[g] # "none"
  /\ m_callkeyMutex' = 0
  /\ clash' = (clash \/ m_callkeyMutex # 0)
  /\ keyPc' = [keyPc EXCEPT ![h] = "idle"]
  /\ UNCHANGED <<keyClock, m_nCallKeySeqNo, nRestart, keys>>

\* Faulty variant: the lock is not awaited.
key_lock_none(h) ==
  /\ keyPc[h] = "idle"
  /\ Len(keys) < MaxKeys
  /\ m_callkeyMutex' = h
  /\ keyPc' = [keyPc EXCEPT ![h] = "format"]
  /\ UNCHANGED <<keyClock, m_nCallKeySeqNo, nRestart, keys, clash>>

key_lock(h) ==
  /\ keyPc[h] = "idle"
  /\ Len(keys) < MaxKeys
  /\ m_callkeyMutex = 0
  /\ m_callkeyMutex' = h
  /\ keyPc' = [keyPc EXCEPT ![h] = "format"]
  /\ UNCHANGED <<keyClock, m_nCallKeySeqNo, nRestart, keys, clash>>

\* The clock is read and the key is formatted.
key_format(h) ==
  /\ keyPc[h] = "format"
  /\ keys' = Append(keys, [time |-> keyClock, seq |-> m_nCallKeySeqNo, run |-> nRestart])
  /\ keyPc' = [keyPc EXCEPT ![h] = "bump"]
  /\ UNCHANGED <<keyClock, m_nCallKeySeqNo, m_callkeyMutex, nRestart, clash>>

\* The next sequence number, and unlock.
key_bump(h) ==
  /\ keyPc[h] = "bump"
  /\ m_nCallKeySeqNo' = (m_nCallKeySeqNo + 1) % SeqLimit
  /\ m_callkeyMutex' = 0
  /\ keyPc' = [keyPc EXCEPT ![h] = "idle"]
  /\ UNCHANGED <<keyClock, nRestart, keys, clash>>

key_tick ==
  /\ keyClock < MaxTime
  /\ keyClock' = keyClock + 1
  /\ UNCHANGED <<m_nCallKeySeqNo, m_callkeyMutex, keyPc, nRestart, keys, clash>>

\* The gateway is started again; nothing of the sequence number is kept.
key_restart ==
  /\ nRestart < MaxRestart
  /\ nRestart' = nRestart + 1
  /\ m_nCallKeySeqNo' = 0
  /\ m_callkeyMutex' = 0
  /\ keyPc' = [h \in 1 .. NHandler |-> "none"]
  /\ UNCHANGED <<keyClock, keys, clash>>

KeyNext ==
  \/ \E h \in 1 .. NHandler : CCtiIfHandler(h) \/ key_lock(h) \/ key_format(h) \/ key_bump(h)
  \/ key_tick
  \/ key_restart

KeySpec == KeyInit /\ [][KeyNext]_keyVars

-----------------------------------------------------------------------------
(* Properties *)

SameKey(a, b) == a.seq = b.seq /\ a.time % MonthTime = b.time % MonthTime

\* Two calls get the same key only if the sequence number has wrapped within a
\* second, if a month lies between them, if the gateway was restarted in between,
\* or if a handler was created while another one was making a key.
CallKeysUnique ==
  \A a \in 1 .. Len(keys), b \in 1 .. Len(keys) :
    a < b /\ SameKey(keys[a], keys[b]) =>
      \/ b - a >= SeqLimit
      \/ keys[a].time # keys[b].time
      \/ keys[a].run # keys[b].run
      \/ clash
=============================================================================
