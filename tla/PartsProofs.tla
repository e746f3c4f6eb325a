----------------------------- MODULE PartsProofs ----------------------------
(***************************************************************************)
(* Proofs about the parts that run by themselves, for every value of their  *)
(* constants: the counter of request numbers (InvokeId) never stays above   *)
(* its limit; call keys (CallKey) repeat only for a reason; a connection to *)
(* a VAS server (HeartbeatTime) is never silent for long; a line of the log *)
(* (LogFile) is found where its date says; the backup (KeepAlive) takes     *)
(* over only after failures in a row; and every packet (Packets) holds its  *)
(* own values in its fields.                                                *)
(***************************************************************************)
EXTENDS KeepAlive, InvokeId, CallKey, HeartbeatTime, LogFile, Packets, FiniteSetTheorems,
        SequenceTheorems, WellFoundedInduction, TLAPS

-----------------------------------------------------------------------------
(* InvokeId: OverrunSeen, with the types, is inductive. *)

\* Every variable of GetInvokeID keeps its type.
THEOREM IdTypes == IdSpec => []IdTypeOK
<1>1. IdInit => IdTypeOK
  <2> SUFFICES ASSUME IdInit
               PROVE  IdTypeOK
    OBVIOUS
  <2>1. m_InvokeID \in Nat /\ idRead \in [SocketThreads -> Nat]
    BY InvokeAssumption DEF IdInit
  <2>2. idLocked \in BOOLEAN
    BY Zenon DEF IdInit
  <2>3. idPc \in [SocketThreads -> {"idle", "store", "test", "reset"}]
    BY DEF IdInit
  <2> QED
    BY <2>1, <2>2, <2>3 DEF IdTypeOK
<1>2. IdTypeOK /\ [IdNext]_idVars => IdTypeOK'
  <2> SUFFICES ASSUME IdTypeOK, [IdNext]_idVars
               PROVE  IdTypeOK'
    OBVIOUS
  <2>1. CASE UNCHANGED idVars
    BY <2>1 DEF IdTypeOK, idVars
  <2>2. ASSUME NEW t \in SocketThreads, invoke_read(t)
        PROVE  IdTypeOK'
    BY <2>2 DEF IdTypeOK, invoke_read
  <2>3. ASSUME NEW t \in SocketThreads, invoke_store(t)
        PROVE  IdTypeOK'
    <3>1. m_InvokeID' \in Nat /\ idRead' \in [SocketThreads -> Nat]
      BY <2>3 DEF IdTypeOK, invoke_store
    <3>2. idLocked' \in BOOLEAN
      BY <2>3, Zenon DEF invoke_store
    <3>3. idPc' \in [SocketThreads -> {"idle", "store", "test", "reset"}]
      BY <2>3 DEF IdTypeOK, invoke_store
    <3> QED
      BY <3>1, <3>2, <3>3 DEF IdTypeOK
  <2>4. ASSUME NEW t \in SocketThreads, invoke_test(t)
        PROVE  IdTypeOK'
    BY <2>4 DEF IdTypeOK, invoke_test
  <2>5. ASSUME NEW t \in SocketThreads, invoke_reset(t)
        PROVE  IdTypeOK'
    BY <2>5, InvokeAssumption DEF IdTypeOK, invoke_reset
  <2> QED
    BY <2>1, <2>2, <2>3, <2>4, <2>5 DEF IdNext
<1> QED
  BY <1>1, <1>2, PTL DEF IdSpec

\* Whenever the shared counter is above its limit, a thread is about to look at
\* it or to reset it, in every interleaving of the unlocked resets with the
\* increments.
THEOREM OverrunAlwaysSeen == IdSpec => []OverrunSeen
<1>1. IdInit => OverrunSeen
  BY InvokeAssumption DEF IdInit, OverrunSeen
<1>2. IdTypeOK /\ OverrunSeen /\ [IdNext]_idVars => OverrunSeen'
  <2> SUFFICES ASSUME IdTypeOK, OverrunSeen, [IdNext]_idVars, (m_InvokeID > LastID)'
               PROVE  \E u \in SocketThreads : idPc'[u] \in {"test", "reset"}
    BY DEF OverrunSeen
  <2>1. CASE UNCHANGED idVars
    BY <2>1 DEF OverrunSeen, idVars
  <2>2. ASSUME NEW t \in SocketThreads, invoke_read(t)
        PROVE  \E u \in SocketThreads : idPc'[u] \in {"test", "reset"}
    <3>1. PICK u \in SocketThreads : idPc[u] \in {"test", "reset"}
      BY <2>2 DEF OverrunSeen, invoke_read
    <3>2. u # t
      BY <2>2, <3>1 DEF invoke_read
    <3> QED
      BY <2>2, <3>1, <3>2 DEF IdTypeOK, invoke_read
  <2>3. ASSUME NEW t \in SocketThreads, invoke_store(t)
        PROVE  \E u \in SocketThreads : idPc'[u] \in {"test", "reset"}
    BY <2>3 DEF IdTypeOK, invoke_store
  <2>4. ASSUME NEW t \in SocketThreads, invoke_test(t)
        PROVE  \E u \in SocketThreads : idPc'[u] \in {"test", "reset"}
    BY <2>4 DEF IdTypeOK, invoke_test
  <2>5. ASSUME NEW t \in SocketThreads, invoke_reset(t)
        PROVE  \E u \in SocketThreads : idPc'[u] \in {"test", "reset"}
    BY <2>5, InvokeAssumption DEF invoke_reset
  <2> QED
    BY <2>1, <2>2, <2>3, <2>4, <2>5 DEF IdNext
<1> QED
  BY <1>1, <1>2, IdTypes, PTL DEF IdSpec

-----------------------------------------------------------------------------
(* CallKey *)

CallKeyRecord == [time : Nat, seq : 0 .. SeqLimit - 1, run : Nat]

\* The types of all variables.
KeyTypeOK ==
  /\ keyClock \in Nat
  /\ m_nCallKeySeqNo \in 0 .. SeqLimit - 1
  /\ m_callkeyMutex \in 0 .. NHandler
  /\ keyPc \in [1 .. NHandler -> {"none", "idle", "format", "bump"}]
  /\ nRestart \in Nat
  /\ keys \in Seq(CallKeyRecord)
  /\ clash \in BOOLEAN

\* A handler that makes a key holds the mutex.
KeyMutex == \A h \in 1 .. NHandler : keyPc[h] \in {"format", "bump"} => m_callkeyMutex = h

\* No key is from a run to come.
KeyRuns == \A a \in 1 .. Len(keys) : keys[a].run <= nRestart

\* The number n places after s, for n of at most SeqLimit.
Later(s, n) == IF s + n < SeqLimit THEN s + n ELSE s + n - SeqLimit

\* The numbers of the keys of a run follow one another ...
KeySteps ==
  \A a \in 1 .. Len(keys), b \in 1 .. Len(keys) :
    a < b /\ b - a < SeqLimit /\ keys[a].run = keys[b].run =>
      keys[b].seq = Later(keys[a].seq, b - a)

\* ... and so does the present number; until the last handler has counted it up it
\* is still the number of the last key.
Made == IF \E h \in 1 .. NHandler : keyPc[h] = "bump" THEN Len(keys) ELSE Len(keys) + 1

KeyNextStep ==
  \A a \in 1 .. Len(keys) :
    Made - a < SeqLimit /\ keys[a].run = nRestart =>
      m_nCallKeySeqNo = Later(keys[a].seq, Made - a)

KeyIInv == KeyTypeOK /\ KeyRuns /\ (clash \/ (KeyMutex /\ KeySteps /\ KeyNextStep))

\* The number after s.
LEMMA NextNumber ==
  ASSUME NEW s \in 0 .. SeqLimit - 1
  PROVE  (s + 1) % SeqLimit = IF s + 1 = SeqLimit THEN 0 ELSE s + 1
  BY KeyAssumption

\* Fewer than SeqLimit places on, the number is another one, ...
LEMMA LaterDiffers ==
  ASSUME NEW s \in 0 .. SeqLimit - 1, NEW n \in 1 .. SeqLimit - 1
  PROVE  Later(s, n) # s
  BY KeyAssumption DEF Later

\* ... and one place after it comes the next.
LEMMA LaterLater ==
  ASSUME NEW s \in 0 .. SeqLimit - 1, NEW n \in Nat, n + 1 < SeqLimit
  PROVE  Later(Later(s, n), 1) = Later(s, n + 1)
  BY KeyAssumption DEF Later

\* What a place of the history holds.
LEMMA KeyFields ==
  ASSUME KeyTypeOK, NEW a \in 1 .. Len(keys)
  PROVE  keys[a].seq \in 0 .. SeqLimit - 1 /\ keys[a].run \in Nat
<1>1. keys[a] \in CallKeyRecord
  BY DEF KeyTypeOK
<1> QED
  BY <1>1 DEF CallKeyRecord

\* Every variable of GenerateCallKey keeps its type.
LEMMA KeyTypes == KeyTypeOK /\ [KeyNext]_keyVars => KeyTypeOK'
<1> SUFFICES ASSUME KeyTypeOK, [KeyNext]_keyVars
             PROVE  KeyTypeOK'
  OBVIOUS
<1> USE KeyAssumption DEF KeyTypeOK, CallKeyRecord
<1>1. ASSUME NEW h \in 1 .. NHandler, CCtiIfHandler(h)
      PROVE  KeyTypeOK'
  <2>1. clash' \in BOOLEAN
    BY <1>1, Zenon DEF CCtiIfHandler
  <2> QED
    BY <1>1, <2>1 DEF CCtiIfHandler
<1>2. ASSUME NEW h \in 1 .. NHandler, key_lock(h)
      PROVE  KeyTypeOK'
  BY <1>2 DEF key_lock
<1>3. ASSUME NEW h \in 1 .. NHandler, key_format(h)
      PROVE  KeyTypeOK'
  BY <1>3 DEF key_format
<1>4. ASSUME NEW h \in 1 .. NHandler, key_bump(h)
      PROVE  KeyTypeOK'
  BY <1>4, NextNumber DEF key_bump
<1>5. CASE key_tick
  BY <1>5 DEF key_tick
<1>6. CASE key_restart
  BY <1>6 DEF key_restart
<1>7. CASE UNCHANGED keyVars
  BY <1>7 DEF keyVars
<1> QED
  BY <1>1, <1>2, <1>3, <1>4, <1>5, <1>6, <1>7 DEF KeyNext

\* Once the mutex was initialised while it was held, it stays recorded.
LEMMA ClashStays == clash /\ [KeyNext]_keyVars => clash'
  BY Zenon DEF KeyNext, CCtiIfHandler, key_lock, key_format, key_bump, key_tick,
     key_restart, keyVars

\* A key is made of the present run.
LEMMA KeyRunsStep == KeyTypeOK /\ KeyRuns /\ [KeyNext]_keyVars => KeyRuns'
<1> SUFFICES ASSUME KeyTypeOK, KeyRuns, [KeyNext]_keyVars
             PROVE  KeyRuns'
  OBVIOUS
<1> USE DEF KeyTypeOK, KeyRuns
<1>1. ASSUME NEW h \in 1 .. NHandler, key_format(h)
      PROVE  KeyRuns'
  BY <1>1 DEF key_format
<1>2. CASE key_restart
  BY <1>2, KeyFields DEF key_restart
<1>3. ASSUME UNCHANGED <<keys, nRestart>>
      PROVE  KeyRuns'
  BY <1>3
<1> QED
  BY <1>1, <1>2, <1>3 DEF KeyNext, CCtiIfHandler, key_lock, key_bump, key_tick, keyVars

\* As long as no handler is created while another one makes a key, the mutex makes
\* the numbers follow one another.
LEMMA KeyOrderStep ==
  ASSUME KeyTypeOK, KeyRuns, KeyMutex, KeySteps, KeyNextStep, [KeyNext]_keyVars, ~clash'
  PROVE  KeyMutex' /\ KeySteps' /\ KeyNextStep'
<1> USE KeyAssumption DEF KeyTypeOK
<1>1. ASSUME NEW h \in 1 .. NHandler, CCtiIfHandler(h)
      PROVE  KeyMutex' /\ KeySteps' /\ KeyNextStep'
  <2>1. m_callkeyMutex = 0
    BY <1>1, Zenon DEF CCtiIfHandler
  <2>2. KeyMutex'
    BY <1>1, <2>1 DEF CCtiIfHandler, KeyMutex
  <2>3. UNCHANGED <<keys, nRestart, m_nCallKeySeqNo>>
    BY <1>1 DEF CCtiIfHandler
  <2>4. \A g \in 1 .. NHandler : keyPc'[g] = "bump" <=> keyPc[g] = "bump"
    BY <1>1 DEF CCtiIfHandler
  <2>5. Made' = Made
    BY <2>3, <2>4 DEF Made
  <2> QED
    BY <2>2, <2>3, <2>5 DEF KeySteps, KeyNextStep, Later
<1>2. ASSUME NEW h \in 1 .. NHandler, key_lock(h)
      PROVE  KeyMutex' /\ KeySteps' /\ KeyNextStep'
  <2>1. KeyMutex'
    BY <1>2 DEF key_lock, KeyMutex
  <2>2. UNCHANGED <<keys, nRestart, m_nCallKeySeqNo>>
    BY <1>2 DEF key_lock
  <2>3. \A g \in 1 .. NHandler : keyPc'[g] = "bump" <=> keyPc[g] = "bump"
    BY <1>2 DEF key_lock
  <2>4. Made' = Made
    BY <2>2, <2>3 DEF Made
  <2> QED
    BY <2>1, <2>2, <2>4 DEF KeySteps, KeyNextStep, Later
<1>3. ASSUME NEW h \in 1 .. NHandler, key_format(h)
      PROVE  KeyMutex' /\ KeySteps' /\ KeyNextStep'
  <2>1. KeyMutex'
    BY <1>3 DEF key_format, KeyMutex
  <2>2. \A g \in 1 .. NHandler : keyPc[g] # "bump"
    BY <1>3 DEF key_format, KeyMutex
  <2>3. Made = Len(keys) + 1
    BY <2>2 DEF Made
  <2>4. keyPc'[h] = "bump"
    BY <1>3 DEF key_format
  <2>5. Len(keys') = Len(keys) + 1
    BY <1>3 DEF key_format
  <2>6. Made' = Len(keys) + 1
    BY <2>4, <2>5 DEF Made
  <2>7. /\ keys'[Len(keys) + 1].seq = m_nCallKeySeqNo
        /\ keys'[Len(keys) + 1].run = nRestart
        /\ \A a \in 1 .. Len(keys) : keys'[a] = keys[a]
        /\ UNCHANGED <<nRestart, m_nCallKeySeqNo>>
    BY <1>3 DEF key_format
  <2>8. KeySteps'
    <3> SUFFICES ASSUME NEW a \in 1 .. Len(keys) + 1, NEW b \in 1 .. Len(keys) + 1,
                        a < b, b - a < SeqLimit, keys'[a].run = keys'[b].run
                 PROVE  keys'[b].seq = Later(keys'[a].seq, b - a)
      BY <2>5 DEF KeySteps, Later
    <3>1. a \in 1 .. Len(keys) /\ keys'[a] = keys[a]
      BY <2>7
    <3>2. CASE b = Len(keys) + 1
      <4>1. keys[a].run = nRestart
        BY <2>7, <3>1, <3>2
      <4> QED
        BY <2>3, <2>7, <3>1, <3>2, <4>1 DEF KeyNextStep
    <3>3. CASE b \in 1 .. Len(keys)
      BY <2>7, <3>1, <3>3 DEF KeySteps
    <3> QED
      BY <3>2, <3>3
  <2>9. KeyNextStep'
    <3> SUFFICES ASSUME NEW a \in 1 .. Len(keys) + 1, Len(keys) + 1 - a < SeqLimit,
                        keys'[a].run = nRestart
                 PROVE  m_nCallKeySeqNo = Later(keys'[a].seq, Len(keys) + 1 - a)
      BY <2>5, <2>6, <2>7 DEF KeyNextStep, Later
    <3>1. CASE a = Len(keys) + 1
      BY <2>7, <3>1 DEF Later
    <3>2. CASE a \in 1 .. Len(keys)
      BY <2>3, <2>7, <3>2 DEF KeyNextStep
    <3> QED
      BY <3>1, <3>2
  <2> QED
    BY <2>1, <2>8, <2>9
<1>4. ASSUME NEW h \in 1 .. NHandler, key_bump(h)
      PROVE  KeyMutex' /\ KeySteps' /\ KeyNextStep'
  <2>1. KeyMutex'
    BY <1>4 DEF key_bump, KeyMutex
  <2>2. UNCHANGED <<keys, nRestart>>
    BY <1>4 DEF key_bump
  <2>3. Made = Len(keys)
    BY <1>4 DEF key_bump, Made
  <2>4. \A g \in 1 .. NHandler : keyPc'[g] # "bump"
    BY <1>4 DEF key_bump, KeyMutex
  <2>5. Made' = Len(keys) + 1
    BY <2>2, <2>4 DEF Made
  <2>6. m_nCallKeySeqNo' = Later(m_nCallKeySeqNo, 1)
    BY <1>4, NextNumber DEF key_bump, Later
  <2>7. ASSUME NEW a \in 1 .. Len(keys), Len(keys) + 1 - a < SeqLimit, keys[a].run = nRestart
        PROVE  m_nCallKeySeqNo' = Later(keys[a].seq, Len(keys) + 1 - a)
    <3>1. m_nCallKeySeqNo = Later(keys[a].seq, Len(keys) - a)
      BY <2>3, <2>7 DEF KeyNextStep
    <3>2. keys[a].seq \in 0 .. SeqLimit - 1
      BY KeyFields
    <3>3. Len(keys) - a \in Nat /\ Len(keys) + 1 - a = (Len(keys) - a) + 1
      OBVIOUS
    <3> QED
      BY <2>6, <2>7, <3>1, <3>2, <3>3, LaterLater
  <2>8. KeyNextStep'
    BY <2>2, <2>5, <2>7 DEF KeyNextStep, Later
  <2> QED
    BY <2>1, <2>2, <2>8 DEF KeySteps, Later
<1>5. CASE key_tick
  BY <1>5 DEF key_tick, KeyMutex, KeySteps, KeyNextStep, Made, Later
<1>6. CASE key_restart
  <2>1. UNCHANGED keys /\ nRestart' = nRestart + 1
    BY <1>6 DEF key_restart
  <2>2. KeyMutex'
    BY <1>6 DEF key_restart, KeyMutex
  <2>3. KeyNextStep'
    BY <2>1 DEF KeyRuns, KeyNextStep
  <2> QED
    BY <2>1, <2>2, <2>3 DEF KeySteps, Later
<1>7. CASE UNCHANGED keyVars
  BY <1>7 DEF keyVars, KeyMutex, KeySteps, KeyNextStep, Made, Later
<1> QED
  BY <1>1, <1>2, <1>3, <1>4, <1>5, <1>6, <1>7 DEF KeyNext

\* Two keys of a run that are less than SeqLimit keys apart have different numbers,
\* however the handlers take turns.
LEMMA KeysDiffer == KeyIInv => CallKeysUnique
<1> SUFFICES ASSUME KeyIInv, ~clash,
                    NEW a \in 1 .. Len(keys), NEW b \in 1 .. Len(keys),
                    a < b, b - a < SeqLimit, keys[a].run = keys[b].run
             PROVE  keys[a].seq # keys[b].seq
  BY KeyAssumption DEF CallKeysUnique, SameKey
<1>1. keys[b].seq = Later(keys[a].seq, b - a)
  BY DEF KeyIInv, KeySteps
<1>2. keys[a].seq \in 0 .. SeqLimit - 1
  BY KeyFields DEF KeyIInv
<1>3. b - a \in 1 .. SeqLimit - 1
  BY KeyAssumption
<1> QED
  BY <1>1, <1>2, <1>3, LaterDiffers

\* Keys repeat only when the number has wrapped, a month lies between them, the
\* gateway was restarted, or a handler was created while another one made a key:
\* for any number of handlers and any limit of the number.
THEOREM CallKeysAlwaysUnique == KeySpec => []CallKeysUnique
<1>1. KeyInit => KeyIInv
  <2> SUFFICES ASSUME KeyInit
               PROVE  KeyIInv
    OBVIOUS
  <2>1. clash \in BOOLEAN
    BY Zenon DEF KeyInit
  <2>2. KeyTypeOK
    BY <2>1, KeyAssumption DEF KeyInit, KeyTypeOK
  <2>3. KeyRuns /\ KeyMutex /\ KeySteps /\ KeyNextStep
    BY DEF KeyInit, KeyRuns, KeyMutex, KeySteps, KeyNextStep
  <2> QED
    BY <2>2, <2>3 DEF KeyIInv
<1>2. KeyIInv /\ [KeyNext]_keyVars => KeyIInv'
  BY KeyTypes, ClashStays, KeyRunsStep, KeyOrderStep, Zenon DEF KeyIInv
<1> QED
  BY <1>1, <1>2, KeysDiffer, PTL DEF KeySpec

-----------------------------------------------------------------------------
(* HeartbeatTime *)

\* The types of the variables that a heartbeat depends on.  (The day of the month
\* does not matter: whatever it says, DiffTime is too small only near the time of
\* day that is stored.)
HbTypeOK ==
  /\ second \in 0 .. DaySeconds - 1
  /\ m_sentTime \in (0 .. DaySeconds - 1) \cup {Wild}
  /\ polled \in 0 .. Period
  /\ silent \in 0 .. MaxSilent
  /\ idle \in 0 .. DaySeconds

\* While GetSentTime has not stored the time of an event, no second passes.
JustSent == sentPc # "idle" => silent = 0 /\ idle = 0

\* Seconds since the time of day was last the one that is stored.
Phase == IF second >= m_sentTime THEN second - m_sentTime ELSE DaySeconds + second - m_sentTime

\* A heartbeat may be left out from Period - 1 seconds before that time of day to
\* Period - 1 seconds after it: seconds since the beginning of this window.
InWindow == IF Phase + Period - 1 < DaySeconds THEN Phase + Period - 1
            ELSE Phase + Period - 1 - DaySeconds

\* When the last poll timed out, in the same count; negative before the window.
LastTimeout == InWindow - polled

\* Up to that poll no more silence has gathered than the polls that timed out
\* within the window can leave: none before or after it, one period if that poll
\* was the first in the window, two if it was the second.
SilenceAtTimeout ==
  m_sentTime # Wild =>
    /\ silent - polled <= 2 * Period
    /\ LastTimeout < Period => silent - polled <= Period
    /\ LastTimeout < 0 \/ LastTimeout >= 2 * Period - 1 => silent - polled <= 0

\* Within a day of an event the time stored is the time of the event.
EventStored ==
  idle < DaySeconds =>
    /\ silent <= idle
    /\ sentPc = "idle" => m_sentTime # Wild /\ Phase = idle

HbIInv == HbTypeOK /\ JustSent /\ SilenceAtTimeout /\ EventStored

\* A heartbeat is left out only near the time of day that is stored.
LEMMA LeftOutInWindow ==
  ASSUME HbTypeOK, m_sentTime # Wild, DiffTime(day, second) < Period
  PROVE  InWindow <= 2 * Period - 2
  BY HeartbeatAssumption DEF HbTypeOK, DiffTime, abs, Phase, InWindow

\* The silence that has gathered is kept by every step.
LEMMA HbStep == HbIInv /\ [HbNext]_hbVars => HbIInv'
<1> SUFFICES ASSUME HbIInv, [HbNext]_hbVars
             PROVE  HbIInv'
  OBVIOUS
<1> USE HeartbeatAssumption DEF HbIInv, HbTypeOK, MaxSilent, Wild
<1>1. CASE hb_event
  BY <1>1 DEF hb_event, JustSent, SilenceAtTimeout, EventStored, LastTimeout, InWindow, Phase
<1>2. CASE GetSentTime
  BY <1>2 DEF GetSentTime, JustSent, SilenceAtTimeout, EventStored, LastTimeout, InWindow, Phase
<1>3. CASE hb_timeout
  <2>0. DiffTime(day, second) \in Int
    BY DEF DiffTime, abs
  <2>1. CASE DiffTime(day, second) < Period
    BY <1>3, <2>1, LeftOutInWindow
       DEF hb_timeout, JustSent, SilenceAtTimeout, EventStored, LastTimeout, InWindow, Phase
  <2>2. CASE DiffTime(day, second) >= Period
    BY <1>3, <2>2
       DEF hb_timeout, JustSent, SilenceAtTimeout, EventStored, LastTimeout, InWindow, Phase
  <2> QED
    BY <2>0, <2>1, <2>2
<1>4. CASE hb_receive
  BY <1>4 DEF hb_receive, JustSent, SilenceAtTimeout, EventStored, LastTimeout, InWindow, Phase
<1>5. CASE hb_tick
  BY <1>5 DEF hb_tick, Cap, JustSent, SilenceAtTimeout, EventStored, LastTimeout, InWindow, Phase
<1>6. CASE UNCHANGED hbVars
  BY <1>6 DEF hbVars, JustSent, SilenceAtTimeout, EventStored, LastTimeout, InWindow, Phase
<1> QED
  BY <1>1, <1>2, <1>3, <1>4, <1>5, <1>6 DEF HbNext

\* What the invariant says of the time since the last event.
LEMMA SilenceFollows == HbIInv => SilenceBounded
  BY HeartbeatAssumption DEF HbIInv, HbTypeOK, JustSent, SilenceAtTimeout, EventStored, LastTimeout,
     InWindow, Phase, SilenceBounded

\* A connection is never silent for more than three periods, and within a day of an
\* event for less than two, for every period that is less than a quarter of a day
\* and all lengths of months.
THEOREM SilenceAlwaysBounded == HbSpec => []SilenceBounded
<1>1. HbInit => HbIInv
  BY HeartbeatAssumption DEF HbInit, HbIInv, HbTypeOK, MaxSilent, Wild, JustSent,
     SilenceAtTimeout, EventStored, LastTimeout, InWindow, Phase
<1> QED
  BY <1>1, HbStep, SilenceFollows, PTL DEF HbSpec

-----------------------------------------------------------------------------
(* LogFile: the calendar *)

\* The remainder moves on with its number.
LEMMA RemainderMoves ==
  ASSUME NEW S \in Nat \ {0}, NEW d \in Nat, NEW q \in Nat, q < S
  PROVE  (d + q) % S = IF (d % S) + q < S THEN (d % S) + q ELSE (d % S) + q - S
<1> DEFINE k == d \div S
           r == d % S
<1>1. k \in Nat /\ r \in 0 .. S - 1 /\ d = (S * k) + r
  OBVIOUS
<1> HIDE DEF k, r
<1>2. ASSUME NEW n \in Nat, NEW x \in 0 .. S - 1
      PROVE  ((S * n) + x) % S = x
  OBVIOUS
<1>3. CASE r + q < S
  <2>1. d + q = (S * k) + (r + q) /\ r + q \in 0 .. S - 1
    BY <1>1, <1>3
  <2> QED
    BY <1>1, <1>2, <1>3, <2>1 DEF r
<1>4. CASE ~(r + q < S)
  <2>1. S * (k + 1) = (S * k) + S
    BY <1>1
  <2>2. d + q = (S * (k + 1)) + (r + q - S) /\ r + q - S \in 0 .. S - 1 /\ k + 1 \in Nat
    BY <1>1, <1>4, <2>1
  <2>3. (d + q) % S = r + q - S
    BY <1>2, <2>2
  <2> QED
    BY <1>4, <2>3 DEF r
<1> QED
  BY <1>3, <1>4

\* The year of a day is the year of its month.
LEMMA YearOfMonth ==
  ASSUME NEW d \in Nat
  PROVE  Year(d) = ((d \div DaysInMonth) \div MonthsInYear) + 1
<1> DEFINE k == d \div DaysInMonth
           y == k \div MonthsInYear
           r == d - (DaysInMonth * MonthsInYear) * y
<1>1. k \in Nat /\ DaysInMonth * k <= d /\ d < DaysInMonth * k + DaysInMonth
  BY LogAssumption
<1>2. y \in Nat /\ MonthsInYear * y <= k /\ k + 1 <= MonthsInYear * y + MonthsInYear
  BY <1>1, LogAssumption
<1> HIDE DEF k, y
<1>3. DaysInMonth * (MonthsInYear * y) <= DaysInMonth * k
  BY <1>1, <1>2, LogAssumption
<1>4. DaysInMonth * (k + 1) <= DaysInMonth * (MonthsInYear * y + MonthsInYear)
  BY <1>1, <1>2, LogAssumption
<1>5. r \in 0 .. DaysInMonth * MonthsInYear - 1
  BY <1>1, <1>2, <1>3, <1>4, LogAssumption
<1>6. d = (DaysInMonth * MonthsInYear) * y + r
  BY <1>2, LogAssumption
<1>7. DaysInMonth * MonthsInYear \in Nat \ {0}
  BY LogAssumption
<1> HIDE DEF r
<1>8. d \div (DaysInMonth * MonthsInYear) = y
  BY <1>2, <1>5, <1>6, <1>7
<1> QED
  BY <1>8 DEF Year, k, y

\* Less than a month later the day of the month is the same only on the same day.
LEMMA SameDay ==
  ASSUME NEW d \in Nat, NEW q \in Nat, q < DaysInMonth, DayOf(d) = DayOf(d + q)
  PROVE  q = 0
<1>1. d % DaysInMonth \in 0 .. DaysInMonth - 1
  BY LogAssumption
<1>2. d % DaysInMonth = (d + q) % DaysInMonth
  BY LogAssumption DEF DayOf
<1>3. (d + q) % DaysInMonth =
        IF (d % DaysInMonth) + q < DaysInMonth
          THEN (d % DaysInMonth) + q ELSE (d % DaysInMonth) + q - DaysInMonth
  BY RemainderMoves, LogAssumption
<1> QED
  BY <1>1, <1>2, <1>3, LogAssumption

\* Less than a month later the month is the same only in the same year.
LEMMA SameMonth ==
  ASSUME NEW d \in Nat, NEW q \in Nat, q < DaysInMonth, Month(d) = Month(d + q)
  PROVE  Year(d) = Year(d + q)
<1> DEFINE k == d \div DaysInMonth
           j == (d + q) \div DaysInMonth
<1>1. k \in Nat /\ (j = k \/ j = k + 1)
  BY LogAssumption
<1>2. k % MonthsInYear = j % MonthsInYear
  BY LogAssumption DEF Month
<1> HIDE DEF k, j
<1>3. j # k + 1
  <2>1. k % MonthsInYear \in 0 .. MonthsInYear - 1
    BY <1>1, LogAssumption
  <2>2. (k + 1) % MonthsInYear =
          IF (k % MonthsInYear) + 1 < MonthsInYear
            THEN (k % MonthsInYear) + 1 ELSE (k % MonthsInYear) + 1 - MonthsInYear
    <3>1. MonthsInYear \in Nat \ {0} /\ 1 \in Nat /\ 1 < MonthsInYear /\ k \in Nat
      BY <1>1, LogAssumption
    <3> QED
      BY <3>1, RemainderMoves, Zenon
  <2> QED
    BY <1>1, <1>2, <2>1, <2>2, LogAssumption
<1>4. j = k
  BY <1>1, <1>3
<1> QED
  BY <1>4, YearOfMonth DEF k, j

\* Years, months and days are counted from 1; 0 is none of them.
LEMMA FromOne ==
  ASSUME NEW d \in Nat
  PROVE  Month(d) # 0 /\ DayOf(d) # 0
  BY LogAssumption DEF Month, DayOf

-----------------------------------------------------------------------------
(* LogFile: the names *)

\* The types of the variables that the place of a line depends on.
LogTypeOK ==
  /\ today \in Nat /\ quiet \in Nat /\ logDate \in Nat
  /\ nLines \in Nat /\ g_filecount \in Nat
  /\ longQuiet \in BOOLEAN

\* No line has been written since the process began.
NotLooked == curyear = 0 /\ curmon = 0 /\ curday = 0

\* The day on which the names were last looked at.
LookDate == today - quiet

\* The names are those of that day, and the files with smaller numbers exist.
Looked ==
  /\ LookDate \in Nat
  /\ curyear = Year(LookDate) /\ curmon = Month(LookDate) /\ curday = DayOf(LookDate)
  /\ g_szLogFilenameDir = <<curyear, curmon>>
  /\ g_szLogFilename = <<g_szLogFilenameDir, curmon, curday, g_filecount>>
  /\ \A n \in 0 .. g_filecount - 1 :
       <<g_szLogFilenameDir, curmon, curday, n>> \in DOMAIN logFiles

NamesOK == longQuiet \/ NotLooked \/ Looked

\* A thread that is about to write has looked at the names.
WritesToday ==
  g_LogMutex # NoThread /\ logKind \in {"LogPrintf", "LogTCP"} =>
    longQuiet \/ (Looked /\ logDate = LookDate)

\* Every file has a line, and the line that is being written is counted already.
LinesCounted ==
  /\ IsFiniteSet(DOMAIN logFiles)
  /\ Cardinality(DOMAIN logFiles) + (IF g_LogMutex = NoThread THEN 0 ELSE 1) <= nLines

LogIInv == LogTypeOK /\ NamesOK /\ WritesToday /\ LinesCounted /\ LineInPlace

\* The names stay those of the day they were made for while they are not touched
\* and no file disappears.
LEMMA LookedStays ==
  ASSUME Looked, UNCHANGED logNames, LookDate' = LookDate,
         DOMAIN logFiles \subseteq DOMAIN logFiles'
  PROVE  Looked'
<1>1. UNCHANGED <<curyear, curmon, curday, g_szLogFilenameDir, g_szLogFilename, g_filecount>>
  BY DEF logNames
<1> QED
  BY <1>1, Zenon DEF Looked

\* The last line stays where it is.
LEMMA LineStays ==
  ASSUME LogTypeOK, LineInPlace, UNCHANGED lastLine, nLines' \in Nat, nLines <= nLines',
         longQuiet => longQuiet'
  PROVE  LineInPlace'
<1> SUFFICES ASSUME lastLine # NoLine, ~longQuiet
             PROVE  /\ \E n \in 0 .. nLines' :
                         lastLine.file =
                           Filename(<<Year(lastLine.date), Month(lastLine.date)>>, lastLine.date, n)
                    /\ lastLine.kind = "LogPrintf" => lastLine.before <= LogLimit
  BY Zenon DEF LineInPlace
<1>1. PICK n \in 0 .. nLines :
        lastLine.file = Filename(<<Year(lastLine.date), Month(lastLine.date)>>, lastLine.date, n)
  BY Zenon DEF LineInPlace
<1>2. n \in 0 .. nLines'
  BY DEF LogTypeOK
<1> QED
  BY <1>1, <1>2, Zenon DEF LineInPlace

\* The number of the present file is at most the number of files.
LEMMA NumberOfFiles ==
  ASSUME LogTypeOK, Looked, LinesCounted
  PROVE  g_filecount <= Cardinality(DOMAIN logFiles)
<1> DEFINE S == 0 .. g_filecount - 1
           T == DOMAIN logFiles
           f == [n \in S |-> <<g_szLogFilenameDir, curmon, curday, n>>]
<1>1. IsFiniteSet(S) /\ Cardinality(S) = g_filecount
  <2>1. g_filecount - 1 \in Int /\ 0 \in Int
    BY DEF LogTypeOK
  <2> QED
    BY <2>1, FS_Interval DEF LogTypeOK
<1>2. IsFiniteSet(T) /\ Cardinality(T) \in Nat
  BY FS_CardinalityType DEF LinesCounted
<1>3. f \in [S -> T]
  BY DEF Looked
<1>4. \A x, y \in S : x # y => f[x] # f[y]
  OBVIOUS
<1> HIDE DEF S, T, f
<1>5. ~(Cardinality(T) < Cardinality(S))
  BY <1>1, <1>2, <1>3, <1>4, FS_PigeonHole
<1> QED
  BY <1>1, <1>2, <1>5 DEF T, LogTypeOK

\* Looking at the names less than a month after the last time makes them those of
\* today.
LEMMA LookAgain ==
  ASSUME LogTypeOK, NotLooked \/ Looked, quiet < DaysInMonth,
         get_log_filename(today), quiet' = 0, UNCHANGED <<today, logFiles>>
  PROVE  Looked'
<1>1. LookDate' = today /\ today \in Nat
  BY DEF LookDate, LogTypeOK
<1>2. curyear' = Year(today) /\ curmon' = Month(today) /\ curday' = DayOf(today)
  BY DEF get_log_filename
<1>3. CASE NotLooked
  <2>1. curmon # Month(today) /\ curday # DayOf(today)
    BY <1>1, <1>3, FromOne DEF NotLooked
  <2>2. /\ g_szLogFilenameDir' = <<Year(today), Month(today)>>
        /\ g_filecount' = 0
        /\ g_szLogFilename' = <<g_szLogFilenameDir', Month(today), DayOf(today), 0>>
    BY <2>1 DEF get_log_filename, Filename
  <2> QED
    BY <1>1, <1>2, <2>2 DEF Looked
<1>4. CASE Looked
  <2>1. LookDate \in Nat /\ today = LookDate + quiet /\ quiet \in Nat
    BY <1>4 DEF Looked, LookDate, LogTypeOK
  <2>2. CASE curday = DayOf(today)
    <3>1. quiet = 0
      BY <1>4, <2>1, <2>2, SameDay DEF Looked
    <3>2. today = LookDate
      BY <2>1, <3>1
    <3>3. UNCHANGED <<curyear, curmon, curday>>
      BY <1>2, <1>4, <3>2 DEF Looked
    <3>4. UNCHANGED <<g_szLogFilenameDir, g_filecount, g_szLogFilename>>
      BY <1>4, <2>2, <3>2 DEF get_log_filename, Looked
    <3> QED
      BY <1>1, <1>4, <3>2, <3>3, <3>4, Zenon DEF Looked
  <2>3. CASE curday # DayOf(today)
    <3>1. g_szLogFilenameDir' = <<Year(today), Month(today)>>
      <4>1. CASE curmon # Month(today)
        BY <4>1 DEF get_log_filename
      <4>2. CASE curmon = Month(today)
        <5>1. curyear = Year(today)
          BY <1>4, <2>1, <4>2, SameMonth DEF Looked
        <5> QED
          BY <1>4, <4>2, <5>1 DEF get_log_filename, Looked
      <4> QED
        BY <4>1, <4>2
    <3>2. /\ g_filecount' = 0
          /\ g_szLogFilename' = <<g_szLogFilenameDir', Month(today), DayOf(today), 0>>
      BY <2>3 DEF get_log_filename, Filename
    <3> QED
      BY <1>1, <1>2, <3>1, <3>2 DEF Looked
  <2> QED
    BY <2>2, <2>3
<1> QED
  BY <1>3, <1>4

\* Every step keeps the names, the counts and the place of the last line.
LEMMA LogInvStep == LogIInv /\ [LogNext]_logVars => LogIInv'
<1> SUFFICES ASSUME LogIInv, [LogNext]_logVars
             PROVE  LogIInv'
  OBVIOUS
<1> USE LogAssumption
<1>0. /\ LogTypeOK /\ NamesOK /\ WritesToday /\ LinesCounted /\ LineInPlace
      /\ Cardinality(DOMAIN logFiles) \in Nat
  BY FS_CardinalityType DEF LogIInv, LinesCounted
<1>1. ASSUME NEW t \in LogThreads, NEW kind \in {"LogPrintf", "LogTCP"}, log_lock(t, kind)
      PROVE  LogIInv'
  <2>1. LogTypeOK'
    <3>1. longQuiet' \in BOOLEAN
      BY <1>1, Zenon DEF log_lock
    <3> QED
      BY <1>0, <1>1, <3>1 DEF log_lock, LogTypeOK, get_log_filename
  <2>2. longQuiet' \/ (Looked' /\ logDate' = LookDate')
    <3> SUFFICES ASSUME ~longQuiet'
                 PROVE  Looked' /\ logDate' = LookDate'
      OBVIOUS
    <3>1. ~longQuiet /\ ~(quiet >= DaysInMonth)
      BY <1>1, Zenon DEF log_lock
    <3>2. quiet < DaysInMonth
      BY <1>0, <3>1 DEF LogTypeOK
    <3>3. NotLooked \/ Looked
      BY <1>0, <3>1, Zenon DEF NamesOK
    <3>4. Looked'
      BY <1>0, <1>1, <3>2, <3>3, LookAgain DEF log_lock
    <3> QED
      BY <1>0, <1>1, <3>4 DEF log_lock, LookDate, LogTypeOK
  <2>3. NamesOK' /\ WritesToday'
    BY <2>2, Zenon DEF NamesOK, WritesToday
  <2>4. LinesCounted'
    BY <1>0, <1>1 DEF log_lock, LinesCounted, LogTypeOK
  <2>5. LineInPlace'
    <3>1. longQuiet => longQuiet'
      BY <1>1, Zenon DEF log_lock
    <3> QED
      BY <1>0, <1>1, <3>1, LineStays DEF log_lock, LogTypeOK
  <2> QED
    BY <2>1, <2>3, <2>4, <2>5 DEF LogIInv
<1>2. ASSUME NEW t \in LogThreads, log_lockError(t)
      PROVE  LogIInv'
  <2>1. LogTypeOK'
    BY <1>0, <1>2 DEF log_lockError, LogTypeOK, logNames
  <2>2. NamesOK'
    <3>1. UNCHANGED <<longQuiet, logNames, today, quiet, logFiles, curyear, curmon, curday>>
      BY <1>2 DEF log_lockError, logNames
    <3>2. LookDate' = LookDate
      BY <3>1 DEF LookDate
    <3>3. Looked => Looked'
      BY <3>1, <3>2, LookedStays, Zenon
    <3> QED
      BY <1>0, <3>1, <3>3, Zenon DEF NamesOK, NotLooked
  <2>3. WritesToday'
    BY <1>2 DEF log_lockError, WritesToday
  <2>4. LinesCounted'
    BY <1>0, <1>2 DEF log_lockError, LinesCounted, LogTypeOK
  <2>5. LineInPlace'
    BY <1>0, <1>2, LineStays DEF log_lockError, LogTypeOK
  <2> QED
    BY <2>1, <2>2, <2>3, <2>4, <2>5 DEF LogIInv
<1>3. CASE log_rotate
  <2>1. LogTypeOK'
    BY <1>0, <1>3 DEF log_rotate, LogTypeOK
  <2>2. longQuiet' \/ (Looked' /\ logDate' = LookDate')
    <3> SUFFICES ASSUME ~longQuiet
                 PROVE  Looked' /\ logDate' = LookDate'
      BY <1>3 DEF log_rotate
    <3>1. Looked /\ logDate = LookDate
      BY <1>0, <1>3 DEF log_rotate, Holder, WritesToday
    <3>2. /\ UNCHANGED <<curyear, curmon, curday, g_szLogFilenameDir, logDate, logFiles>>
          /\ LookDate' = LookDate
      BY <1>3 DEF log_rotate, LookDate
    <3>3. g_filecount' = g_filecount + 1 /\ g_filecount \in Nat
      BY <1>0, <1>3 DEF log_rotate, LogTypeOK
    <3>4. g_szLogFilename' = <<g_szLogFilenameDir, curmon, curday, g_filecount'>>
      BY <1>3, <3>1 DEF log_rotate, Filename, Looked
    <3>5. g_szLogFilename \in DOMAIN logFiles
      BY <1>3 DEF log_rotate, SizeOf
    <3>6. ASSUME NEW n \in 0 .. g_filecount' - 1
          PROVE  <<g_szLogFilenameDir, curmon, curday, n>> \in DOMAIN logFiles
      <4>1. n = g_filecount \/ n \in 0 .. g_filecount - 1
        BY <3>3
      <4> QED
        BY <3>1, <3>5, <4>1, Zenon DEF Looked
    <3> QED
      BY <3>1, <3>2, <3>4, <3>6, Zenon DEF Looked
  <2>3. NamesOK' /\ WritesToday'
    BY <2>2, Zenon DEF NamesOK, WritesToday
  <2>4. LinesCounted'
    BY <1>0, <1>3 DEF log_rotate, LinesCounted
  <2>5. LineInPlace'
    BY <1>0, <1>3, LineStays DEF log_rotate, LogTypeOK
  <2> QED
    BY <2>1, <2>3, <2>4, <2>5 DEF LogIInv
<1>4. CASE log_write
  <2>1. LogTypeOK'
    BY <1>0, <1>4 DEF log_write, LogTypeOK, logNames
  <2>2. DOMAIN logFiles' = DOMAIN logFiles \cup {g_szLogFilename}
    BY <1>4 DEF log_write
  <2>3. UNCHANGED <<longQuiet, logNames, today, quiet, nLines, curyear, curmon, curday>>
    BY <1>4 DEF log_write, logNames
  <2>4. NamesOK'
    <3>1. LookDate' = LookDate
      BY <2>3 DEF LookDate
    <3>2. Looked => Looked'
      BY <2>2, <2>3, <3>1, LookedStays, Zenon
    <3> QED
      BY <1>0, <2>3, <3>2, Zenon DEF NamesOK, NotLooked
  <2>5. g_LogMutex # NoThread /\ g_LogMutex' = NoThread /\ logKind \in {"LogPrintf", "LogTCP"}
    BY <1>4 DEF log_write, Holder
  <2>6. WritesToday'
    BY <2>5, Zenon DEF WritesToday
  <2>7. LinesCounted'
    <3>1. IsFiniteSet(DOMAIN logFiles')
          /\ Cardinality(DOMAIN logFiles') <= Cardinality(DOMAIN logFiles) + 1
      BY <1>0, <2>2, FS_AddElement DEF LinesCounted
    <3>2. Cardinality(DOMAIN logFiles') \in Nat
      BY <3>1, FS_CardinalityType
    <3> QED
      BY <1>0, <2>3, <2>5, <3>1, <3>2 DEF LinesCounted, LogTypeOK
  <2>8. LineInPlace'
    <3> SUFFICES ASSUME ~longQuiet
                 PROVE  /\ \E n \in 0 .. nLines' :
                             lastLine'.file =
                               Filename(<<Year(lastLine'.date), Month(lastLine'.date)>>,
                                        lastLine'.date, n)
                        /\ lastLine'.kind = "LogPrintf" => lastLine'.before <= LogLimit
      BY <2>3, Zenon DEF LineInPlace
    <3>1. Looked /\ logDate = LookDate
      BY <1>0, <2>5, Zenon DEF WritesToday
    <3>2. /\ lastLine'.date = logDate /\ lastLine'.file = g_szLogFilename
          /\ lastLine'.kind = logKind /\ lastLine'.before = SizeOf(g_szLogFilename)
      BY <1>4 DEF log_write
    <3>3. g_filecount \in 0 .. nLines'
      BY <1>0, <2>3, <2>5, <3>1, NumberOfFiles DEF LinesCounted, LogTypeOK
    <3>4. lastLine'.file =
            Filename(<<Year(lastLine'.date), Month(lastLine'.date)>>, lastLine'.date, g_filecount)
      BY <3>1, <3>2 DEF Looked, Filename
    <3>5. lastLine'.kind = "LogPrintf" => lastLine'.before <= LogLimit
      BY <1>4, <3>2 DEF log_write
    <3> QED
      BY <3>3, <3>4, <3>5, Zenon
  <2> QED
    BY <2>1, <2>4, <2>6, <2>7, <2>8 DEF LogIInv
<1>5. ASSUME UNCHANGED <<today, quiet, logDate, logNames, logFiles, nLines, longQuiet, lastLine>>,
             \/ UNCHANGED <<g_LogMutex, logKind>>
             \/ g_LogMutex' = NoThread
      PROVE  LogIInv'
  <2>1. LogTypeOK'
    BY <1>0, <1>5 DEF LogTypeOK, logNames
  <2>2. UNCHANGED <<curyear, curmon, curday>> /\ LookDate' = LookDate
    BY <1>5 DEF logNames, LookDate
  <2>3. Looked => Looked'
    BY <1>5, <2>2, LookedStays, Zenon
  <2>4. NamesOK'
    BY <1>0, <1>5, <2>2, <2>3, Zenon DEF NamesOK, NotLooked
  <2>5. WritesToday'
    BY <1>0, <1>5, <2>2, <2>3, Zenon DEF WritesToday
  <2>6. LinesCounted'
    BY <1>0, <1>5 DEF LinesCounted, LogTypeOK
  <2>7. LineInPlace'
    BY <1>0, <1>5, LineStays DEF LogTypeOK
  <2> QED
    BY <2>1, <2>4, <2>5, <2>6, <2>7 DEF LogIInv
<1>6. CASE log_skip
  BY <1>5, <1>6 DEF log_skip
<1>7. ASSUME NEW t \in LogThreads, signal_caught(t)
      PROVE  LogIInv'
  BY <1>5, <1>7 DEF signal_caught
<1>8. CASE signal_exit
  BY <1>5, <1>8 DEF signal_exit
<1>9. CASE log_crash
  BY <1>5, <1>9 DEF log_crash
<1>10. CASE log_boot
  <2>1. LogTypeOK'
    <3>1. longQuiet' \in BOOLEAN
      BY <1>10, Zenon DEF log_boot, LogFresh
    <3> QED
      BY <1>0, <1>10, <3>1 DEF log_boot, LogFresh, LogTypeOK
  <2>2. NamesOK' /\ WritesToday'
    BY <1>10 DEF log_boot, LogFresh, NamesOK, NotLooked, WritesToday
  <2>3. LinesCounted'
    BY <1>0, <1>10 DEF log_boot, LogFresh, LinesCounted, LogTypeOK
  <2>4. LineInPlace'
    BY <1>10, Zenon DEF log_boot, LogFresh, LineInPlace
  <2> QED
    BY <2>1, <2>2, <2>3, <2>4 DEF LogIInv
<1>11. CASE log_day
  <2>1. LogTypeOK'
    BY <1>0, <1>11 DEF log_day, LogTypeOK, logNames
  <2>2. UNCHANGED <<longQuiet, logNames, logFiles, curyear, curmon, curday, logDate, g_LogMutex,
                 logKind>>
    BY <1>11 DEF log_day, logNames
  <2>3. LookDate' = LookDate
    BY <1>0, <1>11 DEF log_day, LookDate, LogTypeOK
  <2>4. Looked => Looked'
    BY <2>2, <2>3, LookedStays, Zenon
  <2>5. NamesOK'
    BY <1>0, <2>2, <2>4, Zenon DEF NamesOK, NotLooked
  <2>6. WritesToday'
    BY <1>0, <2>2, <2>3, <2>4, Zenon DEF WritesToday
  <2>7. LinesCounted'
    BY <1>0, <1>11 DEF log_day, LinesCounted
  <2>8. LineInPlace'
    BY <1>0, <1>11, LineStays DEF log_day, LogTypeOK
  <2> QED
    BY <2>1, <2>5, <2>6, <2>7, <2>8 DEF LogIInv
<1>12. CASE UNCHANGED logVars
  BY <1>5, <1>12 DEF logVars
<1> QED
  BY <1>1, <1>2, <1>3, <1>4, <1>6, <1>7, <1>8, <1>9, <1>10, <1>11, <1>12 DEF LogNext, LogStep

\* A line is found where its date says, for every calendar and every limit of a
\* file: unless nothing was logged for a month since the gateway was started.
THEOREM LineAlwaysInPlace == LogSpec => []LineInPlace
<1>1. LogInit => LogIInv
  <2> SUFFICES ASSUME LogInit
               PROVE  LogIInv
    OBVIOUS
  <2>1. longQuiet \in BOOLEAN /\ LineInPlace
    BY Zenon DEF LogInit, LineInPlace
  <2>2. LogTypeOK
    BY <2>1 DEF LogInit, LogTypeOK
  <2>3. NamesOK /\ WritesToday
    BY DEF LogInit, NamesOK, NotLooked, WritesToday
  <2>4. DOMAIN logFiles = {} /\ nLines = 0 /\ g_LogMutex = NoThread
    BY DEF LogInit
  <2>5. LinesCounted
    BY <2>4, FS_EmptySet DEF LinesCounted
  <2> QED
    BY <2>1, <2>2, <2>3, <2>5 DEF LogIInv
<1>2. LogIInv => LineInPlace
  BY DEF LogIInv
<1> QED
  BY <1>1, <1>2, LogInvStep, PTL DEF LogSpec

-----------------------------------------------------------------------------
(* KeepAlive: the conjuncts of the inductive invariant are grouped by the     *)
(* reasoning they need.  KaFlags is about control and Boolean state,           *)
(* KaCounters is about the counters of failures and what the kernels hold.     *)

\* Types of control and flags; while the active gateway has always been in reach,
\* the connection cannot be lost.
KaFlags ==
  /\ up \in BOOLEAN
  /\ kpc \in {"accept", "serve", "gone"}
  /\ net \in BOOLEAN
  /\ peer \in {"none", "alive", "closed", "silent", "cut", "reset"}
  /\ accepted \in BOOLEAN
  /\ answer \in BOOLEAN
  /\ outage \in BOOLEAN
  /\ refused \in BOOLEAN
  /\ ~outage => up /\ net /\ peer \in {"none", "alive"}

\* The backup has taken over exactly when its counter is full.
KaFull == bpc = "active" <=> retry >= MaxRetry

\* What the kernels hold: the listen queue and the health checks nobody has read.
KaKernel ==
  /\ queue \in 0 .. Backlog
  /\ unread \in Nat
  /\ unacked \in Nat
  /\ unread + unacked <= Buffer

\* While the active gateway has always been in reach and its listen queue never
\* found full, the counter exceeds the backup's own failures by at most one, and
\* not at all when health checks of this connection are unread: one was sent.
KaOwn ==
  ~outage /\ ~refused =>
    IF retry >= MaxRetry
      THEN own >= MaxRetry - 1
      ELSE /\ retry <= own + 1
           /\ unread + unacked > 0 => retry <= own

\* Without interrupted polls, the counter counts no more than the failures since
\* the last health check.
KaCounted == nIntr = 0 => retry <= missed

KaCounters ==
  /\ bpc \in {"connect", "health", "active"}
  /\ retry \in 0 .. MaxRetry + 1
  /\ nFail \in 0 .. MaxFail
  /\ nIntr \in 0 .. MaxIntr
  /\ nLocal \in 0 .. MaxLocal
  /\ missed \in Nat
  /\ own \in Nat
  /\ KaFull
  /\ KaKernel
  /\ KaOwn
  /\ KaCounted

\* The inductive invariant.
KaIInv == KaFlags /\ KaCounters

\* It implies the properties that the runs check.
LEMMA KaImplied == KaIInv => TypeOK /\ TakeoverNeedsOutage /\ FailuresInARow
<1> SUFFICES ASSUME KaIInv PROVE TypeOK /\ TakeoverNeedsOutage /\ FailuresInARow
  OBVIOUS
<1>1. TypeOK
  BY KernelAssumption DEF KaIInv, KaFlags, KaCounters, KaKernel, TypeOK
<1>2. TakeoverNeedsOutage
  BY RetryAssumption, BoundAssumption
  DEF KaIInv, KaCounters, KaFull, KaKernel, KaOwn, TakeoverNeedsOutage
<1>3. FailuresInARow
  BY RetryAssumption DEF KaIInv, KaCounters, KaFull, KaCounted, FailuresInARow
<1> QED BY <1>1, <1>2, <1>3

\* It holds when both gateways start.
LEMMA KaInitStep == Init => KaIInv
<1> SUFFICES ASSUME Init PROVE KaIInv
  OBVIOUS
<1>1. KaFlags
  BY Zenon DEF Init, KaFlags
<1>2. KaCounters
  BY RetryAssumption, BoundAssumption, KernelAssumption, SMT
  DEF Init, KaCounters, KaFull, KaKernel, KaOwn, KaCounted
<1> QED BY <1>1, <1>2 DEF KaIInv

\* Reading only makes room.
LEMMA LessRead ==
  ASSUME NEW a \in Nat, NEW b \in Nat, NEW c \in Nat, NEW m \in Nat, b < a, a + c <= m
  PROVE  b + c <= m
  OBVIOUS

\* A failed attempt or a lost connection is impossible while the active gateway
\* has always been in reach, but for a listen queue found full.
LEMMA FailureNeedsOutage ==
  KaFlags => (connect_fail => outage \/ refused') /\ (health_fail => outage)
  BY Zenon DEF KaFlags, connect_fail, health_fail

\* Every step preserves the part about flags.
LEMMA KaFlagsStep == KaIInv /\ [Next]_vars => KaFlags'
<1> SUFFICES ASSUME KaIInv, [Next]_vars PROVE KaFlags'
  OBVIOUS
<1>1. CASE connect_ok
  BY <1>1, Zenon DEF KaIInv, KaFlags, connect_ok, active, bounds, hist
<1>2. CASE connect_fail
  BY <1>2, Zenon DEF KaIInv, KaFlags, connect_fail, Failed, active, bounds
<1>3. CASE connect_local
  BY <1>3, Zenon DEF KaIInv, KaFlags, connect_local, Failed, active
<1>4. CASE health_send
  BY <1>4, Zenon DEF KaIInv, KaFlags, health_send, Full, active, bounds
<1>5. CASE health_full
  BY <1>5, Zenon DEF KaIInv, KaFlags, health_full, Full, Failed, active, bounds
<1>6. CASE health_answer
  BY <1>6, Zenon DEF KaIInv, KaFlags, health_answer, active, backup, bounds, hist
<1>7. CASE health_fail
  BY <1>7, Zenon DEF KaIInv, KaFlags, health_fail, Failed, active, bounds
<1>8. CASE health_interrupted
  BY <1>8, Zenon DEF KaIInv, KaFlags, health_interrupted, Failed, active, conn
<1>9. CASE accept
  BY <1>9, Zenon DEF KaIInv, KaFlags, accept, backup, bounds, hist
<1>10. CASE accept_timeout
  BY <1>10, Zenon DEF KaIInv, KaFlags, accept_timeout, backup, conn, bounds, hist
<1>11. CASE serve
  BY <1>11, Zenon DEF KaIInv, KaFlags, serve, active, backup, bounds, hist
<1>12. CASE serve_end
  BY <1>12, Zenon DEF KaIInv, KaFlags, serve_end, backup, conn, bounds, hist
<1>13. CASE Crash
  BY <1>13, Zenon DEF KaIInv, KaFlags, Crash, backup
<1>14. CASE Restart
  BY <1>14, Zenon DEF KaIInv, KaFlags, Restart, backup, conn, bounds, hist
<1>15. CASE NetDown
  BY <1>15, Zenon DEF KaIInv, KaFlags, NetDown, active, backup
<1>16. CASE NetUp
  BY <1>16, Zenon DEF KaIInv, KaFlags, NetUp, active, backup, bounds, hist
<1>17. CASE TcpGivesUp
  BY <1>17, Zenon DEF KaIInv, KaFlags, TcpGivesUp, active, backup, bounds, hist
<1>18. CASE UNCHANGED vars
  BY <1>18, Zenon DEF KaIInv, KaFlags, vars, active, backup, conn, bounds, hist
<1> QED
  BY <1>1, <1>2, <1>3, <1>4, <1>5, <1>6, <1>7, <1>8, <1>9, <1>10, <1>11, <1>12, <1>13, <1>14,
     <1>15, <1>16, <1>17, <1>18
  DEF Next, Backup, Server

\* Every step preserves the part about counters.
LEMMA KaCountersStep == KaIInv /\ [Next]_vars => KaCounters'
<1> SUFFICES ASSUME KaIInv, [Next]_vars PROVE KaCounters'
  OBVIOUS
<1>1. CASE connect_ok
  BY <1>1, RetryAssumption, BoundAssumption, KernelAssumption, SMT
  DEF KaIInv, KaCounters, KaFull, KaKernel, KaOwn, KaCounted, connect_ok, active, bounds, hist
<1>2. CASE connect_fail
  BY <1>2, RetryAssumption, BoundAssumption, KernelAssumption, FailureNeedsOutage, SMT
  DEF KaIInv, KaCounters, KaFull, KaKernel, KaOwn, KaCounted, connect_fail, Failed, active,
      bounds
<1>3. CASE connect_local
  BY <1>3, RetryAssumption, BoundAssumption, KernelAssumption, SMT
  DEF KaIInv, KaCounters, KaFull, KaKernel, KaOwn, KaCounted, connect_local, Failed, active
<1>4. CASE health_send
  BY <1>4, RetryAssumption, BoundAssumption, KernelAssumption, SMT
  DEF KaIInv, KaCounters, KaFull, KaKernel, KaOwn, KaCounted, health_send, Full, active, bounds
<1>5. CASE health_full
  BY <1>5, RetryAssumption, BoundAssumption, KernelAssumption, SMT
  DEF KaIInv, KaCounters, KaFull, KaKernel, KaOwn, KaCounted, health_full, Full, Failed, active,
      bounds
<1>6. CASE health_answer
  BY <1>6, RetryAssumption, BoundAssumption, SMT
  DEF KaIInv, KaCounters, KaFull, KaKernel, KaOwn, KaCounted, health_answer, active, backup,
      bounds, hist
<1>7. CASE health_fail
  BY <1>7, RetryAssumption, BoundAssumption, KernelAssumption, FailureNeedsOutage, SMT
  DEF KaIInv, KaCounters, KaFull, KaKernel, KaOwn, KaCounted, health_fail, Failed, active,
      bounds
<1>8. CASE health_interrupted
  BY <1>8, RetryAssumption, BoundAssumption, KernelAssumption, SMT
  DEF KaIInv, KaCounters, KaFull, KaKernel, KaOwn, KaCounted, health_interrupted, Failed,
      active, conn
<1>9. CASE accept
  BY <1>9, RetryAssumption, BoundAssumption, KernelAssumption, SMT
  DEF KaIInv, KaCounters, KaFull, KaKernel, KaOwn, KaCounted, accept, backup, bounds, hist
<1>10. CASE accept_timeout
  BY <1>10, RetryAssumption, BoundAssumption, SMT
  DEF KaIInv, KaCounters, KaFull, KaKernel, KaOwn, KaCounted, accept_timeout, backup, conn,
      bounds, hist
<1>11. CASE serve
  <2>1. unread' \in Nat /\ unread' < unread
    BY <1>11 DEF KaIInv, KaCounters, KaKernel, serve
  <2>2. KaKernel'
    <3>1. unacked' = unacked /\ queue' = queue
      BY <1>11 DEF serve, active
    <3>2. unacked \in Nat /\ unread \in Nat /\ unread + unacked <= Buffer /\ queue \in 0 .. Backlog
      BY DEF KaIInv, KaCounters, KaKernel
    <3>3. unread' + unacked' <= Buffer
      BY <2>1, <3>1, <3>2, KernelAssumption, LessRead
    <3> QED
      BY <2>1, <3>1, <3>2, <3>3 DEF KaKernel
  <2>3. unread' + unacked' > 0 => unread + unacked > 0
    BY <1>11, <2>1 DEF KaIInv, KaCounters, KaKernel, serve
  <2>4. UNCHANGED <<bpc, retry, nFail, nIntr, nLocal, outage, refused, missed, own>>
    BY <1>11 DEF serve, backup, bounds, hist
  <2>5. KaOwn'
    BY <2>3, <2>4 DEF KaIInv, KaCounters, KaOwn
  <2> QED
    BY <2>2, <2>4, <2>5 DEF KaIInv, KaCounters, KaFull, KaCounted
<1>12. CASE serve_end
  BY <1>12, RetryAssumption, BoundAssumption, SMT
  DEF KaIInv, KaCounters, KaFull, KaKernel, KaOwn, KaCounted, serve_end, backup, conn, bounds,
      hist
<1>13. CASE Crash
  BY <1>13, RetryAssumption, BoundAssumption, KernelAssumption, SMT
  DEF KaIInv, KaCounters, KaFull, KaKernel, KaOwn, KaCounted, Crash, backup
<1>14. CASE Restart
  BY <1>14, RetryAssumption, BoundAssumption, SMT
  DEF KaIInv, KaCounters, KaFull, KaKernel, KaOwn, KaCounted, Restart, backup, conn, bounds,
      hist
<1>15. CASE NetDown
  BY <1>15, RetryAssumption, BoundAssumption, SMT
  DEF KaIInv, KaCounters, KaFull, KaKernel, KaOwn, KaCounted, NetDown, active, backup
<1>16. CASE NetUp
  BY <1>16, RetryAssumption, BoundAssumption, SMT
  DEF KaIInv, KaCounters, KaFull, KaKernel, KaOwn, KaCounted, NetUp, active, backup, bounds,
      hist
<1>17. CASE TcpGivesUp
  BY <1>17, RetryAssumption, BoundAssumption, SMT
  DEF KaIInv, KaCounters, KaFull, KaKernel, KaOwn, KaCounted, TcpGivesUp, active, backup,
      bounds, hist
<1>18. CASE UNCHANGED vars
  BY <1>18, RetryAssumption, BoundAssumption, SMT
  DEF KaIInv, KaCounters, KaFull, KaKernel, KaOwn, KaCounted, vars, active, backup, conn,
      bounds, hist
<1> QED
  BY <1>1, <1>2, <1>3, <1>4, <1>5, <1>6, <1>7, <1>8, <1>9, <1>10, <1>11, <1>12, <1>13, <1>14,
     <1>15, <1>16, <1>17, <1>18
  DEF Next, Backup, Server

\* The invariant holds of every behaviour.
LEMMA KaInvariance == Spec => []KaIInv
<1>1. KaIInv /\ [Next]_vars => KaIInv'
  BY KaFlagsStep, KaCountersStep DEF KaIInv
<1> QED BY KaInitStep, <1>1, PTL DEF Spec

\* The variables keep their types; in particular the counter of failures never
\* exceeds the limit by more than the one that HealthCheck and main both count.
THEOREM KaTypes == Spec => []TypeOK
  BY KaInvariance, KaImplied, PTL

\* A backup does not take over from an active gateway that was always in reach and
\* had room in its listen queue, whatever its keep-alive thread does and however
\* full its buffers are, unless the failures in a row are, but one, the backup's own.
THEOREM NoNeedlessTakeover == Spec => []TakeoverNeedsOutage
  BY KaInvariance, KaImplied, PTL

\* Failures between which a health check was sent do not add up to a takeover.
THEOREM TakeoverAfterFailuresInARow == Spec => []FailuresInARow
  BY KaInvariance, KaImplied, PTL

-----------------------------------------------------------------------------
(* Packets: induction up to a bound, and functions defined by recursion. *)

\* A set that holds 0 and, with a number below n, the next one, holds all up to n.
LEMMA BoundedInduction ==
  ASSUME NEW n \in Nat, NEW T, 0 \in T, \A i \in 0 .. n - 1 : i \in T => i + 1 \in T
  PROVE  \A i \in 0 .. n : i \in T
<1> DEFINE S == {i \in 0 .. n : i \notin T}
           R == OpToRel(<, Nat)
<1> SUFFICES ASSUME S # {}
             PROVE  FALSE
  OBVIOUS
<1>1. S \subseteq Nat
  OBVIOUS
<1>2. PICK s \in S : \A t \in S : ~ (<<t, s>> \in R)
  <2>1. IsWellFoundedOn(R, Nat)
    BY NatLessThanWellFounded
  <2> HIDE DEF R, S
  <2> QED
    BY <1>1, <2>1, WFMin
<1>3. s \in 0 .. n /\ s # 0 /\ s - 1 \in 0 .. n - 1
  OBVIOUS
<1>4. s - 1 \notin S
  <2>1. s - 1 \in Nat /\ s \in Nat /\ s - 1 < s
    BY <1>3
  <2>2. <<s - 1, s>> \in Nat \X Nat /\ <<s - 1, s>>[1] = s - 1 /\ <<s - 1, s>>[2] = s
    BY <2>1
  <2>3. <<s - 1, s>> \in R
    BY <2>1, <2>2 DEF OpToRel
  <2> QED
    BY <1>2, <2>3
<1>5. s - 1 \in T
  BY <1>3, <1>4
<1>6. s \in T
  BY <1>3, <1>5
<1> QED
  BY <1>6

\* The values f[0] = x, f[1], ..., f[n] of P, each made from the one before it by g.
Recursion(n, P, x, g, f) ==
  f \in [0 .. n -> P] /\ f[0] = x /\ \A i \in 1 .. n : f[i] = g[i][f[i - 1]]

\* A step for each of them.
StepFunction(n, P, g) == g \in [1 .. n -> [P -> P]]

\* Values that are defined by such a recursion exist.
LEMMA RecursionExists ==
  ASSUME NEW n \in Nat, NEW P, NEW x \in P, NEW g, StepFunction(n, P, g)
  PROVE  \E f : Recursion(n, P, x, g, f)
<1> DEFINE Upto(m, f) == f[0] = x /\ \A i \in 1 .. m : f[i] = g[i][f[i - 1]]
           T == {m \in 0 .. n : \E f \in [0 .. m -> P] : Upto(m, f)}
<1>1. 0 \in T
  <2>1. [i \in 0 .. 0 |-> x] \in [0 .. 0 -> P] /\ Upto(0, [i \in 0 .. 0 |-> x])
    OBVIOUS
  <2> HIDE DEF Upto
  <2> QED
    BY <2>1
<1>2. ASSUME NEW m \in 0 .. n - 1, m \in T
      PROVE  m + 1 \in T
  <2>1. PICK f \in [0 .. m -> P] : Upto(m, f)
    BY <1>2
  <2> DEFINE h == [i \in 0 .. m + 1 |-> IF i <= m THEN f[i] ELSE g[m + 1][f[m]]]
  <2>2. g[m + 1] \in [P -> P] /\ f[m] \in P
    BY DEF StepFunction
  <2>3. h \in [0 .. m + 1 -> P]
    BY <2>2
  <2>4. h[0] = x
    BY <2>1
  <2>5. ASSUME NEW i \in 1 .. m + 1
        PROVE  h[i] = g[i][h[i - 1]]
    BY <2>1
  <2>6. Upto(m + 1, h)
    BY <2>4, <2>5
  <2> HIDE DEF Upto, h
  <2> QED
    BY <2>3, <2>6
<1> HIDE DEF T
<1>3. \A m \in 0 .. n : m \in T
  BY <1>1, <1>2, BoundedInduction, Zenon
<1>4. n \in T
  BY <1>3
<1> QED
  BY <1>4 DEF T, Recursion

-----------------------------------------------------------------------------
(* Packets: offsets, and the bytes of a field. *)

\* Every field starts where the one before it ends.
LEMMA OffsetsDef ==
  ASSUME NEW fields \in Seq(DOMAIN Width)
  PROVE  /\ Offsets(fields) \in [0 .. Len(fields) -> Nat]
         /\ Offsets(fields)[0] = 0
         /\ \A i \in 1 .. Len(fields) :
              Offsets(fields)[i] = Offsets(fields)[i - 1] + Width[fields[i]]
<1> DEFINE n == Len(fields)
           Is(at) == at = [i \in 0 .. n |-> IF i = 0 THEN 0 ELSE at[i - 1] + Width[fields[i]]]
           g == [i \in 1 .. n |-> [a \in Nat |-> a + Width[fields[i]]]]
<1>1. n \in Nat /\ \A i \in 1 .. n : Width[fields[i]] \in Nat
  BY PacketAssumption
<1>2. g \in [1 .. n -> [Nat -> Nat]]
  BY <1>1
<1>3. PICK f : Recursion(n, Nat, 0, g, f)
  <2>1. StepFunction(n, Nat, g) /\ n \in Nat /\ 0 \in Nat
    BY <1>1, <1>2 DEF StepFunction
  <2> HIDE DEF n, g
  <2> QED
    BY <2>1, RecursionExists
<1>4. Is(f)
  <2>1. ASSUME NEW i \in 0 .. n
        PROVE  f[i] = IF i = 0 THEN 0 ELSE f[i - 1] + Width[fields[i]]
    <3>1. CASE i = 0
      BY <1>3, <3>1 DEF Recursion
    <3>2. CASE i # 0
      <4>1. i \in 1 .. n /\ i - 1 \in 0 .. n
        BY <1>1, <3>2
      <4>2. f[i - 1] \in Nat /\ f[i] = g[i][f[i - 1]]
        BY <1>3, <4>1 DEF Recursion
      <4> QED
        BY <3>2, <4>1, <4>2
    <3> QED
      BY <3>1, <3>2
  <2>2. f = [i \in 0 .. n |-> f[i]]
    BY <1>3 DEF Recursion
  <2> HIDE DEF n
  <2> QED
    BY <2>1, <2>2
<1>5. Offsets(fields) = CHOOSE at : Is(at)
  BY Zenon DEF Offsets
<1>6. Is(CHOOSE at : Is(at))
  BY <1>4, Zenon
<1>7. Is(Offsets(fields))
  BY <1>5, <1>6, Zenon
<1> DEFINE at == Offsets(fields)
<1> HIDE DEF at, n
<1>8. /\ at = [i \in 0 .. n |-> at[i]]
      /\ \A i \in 0 .. n : at[i] = IF i = 0 THEN 0 ELSE at[i - 1] + Width[fields[i]]
  <2>1. Is(at)
    BY <1>7 DEF at
  <2> QED
    BY <2>1
<1>9. at[0] = 0 /\ \A i \in 1 .. n : at[i] = at[i - 1] + Width[fields[i]]
  BY <1>1, <1>8
<1>10. \A i \in 0 .. n : at[i] \in Nat
  <2> DEFINE T == {i \in 0 .. n : at[i] \in Nat}
  <2>1. 0 \in T
    BY <1>1, <1>9
  <2>2. ASSUME NEW i \in 0 .. n - 1, i \in T
        PROVE  i + 1 \in T
    <3>1. i + 1 \in 1 .. n /\ i + 1 - 1 = i
      BY <1>1
    <3>2. at[i + 1] = at[i] + Width[fields[i + 1]] /\ Width[fields[i + 1]] \in Nat
      BY <1>1, <1>9, <3>1
    <3> QED
      BY <2>2, <3>1, <3>2
  <2> HIDE DEF T
  <2>3. \A i \in 0 .. n : i \in T
    BY <1>1, <2>1, <2>2, BoundedInduction
  <2> QED
    BY <2>3 DEF T
<1>11. at \in [0 .. n -> Nat]
  BY <1>8, <1>10
<1> QED
  BY <1>9, <1>11 DEF at, n

\* A field that comes earlier ends no later than a later one starts.
LEMMA OffsetsGrow ==
  ASSUME NEW fields \in Seq(DOMAIN Width), NEW j \in 0 .. Len(fields)
  PROVE  \A i \in 0 .. Len(fields) : j <= i => Offsets(fields)[j] <= Offsets(fields)[i]
<1> DEFINE at == Offsets(fields)
           n == Len(fields)
           T == {i \in 0 .. n : j <= i => at[j] <= at[i]}
<1>1. n \in Nat /\ \A i \in 1 .. n : Width[fields[i]] \in Nat
  BY PacketAssumption
<1>2. at \in [0 .. n -> Nat] /\ \A i \in 1 .. n : at[i] = at[i - 1] + Width[fields[i]]
  BY OffsetsDef
<1> HIDE DEF at
<1>3. 0 \in T
  BY <1>1, <1>2
<1>4. ASSUME NEW i \in 0 .. n - 1, i \in T
      PROVE  i + 1 \in T
  <2>1. i + 1 \in 1 .. n /\ i + 1 - 1 = i /\ i \in 0 .. n
    BY <1>1
  <2>2. /\ at[i + 1] = at[i] + Width[fields[i + 1]] /\ Width[fields[i + 1]] \in Nat
        /\ at[i] \in Nat /\ at[i + 1] \in Nat /\ at[j] \in Nat
    <3>1. at[i] \in Nat /\ at[j] \in Nat /\ Width[fields[i + 1]] \in Nat
      BY <1>1, <1>2, <2>1
    <3>2. at[i + 1] = at[i] + Width[fields[i + 1]]
      BY <1>2, <2>1
    <3> QED
      BY <3>1, <3>2
  <2>3. CASE j = i + 1
    BY <2>1, <2>2, <2>3
  <2>4. CASE j # i + 1
    BY <1>4, <2>1, <2>2, <2>4
  <2> QED
    BY <2>3, <2>4
<1> HIDE DEF T
<1>5. \A i \in 0 .. n : i \in T
  BY <1>1, <1>3, <1>4, BoundedInduction
<1> QED
  BY <1>5 DEF T, at

\* What a byte of a packet may be.
Byte == (DOMAIN Width \cup {"NUL", "blank", "old"}) \X Int

\* The value of a field of fixed width fills it.
FixedFills(f, n) == f \in {"cIfId", "cEventType", "cResultCode"} => n >= Width[f]

\* The bytes written for a field begin with what the field should hold.
LEMMA BytesRight ==
  ASSUME NEW f \in DOMAIN Width, NEW n \in Nat, FixedFills(f, n)
  PROVE  /\ Bytes(f, n) \in Seq(Byte) /\ Len(Bytes(f, n)) >= Width[f]
         /\ \A k \in 1 .. Width[f] : Bytes(f, n)[k] = Field(f, n)[k]
<1>1. Width[f] \in Nat
  BY PacketAssumption
<1>2. Terminator \in Byte /\ Blank \in Byte /\ \A k \in Int : <<f, k>> \in Byte
  BY DEF Byte, Terminator, Blank
<1>3. CASE f \in {"cIfId", "cEventType", "cResultCode"}
  <2> DEFINE b == [k \in 1 .. Width[f] |-> <<f, k>>]
  <2>1. b \in Seq(Byte) /\ Len(b) = Width[f]
    BY <1>1, <1>2
  <2>2. Bytes(f, n) = b
    BY <1>3 DEF Bytes, Copied
  <2>3. ASSUME NEW k \in 1 .. Width[f]
        PROVE  b[k] = Field(f, n)[k]
    BY <1>1, <1>3 DEF Field, FixedFills
  <2> QED
    BY <1>1, <2>1, <2>2, <2>3
<1>4. CASE f \notin {"cIfId", "cEventType", "cResultCode"}
  <2> DEFINE v == [k \in 1 .. n |-> <<f, k>>]
             s == [k \in 1 .. Width[f] - n |-> Blank]
             t == <<Terminator>>
             m == IF Width[f] - n > 0 THEN Width[f] - n ELSE 0
  <2>1. v \in Seq(Byte) /\ Len(v) = n
    BY <1>2
  <2>2. s \in Seq(Byte) /\ Len(s) = m
    <3>1. m \in Nat /\ 1 .. Width[f] - n = 1 .. m
      BY <1>1
    <3>2. s = [k \in 1 .. m |-> Blank]
      BY <3>1
    <3> HIDE DEF s, m
    <3> QED
      BY <1>2, <3>1, <3>2
  <2>3. t \in Seq(Byte) /\ Len(t) = 1
    BY <1>2
  <2>4. Bytes(f, n) = v \o s \o t
    BY <1>4 DEF Bytes, Printed
  <2>5. m \in Nat /\ n + m >= Width[f]
    BY <1>1
  <2>6. \A k \in 1 .. n : v[k] = <<f, k>>
    OBVIOUS
  <2>7. \A k \in 1 .. m : s[k] = Blank
    BY <1>1
  <2> HIDE DEF v, s, t, m
  <2>8. v \o s \in Seq(Byte) /\ Len(v \o s) = n + m
    BY <2>1, <2>2, <2>5
  <2>9. v \o s \o t \in Seq(Byte) /\ Len(v \o s \o t) = n + m + 1
    <3> DEFINE vs == v \o s
    <3>1. vs \in Seq(Byte) /\ Len(vs) = n + m
      BY <2>8
    <3> HIDE DEF vs
    <3>2. vs \o t \in Seq(Byte) /\ Len(vs \o t) = Len(vs) + Len(t)
      BY <2>3, <3>1, ConcatProperties
    <3> QED
      BY <2>3, <2>5, <3>1, <3>2 DEF vs
  <2>10. ASSUME NEW k \in 1 .. Width[f]
         PROVE  (v \o s \o t)[k] = Field(f, n)[k]
    <3>1. k \in 1 .. n + m
      BY <1>1, <2>5
    <3>2. (v \o s \o t)[k] = (v \o s)[k]
      BY <2>3, <2>8, <3>1
    <3>3. (v \o s)[k] = IF k <= n THEN <<f, k>> ELSE Blank
      <4>1. CASE k <= n
        BY <2>1, <2>2, <2>6, <3>1, <4>1
      <4>2. CASE ~ (k <= n)
        <5>1. k - n \in 1 .. m /\ s[k - n] = Blank
          BY <2>5, <2>7, <3>1, <4>2
        <5>2. (v \o s)[k] = s[k - n]
          BY <2>1, <2>2, <3>1, <4>2
        <5> QED
          BY <4>2, <5>1, <5>2
      <4> QED
        BY <4>1, <4>2
    <3> QED
      BY <3>2, <3>3 DEF Field
  <2> QED
    BY <1>1, <2>4, <2>5, <2>9, <2>10
<1> QED
  BY <1>3, <1>4

\* Bytes that are put at an offset are there, and nothing before it changes.
LEMMA PutRight ==
  ASSUME NEW bytes \in Seq(Byte), NEW at \in Nat, NEW old \in Seq(Byte), at <= Len(old)
  PROVE  /\ Put(bytes, at, old) \in Seq(Byte)
         /\ Len(Put(bytes, at, old)) >= Len(old)
         /\ Len(Put(bytes, at, old)) >= at + Len(bytes)
         /\ \A k \in 1 .. Len(bytes) : Put(bytes, at, old)[at + k] = bytes[k]
         /\ \A k \in 1 .. at : Put(bytes, at, old)[k] = old[k]
<1> DEFINE m == IF at + Len(bytes) > Len(old) THEN at + Len(bytes) ELSE Len(old)
           p == [k \in 1 .. m |->
                   IF k > at /\ k <= at + Len(bytes) THEN bytes[k - at] ELSE old[k]]
<1>1. m \in Nat /\ m >= Len(old) /\ m >= at + Len(bytes)
  OBVIOUS
<1>2. Put(bytes, at, old) = p
  BY DEF Put
<1>3. ASSUME NEW k \in 1 .. m
      PROVE  p[k] \in Byte
  <2>1. CASE k > at /\ k <= at + Len(bytes)
    <3>1. k - at \in 1 .. Len(bytes)
      BY <1>1, <2>1
    <3> QED
      BY <2>1, <3>1
  <2>2. CASE ~ (k > at /\ k <= at + Len(bytes))
    <3>1. k \in 1 .. Len(old)
      BY <1>1, <2>2
    <3> QED
      BY <2>2, <3>1
  <2> QED
    BY <2>1, <2>2
<1>4. p \in [1 .. m -> Byte]
  <2>1. p = [k \in 1 .. m |-> p[k]]
    OBVIOUS
  <2> HIDE DEF p, m
  <2> QED
    BY <1>3, <2>1
<1>5. p \in Seq(Byte) /\ Len(p) = m
  <2> HIDE DEF p, m
  <2> QED
    BY <1>1, <1>4
<1>6. ASSUME NEW k \in 1 .. Len(bytes)
      PROVE  p[at + k] = bytes[k]
  <2>1. at + k \in 1 .. m /\ at + k > at /\ at + k <= at + Len(bytes) /\ (at + k) - at = k
    BY <1>1
  <2> QED
    BY <2>1
<1>7. ASSUME NEW k \in 1 .. at
      PROVE  p[k] = old[k]
  <2>1. k \in 1 .. m /\ ~ (k > at)
    BY <1>1
  <2> QED
    BY <2>1
<1> HIDE DEF p, m
<1> QED
  BY <1>1, <1>2, <1>5, <1>6, <1>7

\* Memory at least as long as the packet.
PacketBuffers(fields) == {p \in Seq(Byte) : Len(p) >= Offsets(fields)[Len(fields)]}

\* Every field has a value, and one that is copied fills its field.
ValuesOK(fields, len) ==
  \A i \in 1 .. Len(fields) : len[fields[i]] \in Nat /\ FixedFills(fields[i], len[fields[i]])

\* Writing a field sets it, and changes no field before it.
LEMMA PutFieldRight ==
  ASSUME NEW fields \in Seq(DOMAIN Width), NEW len, ValuesOK(fields, len),
         NEW i \in 1 .. Len(fields), NEW old \in PacketBuffers(fields)
  PROVE  LET p  == PutField(fields, len, i, old)
             at == Offsets(fields)[i - 1]
         IN  /\ p \in PacketBuffers(fields)
             /\ \A k \in 1 .. Width[fields[i]] :
                  p[at + k] = Field(fields[i], len[fields[i]])[k]
             /\ \A k \in 1 .. at : p[k] = old[k]
<1> DEFINE p == PutField(fields, len, i, old)
           at == Offsets(fields)[i - 1]
           end == Offsets(fields)[Len(fields)]
           b == Bytes(fields[i], len[fields[i]])
<1>1. fields[i] \in DOMAIN Width /\ Width[fields[i]] \in Nat /\ Len(fields) \in Nat
  BY PacketAssumption
<1>2. len[fields[i]] \in Nat /\ FixedFills(fields[i], len[fields[i]])
  BY DEF ValuesOK
<1>3. /\ b \in Seq(Byte) /\ Len(b) >= Width[fields[i]]
      /\ \A k \in 1 .. Width[fields[i]] : b[k] = Field(fields[i], len[fields[i]])[k]
  BY <1>1, <1>2, BytesRight
<1>4. i - 1 \in 0 .. Len(fields) /\ Len(fields) \in 0 .. Len(fields) /\ i - 1 <= Len(fields)
  BY <1>1
<1>5. at \in Nat /\ end \in Nat
  BY <1>4, OffsetsDef
<1>6. at <= end
  BY <1>4, OffsetsGrow
<1>7. p = Put(b, at, old)
  BY <1>1 DEF PutField, Offset
<1> HIDE DEF at, end, b, p
<1>8. old \in Seq(Byte) /\ Len(old) >= end /\ at <= Len(old)
  BY <1>5, <1>6 DEF PacketBuffers, end
<1>9. /\ p \in Seq(Byte) /\ Len(p) >= Len(old)
      /\ \A k \in 1 .. Len(b) : p[at + k] = b[k]
      /\ \A k \in 1 .. at : p[k] = old[k]
  BY <1>3, <1>5, <1>7, <1>8, PutRight
<1>10. p \in PacketBuffers(fields)
  BY <1>5, <1>8, <1>9 DEF PacketBuffers, end
<1>11. ASSUME NEW k \in 1 .. Width[fields[i]]
       PROVE  p[at + k] = Field(fields[i], len[fields[i]])[k]
  <2>1. k \in 1 .. Len(b)
    BY <1>1, <1>3
  <2> QED
    BY <1>3, <1>9, <2>1
<1> QED
  BY <1>9, <1>10, <1>11 DEF p, at

\* The memory that a packet is written into is long enough.
LEMMA MemoryThere ==
  ASSUME NEW fields \in Seq(DOMAIN Width)
  PROVE  Memory(fields) \in PacketBuffers(fields)
<1> DEFINE end == Offsets(fields)[Len(fields)]
<1>1. end \in Nat /\ Offset(fields, Len(fields) + 1) = end
  BY OffsetsDef DEF Offset
<1>2. Memory(fields) = [k \in 1 .. end |-> <<"old", k>>]
  BY <1>1 DEF Memory
<1>3. \A k \in 1 .. end : <<"old", k>> \in Byte
  BY DEF Byte
<1> HIDE DEF end
<1>4. Memory(fields) \in Seq(Byte) /\ Len(Memory(fields)) = end
  BY <1>1, <1>2, <1>3
<1> QED
  BY <1>1, <1>4 DEF PacketBuffers, end

\* The packet after each field is the one before, with the field written.
LEMMA FillDef ==
  ASSUME NEW fields \in Seq(DOMAIN Width), NEW len, ValuesOK(fields, len)
  PROVE  /\ Fill(fields, len) \in [0 .. Len(fields) -> PacketBuffers(fields)]
         /\ \A i \in 1 .. Len(fields) :
              Fill(fields, len)[i] = PutField(fields, len, i, Fill(fields, len)[i - 1])
<1> DEFINE n == Len(fields)
           B == PacketBuffers(fields)
           Is(p) == p = [i \in 0 .. n |-> IF i = 0 THEN Memory(fields)
                                          ELSE PutField(fields, len, i, p[i - 1])]
           g == [i \in 1 .. n |-> [p \in B |-> PutField(fields, len, i, p)]]
<1>1. n \in Nat /\ Memory(fields) \in B
  BY MemoryThere
<1>2. \A i \in 1 .. n : \A p \in B : PutField(fields, len, i, p) \in B
  BY PutFieldRight
<1>3. PICK f : Recursion(n, B, Memory(fields), g, f)
  <2>1. StepFunction(n, B, g)
    BY <1>2 DEF StepFunction
  <2> HIDE DEF n, g, B
  <2> QED
    BY <1>1, <2>1, RecursionExists
<1>4. Is(f)
  <2>1. ASSUME NEW i \in 0 .. n
        PROVE  f[i] = IF i = 0 THEN Memory(fields) ELSE PutField(fields, len, i, f[i - 1])
    <3>1. CASE i = 0
      BY <1>3, <3>1 DEF Recursion
    <3>2. CASE i # 0
      <4>1. i \in 1 .. n /\ i - 1 \in 0 .. n
        BY <1>1, <3>2
      <4>2. f[i - 1] \in B /\ f[i] = g[i][f[i - 1]]
        BY <1>3, <4>1 DEF Recursion
      <4> QED
        BY <3>2, <4>1, <4>2
    <3> QED
      BY <3>1, <3>2
  <2>2. f = [i \in 0 .. n |-> f[i]]
    BY <1>3 DEF Recursion
  <2> HIDE DEF n
  <2> QED
    BY <2>1, <2>2
<1>5. Fill(fields, len) = CHOOSE p : Is(p)
  BY Zenon DEF Fill
<1>6. Is(CHOOSE p : Is(p))
  BY <1>4, Zenon
<1>7. Is(Fill(fields, len))
  BY <1>5, <1>6, Zenon
<1> DEFINE F == Fill(fields, len)
<1> HIDE DEF F, n, B
<1>8. /\ F = [i \in 0 .. n |-> F[i]]
      /\ \A i \in 0 .. n : F[i] = IF i = 0 THEN Memory(fields)
                                  ELSE PutField(fields, len, i, F[i - 1])
  <2>1. Is(F)
    BY <1>7 DEF F
  <2> QED
    BY <2>1
<1>9. F[0] = Memory(fields) /\ \A i \in 1 .. n : F[i] = PutField(fields, len, i, F[i - 1])
  BY <1>1, <1>8
<1>10. \A i \in 0 .. n : F[i] \in B
  <2> DEFINE T == {i \in 0 .. n : F[i] \in B}
  <2>1. 0 \in T
    BY <1>1, <1>9
  <2>2. ASSUME NEW i \in 0 .. n - 1, i \in T
        PROVE  i + 1 \in T
    <3>1. i + 1 \in 0 .. n /\ i + 1 \in 1 .. n /\ i + 1 - 1 = i
      BY <1>1
    <3>2. F[i + 1] = PutField(fields, len, i + 1, F[i])
      BY <1>9, <3>1
    <3>3. F[i + 1] \in B
      BY <1>2, <2>2, <3>1, <3>2
    <3> QED
      BY <3>1, <3>3
  <2> HIDE DEF T
  <2>3. \A i \in 0 .. n : i \in T
    BY <1>1, <2>1, <2>2, BoundedInduction
  <2> QED
    BY <2>3 DEF T
<1>11. F \in [0 .. n -> B]
  BY <1>8, <1>10
<1> QED
  BY <1>9, <1>11 DEF F, n, B

\* After field i, this and every field before it hold their own values.
LEMMA FillRight ==
  ASSUME NEW fields \in Seq(DOMAIN Width), NEW len, ValuesOK(fields, len)
  PROVE  \A i \in 0 .. Len(fields) : \A j \in 1 .. i : \A k \in 1 .. Width[fields[j]] :
           Fill(fields, len)[i][Offsets(fields)[j - 1] + k] =
             Field(fields[j], len[fields[j]])[k]
<1> DEFINE n == Len(fields)
           F == Fill(fields, len)
           at == Offsets(fields)
           Right(i, j) == \A k \in 1 .. Width[fields[j]] :
                            F[i][at[j - 1] + k] = Field(fields[j], len[fields[j]])[k]
           T == {i \in 0 .. n : \A j \in 1 .. i : Right(i, j)}
<1>1. n \in Nat /\ \A i \in 1 .. n : Width[fields[i]] \in Nat
  BY PacketAssumption
<1>2. at \in [0 .. n -> Nat] /\ \A i \in 1 .. n : at[i] = at[i - 1] + Width[fields[i]]
  BY OffsetsDef
<1>3. F \in [0 .. n -> PacketBuffers(fields)]
  BY FillDef
<1>4. \A i \in 1 .. n : F[i] = PutField(fields, len, i, F[i - 1])
  BY FillDef
<1>5. 0 \in T
  BY <1>1
<1>6. ASSUME NEW i \in 0 .. n - 1, i \in T
      PROVE  i + 1 \in T
  <2>1. i + 1 \in 0 .. n /\ i + 1 \in 1 .. n /\ i + 1 - 1 = i /\ i \in 0 .. n
    BY <1>1
  <2>2. F[i] \in PacketBuffers(fields)
    BY <1>3, <2>1
  <2>3. F[i + 1] = PutField(fields, len, i + 1, F[i])
    BY <1>4, <2>1
  <2>4. /\ \A k \in 1 .. Width[fields[i + 1]] :
             F[i + 1][at[i] + k] = Field(fields[i + 1], len[fields[i + 1]])[k]
        /\ \A k \in 1 .. at[i] : F[i + 1][k] = F[i][k]
    <3> DEFINE l == i + 1
               old == F[i]
    <3>1. l \in 1 .. Len(fields) /\ old \in PacketBuffers(fields) /\ l - 1 = i
      BY <2>1, <2>2
    <3>2. F[l] = PutField(fields, len, l, old)
      BY <2>3
    <3> HIDE DEF l, old, F
    <3>3. /\ \A k \in 1 .. Width[fields[l]] :
               F[l][at[l - 1] + k] = Field(fields[l], len[fields[l]])[k]
          /\ \A k \in 1 .. at[l - 1] : F[l][k] = old[k]
      BY <3>1, <3>2, PutFieldRight
    <3> QED
      BY <3>1, <3>3 DEF l, old
  <2> HIDE DEF F, at
  <2>5. ASSUME NEW j \in 1 .. i + 1
        PROVE  Right(i + 1, j)
    <3>1. CASE j = i + 1
      BY <2>1, <2>4, <3>1
    <3>2. CASE j # i + 1
      <4>1. j \in 1 .. i /\ j \in 1 .. n /\ j - 1 \in 0 .. n /\ j <= i /\ j \in 0 .. n
        BY <1>1, <2>1, <3>2
      <4>2. at[j] <= at[i]
        BY <2>1, <4>1, OffsetsGrow DEF at
      <4>3. /\ at[j - 1] \in Nat /\ at[j] \in Nat /\ at[i] \in Nat /\ Width[fields[j]] \in Nat
            /\ at[j] = at[j - 1] + Width[fields[j]]
        BY <1>1, <1>2, <2>1, <4>1
      <4>4. ASSUME NEW k \in 1 .. Width[fields[j]]
            PROVE  F[i + 1][at[j - 1] + k] = Field(fields[j], len[fields[j]])[k]
        <5>1. at[j - 1] + k \in 1 .. at[i]
          BY <4>2, <4>3
        <5>2. F[i + 1][at[j - 1] + k] = F[i][at[j - 1] + k]
          BY <2>4, <5>1
        <5>3. Right(i, j)
          BY <1>6, <4>1
        <5> QED
          BY <5>2, <5>3
      <4> QED
        BY <4>4
    <3> QED
      BY <3>1, <3>2
  <2> QED
    BY <2>1, <2>5
<1> HIDE DEF T
<1>7. \A i \in 0 .. n : i \in T
  BY <1>1, <1>5, <1>6, BoundedInduction
<1> QED
  BY <1>7 DEF T

\* When all fields are written, each of them holds its own value.
LEMMA PacketFilled ==
  ASSUME NEW fields \in Seq(DOMAIN Width), NEW len, ValuesOK(fields, len)
  PROVE  \A i \in 1 .. Len(fields) :
           SubSeq(Fill(fields, len)[Len(fields)], Offset(fields, i) + 1, Offset(fields, i + 1)) =
             Field(fields[i], len[fields[i]])
<1> SUFFICES ASSUME NEW i \in 1 .. Len(fields)
             PROVE  SubSeq(Fill(fields, len)[Len(fields)], Offset(fields, i) + 1,
                           Offset(fields, i + 1)) = Field(fields[i], len[fields[i]])
  OBVIOUS
<1> DEFINE n == Len(fields)
           p == Fill(fields, len)[n]
           a == Offsets(fields)[i - 1]
           e == Offsets(fields)[i]
           w == Width[fields[i]]
           v == Field(fields[i], len[fields[i]])
<1>1. n \in Nat /\ w \in Nat /\ i \in 0 .. n /\ i - 1 \in 0 .. n /\ n \in 0 .. n /\ i <= n
  BY PacketAssumption
<1>2. Offset(fields, i) = a /\ Offset(fields, i + 1) = e
  <2>1. i + 1 - 1 = i
    BY <1>1
  <2> QED
    BY <2>1 DEF Offset
<1>3. a \in Nat /\ e = a + w
  BY <1>1, OffsetsDef
<1>4. e <= Offsets(fields)[n]
  BY <1>1, OffsetsGrow
<1>5. p \in Seq(Byte) /\ Len(p) >= e
  <2>1. p \in PacketBuffers(fields)
    BY <1>1, FillDef
  <2>2. Offsets(fields)[n] \in Nat /\ e \in Nat
    BY <1>1, OffsetsDef
  <2>3. p \in Seq(Byte) /\ Len(p) >= Offsets(fields)[n]
    BY <2>1 DEF PacketBuffers
  <2> HIDE DEF p, e
  <2> QED
    BY <1>4, <2>2, <2>3
<1>6. \A k \in 1 .. w : p[a + k] = v[k]
  BY <1>1, FillRight
<1>7. v = [k \in 1 .. w |-> v[k]]
  BY DEF Field
<1> HIDE DEF p, a, e, w, v
<1>8. SubSeq(p, a + 1, e) = [k \in 1 .. w |-> p[a + k]]
  BY <1>1, <1>3, <1>5
<1> QED
  BY <1>2, <1>6, <1>7, <1>8 DEF p, v

-----------------------------------------------------------------------------
(* Packets: the calling number. *)

\* The number that Make444 works on: with a leading 0.
Local(org) == IF org # <<>> /\ Head(org) = 0 THEN org ELSE <<0>> \o org

\* The zeros that Make444 puts in front.
LEMMA ZerosAre ==
  ASSUME NEW n \in Nat
  PROVE  /\ Zeros(n) \in Seq(Nat) /\ Len(Zeros(n)) = n
         /\ \A k \in 1 .. n : Zeros(n)[k] = 0
BY DEF Zeros

\* j is s, of length n, followed by t, of length m.
Join(j, s, n, t, m) ==
  /\ j \in Seq(Nat) /\ Len(j) = n + m
  /\ \A k \in 1 .. n : j[k] = s[k]
  /\ \A k \in n + 1 .. n + m : j[k] = t[k - n]

\* Concatenation is such a j.
LEMMA Joined ==
  ASSUME NEW s \in Seq(Nat), NEW t \in Seq(Nat), NEW n \in Nat, NEW m \in Nat,
         Len(s) = n, Len(t) = m
  PROVE  Join(s \o t, s, n, t, m)
<1> DEFINE j == s \o t
<1>1. /\ j \in Seq(Nat) /\ Len(j) = Len(s) + Len(t)
      /\ \A k \in 1 .. Len(s) + Len(t) : j[k] = IF k <= Len(s) THEN s[k] ELSE t[k - Len(s)]
  BY ConcatProperties
<1> HIDE DEF j
<1>2. /\ j \in Seq(Nat) /\ Len(j) = n + m
      /\ \A k \in 1 .. n : j[k] = s[k]
      /\ \A k \in n + 1 .. n + m : j[k] = t[k - n]
  BY <1>1
<1> QED
  BY <1>2 DEF j, Join

\* The digits of the first and of the second part.
LEMMA JoinParts ==
  ASSUME NEW j, NEW s, NEW n \in Nat, NEW t, NEW m \in Nat, Join(j, s, n, t, m), NEW k \in Nat
  PROVE  /\ k \in 1 .. n => j[k] = s[k]
         /\ k \in n + 1 .. n + m => j[k] = t[k - n]
BY Zenon DEF Join

\* x is the m digits of s behind the first a.
Part(x, s, a, m) ==
  x \in Seq(Nat) /\ Len(x) = m /\ \A k \in 1 .. m : x[k] = s[a + k]

\* SubSeq takes such a part.
LEMMA PartOf ==
  ASSUME NEW s \in Seq(Nat), NEW a \in Nat, NEW m \in Nat, a + m <= Len(s)
  PROVE  Part(SubSeq(s, a + 1, a + m), s, a, m)
<1> DEFINE x == SubSeq(s, a + 1, a + m)
<1>1. \A i \in a + 1 .. a + m : s[i] \in Nat
  OBVIOUS
<1>2. /\ x \in Seq(Nat)
      /\ Len(x) = IF a + 1 <= a + m THEN a + m - (a + 1) + 1 ELSE 0
      /\ \A i \in 1 .. a + m - (a + 1) + 1 : x[i] = s[a + 1 + i - 1]
  BY <1>1, SubSeqProperties
<1> HIDE DEF x
<1>3. Len(x) = m
  BY <1>2
<1>4. ASSUME NEW k \in 1 .. m
      PROVE  x[k] = s[a + k]
  <2>1. k \in 1 .. a + m - (a + 1) + 1 /\ a + 1 + k - 1 = a + k
    OBVIOUS
  <2> QED
    BY <1>2, <2>1
<1>5. Part(x, s, a, m)
  BY <1>2, <1>3, <1>4 DEF Part
<1> QED
  BY <1>5 DEF x

\* x is the first m digits of s.
Begin(x, s, m) == x \in Seq(Nat) /\ Len(x) = m /\ \A k \in 1 .. m : x[k] = s[k]

\* These are the digits behind the first 0.
LEMMA FirstPart ==
  ASSUME NEW x, NEW s, NEW m \in Nat, Part(x, s, 0, m)
  PROVE  Begin(x, s, m)
<1>1. x \in Seq(Nat) /\ Len(x) = m
  BY DEF Part
<1>2. ASSUME NEW k \in 1 .. m
      PROVE  x[k] = s[k]
  <2>1. x[k] = s[0 + k]
    BY Zenon DEF Part
  <2>2. 0 + k = k
    OBVIOUS
  <2> QED
    BY <2>1, <2>2, Zenon
<1> QED
  BY <1>1, <1>2 DEF Begin

\* So do First and From.
LEMMA FirstAndRest ==
  ASSUME NEW s \in Seq(Nat), NEW n \in Nat, Len(s) = n, NEW a \in Nat, NEW m \in Nat, a + m = n
  PROVE  Part(First(s, a), s, 0, a) /\ Part(From(s, a), s, a, m)
<1>1. First(s, a) = SubSeq(s, 0 + 1, 0 + a) /\ From(s, a) = SubSeq(s, a + 1, a + m)
  BY DEF First, From
<1>2. 0 \in Nat /\ 0 + a <= Len(s) /\ a + m <= Len(s)
  OBVIOUS
<1> QED
  BY <1>1, <1>2, PartOf

\* A group g has four digits, the last ones those of s, which has m.
GroupOf(g, s, m) ==
  /\ g \in Seq(Nat) /\ Len(g) = 4
  /\ \A k \in 1 .. 4 : g[k] = IF k <= 4 - m THEN 0 ELSE s[k - (4 - m)]

\* Group makes such a group of up to four digits.
LEMMA GroupRight ==
  ASSUME NEW s \in Seq(Nat), NEW m \in 0 .. 4, Len(s) = m
  PROVE  GroupOf(Group(s), s, m)
<1> DEFINE q == 4 - m
           z == Zeros(q)
           g == z \o s
<1>1. q \in Nat /\ m \in Nat /\ q + m = 4
  OBVIOUS
<1>2. Group(s) = g
  BY DEF Group
<1> HIDE DEF q
<1>3. z \in Seq(Nat) /\ Len(z) = q /\ \A k \in 1 .. q : z[k] = 0
  BY <1>1, ZerosAre
<1> HIDE DEF z
<1>4. /\ g \in Seq(Nat) /\ Len(g) = q + m
      /\ \A k \in 1 .. q : g[k] = z[k]
      /\ \A k \in q + 1 .. q + m : g[k] = s[k - q]
  <2>1. Join(g, z, q, s, m)
    BY <1>1, <1>3, Joined, Zenon
  <2> QED
    BY <2>1 DEF Join
<1> HIDE DEF g
<1>5. ASSUME NEW k \in 1 .. 4
      PROVE  g[k] = IF k <= q THEN 0 ELSE s[k - q]
  <2>1. CASE k <= q
    BY <1>1, <1>3, <1>4, <2>1
  <2>2. CASE ~ (k <= q)
    BY <1>1, <1>4, <2>2
  <2> QED
    BY <2>1, <2>2
<1>6. /\ g \in Seq(Nat) /\ Len(g) = 4
      /\ \A k \in 1 .. 4 : g[k] = IF k <= q THEN 0 ELSE s[k - q]
  BY <1>1, <1>4, <1>5
<1> QED
  BY <1>2, <1>6 DEF q, GroupOf

\* What Make444 works on begins with a 0 and ends with the number.
LEMMA LocalRight ==
  ASSUME NEW org \in Seq(Nat)
  PROVE  /\ Local(org) \in Seq(Nat) /\ Local(org) # <<>> /\ Local(org)[1] = 0
         /\ Len(Local(org)) \in {Len(org), Len(org) + 1}
         /\ \A k \in 1 .. Len(org) :
              Local(org)[k + (Len(Local(org)) - Len(org))] = org[k]
<1>1. CASE org # <<>> /\ Head(org) = 0
  BY <1>1 DEF Local
<1>2. CASE ~ (org # <<>> /\ Head(org) = 0)
  <2>1. Local(org) = <<0>> \o org
    BY <1>2 DEF Local
  <2>2. <<0>> \in Seq(Nat) /\ Len(<<0>>) = 1 /\ <<0>>[1] = 0
    OBVIOUS
  <2>3. /\ Local(org) \in Seq(Nat) /\ Len(Local(org)) = 1 + Len(org)
        /\ \A k \in 1 .. 1 : Local(org)[k] = <<0>>[k]
        /\ \A k \in 1 + 1 .. 1 + Len(org) : Local(org)[k] = org[k - 1]
    BY <2>1, <2>2, Joined DEF Join
  <2> QED
    BY <2>2, <2>3
<1> QED
  BY <1>1, <1>2

\* A number of n digits with an area code of a digits, in three groups.
Groups(s, n, a) ==
  Group(First(s, a)) \o Group(SubSeq(s, a + 1, n - 4)) \o Group(From(s, n - 4))

\* The three groups, digit by digit, where e digits lie between area code and line.
GroupsAre(g, s, n, a, e) ==
  /\ g \in Seq(Nat) /\ Len(g) = 12
  /\ \A k \in 1 .. 4 : g[k] = IF k <= 4 - a THEN 0 ELSE s[k - (4 - a)]
  /\ \A k \in 5 .. 8 : g[k] = IF k - 4 <= 4 - e THEN 0 ELSE s[a + k - 4 - (4 - e)]
  /\ \A k \in 9 .. 12 : g[k] = s[n - 12 + k]

\* Groups makes these digits.
LEMMA GroupsRight ==
  ASSUME NEW s \in Seq(Nat), NEW n \in 9 .. 11, Len(s) = n, NEW a \in {2, 3},
         NEW e \in {3, 4}, e = n - 4 - a
  PROVE  GroupsAre(Groups(s, n, a), s, n, a, e)
<1> DEFINE x == First(s, a)
           y == SubSeq(s, a + 1, n - 4)
           z == From(s, n - 4)
           gx == Group(x)
           gy == Group(y)
           gz == Group(z)
           gxy == gx \o gy
           r == gxy \o gz
<1>1. Groups(s, n, a) = r
  BY DEF Groups
<1>2. Begin(x, s, a)
  <2>1. n \in Nat /\ a \in Nat /\ n - a \in Nat /\ a + (n - a) = n
    OBVIOUS
  <2>2. Part(x, s, 0, a)
    BY <2>1, FirstAndRest
  <2> HIDE DEF x
  <2> QED
    BY <2>1, <2>2, FirstPart
<1>3. y \in Seq(Nat) /\ Len(y) = e /\ \A k \in 1 .. e : y[k] = s[a + k]
  <2>1. a \in Nat /\ e \in Nat /\ a + e = n - 4 /\ a + e <= Len(s)
    OBVIOUS
  <2>2. Part(SubSeq(s, a + 1, a + e), s, a, e)
    BY <2>1, PartOf
  <2>3. Part(y, s, a, e)
    BY <2>1, <2>2
  <2> HIDE DEF y
  <2> QED
    BY <2>3 DEF Part
<1>4. z \in Seq(Nat) /\ Len(z) = 4 /\ \A k \in 1 .. 4 : z[k] = s[n - 4 + k]
  <2>1. n \in Nat /\ n - 4 \in Nat /\ 4 \in Nat /\ (n - 4) + 4 = n
    OBVIOUS
  <2>2. Part(z, s, n - 4, 4)
    BY <2>1, FirstAndRest
  <2> HIDE DEF z
  <2> QED
    BY <2>2 DEF Part
<1> HIDE DEF x, y, z
<1>5. GroupOf(gx, x, a)
  <2>1. a \in 0 .. 4
    OBVIOUS
  <2> QED
    BY <1>2, <2>1, GroupRight DEF Begin
<1>6. GroupOf(gy, y, e)
  <2>1. e \in 0 .. 4
    OBVIOUS
  <2> QED
    BY <1>3, <2>1, GroupRight
<1>7. GroupOf(gz, z, 4)
  <2>1. 4 \in 0 .. 4
    OBVIOUS
  <2> QED
    BY <1>4, <2>1, GroupRight
<1> HIDE DEF gx, gy, gz
<1>8. Join(gxy, gx, 4, gy, 4)
  <2>1. gx \in Seq(Nat) /\ Len(gx) = 4 /\ gy \in Seq(Nat) /\ Len(gy) = 4
    BY <1>5, <1>6 DEF GroupOf
  <2> QED
    BY <2>1, Joined
<1> HIDE DEF gxy
<1>9. Join(r, gxy, 8, gz, 4)
  <2>1. gxy \in Seq(Nat) /\ Len(gxy) = 8
    BY <1>8 DEF Join
  <2> QED
    BY <1>7, <2>1, Joined DEF GroupOf
<1> HIDE DEF r
<1>10. r \in Seq(Nat) /\ Len(r) = 12
  BY <1>9 DEF Join
<1>11. ASSUME NEW k \in 1 .. 4
       PROVE  r[k] = IF k <= 4 - a THEN 0 ELSE s[k - (4 - a)]
  <2>1. r[k] = gxy[k]
    <3>1. k \in Nat /\ k \in 1 .. 8
      OBVIOUS
    <3> QED
      BY <1>9, <3>1, JoinParts
  <2>2. gxy[k] = gx[k]
    <3>1. k \in Nat /\ k \in 1 .. 4
      OBVIOUS
    <3> QED
      BY <1>8, <3>1, JoinParts
  <2> QED
    BY <1>2, <1>5, <2>1, <2>2 DEF GroupOf, Begin
<1>12. ASSUME NEW k \in 5 .. 8
       PROVE  r[k] = IF k - 4 <= 4 - e THEN 0 ELSE s[a + k - 4 - (4 - e)]
  <2>1. r[k] = gy[k - 4]
    <3>1. r[k] = gxy[k]
      <4>1. k \in Nat /\ k \in 1 .. 8
        OBVIOUS
      <4> QED
        BY <1>9, <4>1, JoinParts
    <3>2. gxy[k] = gy[k - 4]
      <4>1. \A l \in 4 + 1 .. 4 + 4 : gxy[l] = gy[l - 4]
        BY <1>8 DEF Join
      <4>2. k \in 4 + 1 .. 4 + 4
        OBVIOUS
      <4> QED
        BY <4>1, <4>2, Zenon
    <3> QED
      BY <3>1, <3>2
  <2>2. gy[k - 4] = IF k - 4 <= 4 - e THEN 0 ELSE y[k - 4 - (4 - e)]
    BY <1>6 DEF GroupOf
  <2>3. ~ (k - 4 <= 4 - e) => y[k - 4 - (4 - e)] = s[a + k - 4 - (4 - e)]
    <3>1. SUFFICES ASSUME ~ (k - 4 <= 4 - e)
                   PROVE  y[k - 4 - (4 - e)] = s[a + k - 4 - (4 - e)]
      OBVIOUS
    <3>2. PICK l \in 1 .. e : l = k - 4 - (4 - e)
      BY <3>1
    <3>3. y[l] = s[a + l] /\ a + l = a + k - 4 - (4 - e)
      BY <1>3, <3>2
    <3> QED
      BY <3>2, <3>3
  <2> QED
    BY <2>1, <2>2, <2>3
<1>13. ASSUME NEW k \in 9 .. 12
       PROVE  r[k] = s[n - 12 + k]
  <2>1. PICK l \in 1 .. 4 : l = k - 8
    OBVIOUS
  <2>2. r[k] = gz[k - 8]
    <3>1. \A i \in 8 + 1 .. 8 + 4 : r[i] = gz[i - 8]
      BY <1>9 DEF Join
    <3>2. k \in 8 + 1 .. 8 + 4
      OBVIOUS
    <3> QED
      BY <3>1, <3>2, Zenon
  <2>3. gz[l] = z[l]
    BY <1>7 DEF GroupOf
  <2>4. z[l] = s[n - 4 + l] /\ n - 4 + l = n - 12 + k
    BY <1>4, <2>1
  <2> QED
    BY <2>1, <2>2, <2>3, <2>4
<1> QED
  BY <1>1, <1>10, <1>11, <1>12, <1>13 DEF GroupsAre

\* z is q zeros.
AllZero(z, q) == z \in Seq(Nat) /\ Len(z) = q /\ \A k \in 1 .. q : z[k] = 0

\* r is q zeros before s, which has n digits.
Pad(r, q, s, n) ==
  /\ r \in Seq(Nat) /\ Len(r) = q + n
  /\ \A k \in 1 .. q + n : r[k] = IF k <= q THEN 0 ELSE s[k - q]

\* Zeros followed by a number are such an r.
LEMMA Padded ==
  ASSUME NEW z, NEW q \in Nat, AllZero(z, q), NEW s \in Seq(Nat), NEW n \in Nat, Len(s) = n
  PROVE  Pad(z \o s, q, s, n)
<1> DEFINE j == z \o s
<1>1. Join(j, z, q, s, n)
  <2>1. z \in Seq(Nat) /\ Len(z) = q
    BY DEF AllZero
  <2> QED
    BY <2>1, Joined, Zenon
<1> HIDE DEF j
<1>2. j \in Seq(Nat) /\ Len(j) = q + n
  BY <1>1 DEF Join
<1>3. ASSUME NEW k \in 1 .. q + n
      PROVE  j[k] = IF k <= q THEN 0 ELSE s[k - q]
  <2>1. CASE k <= q
    BY <1>1, <2>1 DEF Join, AllZero
  <2>2. CASE ~ (k <= q)
    BY <1>1, <2>2 DEF Join
  <2> QED
    BY <2>1, <2>2
<1>4. Pad(j, q, s, n)
  BY <1>2, <1>3 DEF Pad
<1> QED
  BY <1>4 DEF j

\* r is q zeros before an area code of a digits, a zero, and the rest of s.
Insert(r, q, s, n, a) ==
  /\ r \in Seq(Nat) /\ Len(r) = n + 5 - a
  /\ \A k \in 1 .. 4 : r[k] = IF k <= q THEN 0 ELSE s[k - q]
  /\ r[5] = 0
  /\ \A k \in 6 .. n + 5 - a : r[k] = s[k - 5 + a]

\* What Make444 does to a number with an exchange of three digits.
LEMMA Inserted ==
  ASSUME NEW z, NEW q \in {1, 2}, AllZero(z, q), NEW s \in Seq(Nat), NEW n \in 9 .. 10,
         Len(s) = n, NEW a \in {2, 3}, q + a = 4
  PROVE  Insert(z \o First(s, a) \o <<0>> \o From(s, a), q, s, n, a)
<1> DEFINE x == First(s, a)
           y == From(s, a)
           o == <<0>>
           zx == z \o x
           zxo == zx \o o
           r == zxo \o y
<1>1. Part(x, s, 0, a) /\ Part(y, s, a, n - a)
  <2>1. n \in Nat /\ a \in Nat /\ n - a \in Nat /\ a + (n - a) = n
    OBVIOUS
  <2> QED
    BY <2>1, FirstAndRest
<1>2. o \in Seq(Nat) /\ Len(o) = 1 /\ o[1] = 0
  OBVIOUS
<1>3. z \o First(s, a) \o <<0>> \o From(s, a) = r
  OBVIOUS
<1> HIDE DEF x, y, o
<1>4. Begin(x, s, a)
  <2>1. a \in Nat
    OBVIOUS
  <2> QED
    BY <1>1, <2>1, FirstPart
<1>5. y \in Seq(Nat) /\ Len(y) = n - a /\ \A k \in 1 .. n - a : y[k] = s[a + k]
  BY <1>1 DEF Part
<1>6. zx \in Seq(Nat) /\ Len(zx) = 4 /\ \A k \in 1 .. 4 : zx[k] = IF k <= q THEN 0 ELSE s[k - q]
  <2>1. q \in Nat /\ a \in Nat
    OBVIOUS
  <2>2. /\ zx \in Seq(Nat) /\ Len(zx) = q + a
        /\ \A k \in 1 .. q + a : zx[k] = IF k <= q THEN 0 ELSE x[k - q]
    <3>1. Pad(zx, q, x, a)
      <4>1. x \in Seq(Nat) /\ Len(x) = a
        BY <1>4 DEF Begin
      <4> QED
        BY <2>1, <4>1, Padded
    <3> QED
      BY <3>1 DEF Pad
  <2> HIDE DEF zx
  <2> QED
    BY <1>4, <2>2 DEF Begin
<1> HIDE DEF zx
<1>7. Join(zxo, zx, 4, o, 1)
  BY <1>2, <1>6, Joined
<1> HIDE DEF zxo
<1>8. Join(r, zxo, 5, y, n - a)
  <2>1. zxo \in Seq(Nat) /\ Len(zxo) = 5 /\ n - a \in Nat
    BY <1>7 DEF Join
  <2> QED
    BY <1>5, <2>1, Joined
<1> HIDE DEF r
<1>9. r \in Seq(Nat) /\ Len(r) = n + 5 - a
  BY <1>8 DEF Join
<1>10. ASSUME NEW k \in 1 .. 4
      PROVE  r[k] = IF k <= q THEN 0 ELSE s[k - q]
  <2>1. r[k] = zxo[k]
    <3>1. k \in Nat /\ k \in 1 .. 5
      OBVIOUS
    <3> QED
      BY <1>8, <3>1, JoinParts
  <2>2. zxo[k] = zx[k]
    <3>1. k \in Nat /\ k \in 1 .. 4
      OBVIOUS
    <3> QED
      BY <1>7, <3>1, JoinParts
  <2> QED
    BY <1>6, <2>1, <2>2
<1>11. r[5] = 0
  <2>1. r[5] = zxo[5]
    BY <1>8 DEF Join
  <2>2. zxo[5] = o[1]
    BY <1>7 DEF Join
  <2> QED
    BY <1>2, <2>1, <2>2
<1>12. ASSUME NEW k \in 6 .. n + 5 - a
       PROVE  r[k] = s[k - 5 + a]
  <2>1. \A i \in 5 + 1 .. 5 + (n - a) : r[i] = y[i - 5]
    BY <1>8 DEF Join
  <2>2. k \in 5 + 1 .. 5 + (n - a)
    OBVIOUS
  <2>3. PICK l \in 1 .. n - a : l = k - 5
    OBVIOUS
  <2>4. r[k] = y[k - 5]
    BY <2>1, <2>2, Zenon
  <2>5. y[l] = s[a + l]
    BY <1>5
  <2>6. a + l = k - 5 + a
    BY <2>3
  <2> QED
    BY <2>3, <2>4, <2>5, <2>6
<1> QED
  BY <1>3, <1>9, <1>10, <1>11, <1>12 DEF Insert

\* Make444, by the length of the number with its leading 0.
LEMMA Make444Cases ==
  ASSUME NEW org \in Seq(Nat), Len(org) < 12, NEW s, s = Local(org), NEW n \in Nat, Len(s) = n
  PROVE  /\ n >= 12 => Make444(org) = First(s, 12)
         /\ n = 11 => Make444(org) = <<0>> \o s
         /\ n = 10 /\ s[2] # 2 =>
              Make444(org) = <<0>> \o First(s, 3) \o <<0>> \o From(s, 3)
         /\ n = 10 /\ s[2] = 2 => Make444(org) = <<0, 0>> \o s
         /\ n = 9 => Make444(org) = <<0, 0>> \o First(s, 2) \o <<0>> \o From(s, 2)
         /\ n < 9 => Make444(org) = Zeros(CID_LEN - n) \o s
<1>1. ~ (Len(org) >= 12)
  OBVIOUS
<1>2. Make444(org) =
        IF n >= 12 THEN First(s, 12)
        ELSE IF n = 11 THEN <<0>> \o s
        ELSE IF n = 10
               THEN IF s[2] # 2
                      THEN <<0>> \o First(s, 3) \o <<0>> \o From(s, 3)
                      ELSE <<0, 0>> \o s
        ELSE IF n = 9 THEN <<0, 0>> \o First(s, 2) \o <<0>> \o From(s, 2)
        ELSE Zeros(CID_LEN - n) \o s
  BY <1>1, Zenon DEF Make444, Local
<1> QED
  <2> DEFINE r == Make444(org)
             r12 == First(s, 12)
             r11 == <<0>> \o s
             r10 == <<0>> \o First(s, 3) \o <<0>> \o From(s, 3)
             r10s == <<0, 0>> \o s
             r9 == <<0, 0>> \o First(s, 2) \o <<0>> \o From(s, 2)
             r8 == Zeros(CID_LEN - n) \o s
  <2>1. r = IF n >= 12 THEN r12 ELSE IF n = 11 THEN r11
            ELSE IF n = 10 THEN IF s[2] # 2 THEN r10 ELSE r10s
            ELSE IF n = 9 THEN r9 ELSE r8
    BY <1>2
  <2> HIDE DEF r, r12, r11, r10, r10s, r9, r8
  <2>2. /\ n >= 12 => r = r12
        /\ n = 11 => r = r11
        /\ n = 10 /\ s[2] # 2 => r = r10
        /\ n = 10 /\ s[2] = 2 => r = r10s
        /\ n = 9 => r = r9
        /\ n < 9 => r = r8
    BY <2>1
  <2> QED
    BY <2>2 DEF r, r12, r11, r10, r10s, r9, r8

\* Twelve digits that are the same are the same number.
LEMMA SameDigits ==
  ASSUME NEW r \in Seq(Nat), Len(r) = 12, NEW g \in Seq(Nat), Len(g) = 12,
         \A k \in 1 .. 12 : r[k] = g[k]
  PROVE  r = g
BY SeqEqual

\* A number of 9 to 11 digits, with its 0, that an area code of a digits and three or
\* four digits make a telephone number, is split into its groups.
LEMMA SplitRight ==
  ASSUME NEW org \in Seq(Nat), Len(org) < 12, NEW s \in Seq(Nat), s = Local(org),
         NEW n \in Nat, Len(s) = n, NEW a \in {2, 3}, a = 2 <=> s[2] = 2,
         NEW e \in {3, 4}, e = n - 4 - a
  PROVE  Make444(org) = Groups(s, n, a)
<1> DEFINE g == Groups(s, n, a)
<1>1. /\ n = 11 => Make444(org) = <<0>> \o s
      /\ n = 10 /\ s[2] # 2 =>
           Make444(org) = <<0>> \o First(s, 3) \o <<0>> \o From(s, 3)
      /\ n = 10 /\ s[2] = 2 => Make444(org) = <<0, 0>> \o s
      /\ n = 9 => Make444(org) = <<0, 0>> \o First(s, 2) \o <<0>> \o From(s, 2)
  BY Make444Cases, Zenon
<1>2. n \in 9 .. 11 /\ Len(s) = n
  OBVIOUS
<1>3. GroupsAre(g, s, n, a, e)
  BY <1>2, GroupsRight
<1> HIDE DEF g
<1>4. g \in Seq(Nat) /\ Len(g) = 12
  BY <1>3 DEF GroupsAre
<1>5. CASE n = 11 /\ a = 3 /\ e = 4
  <2> DEFINE r == <<0>> \o s
  <2>1. Make444(org) = r
    BY <1>1, <1>5
  <2>2. /\ r \in Seq(Nat) /\ Len(r) = 12
        /\ \A k \in 1 .. 12 : r[k] = IF k <= 1 THEN 0 ELSE s[k - 1]
    <3> DEFINE z == <<0>>
    <3>1. AllZero(z, 1)
      BY DEF AllZero
    <3> HIDE DEF z
    <3>2. Pad(z \o s, 1, s, 11)
      BY <1>2, <1>5, <3>1, Padded
    <3>3. 1 + 11 = 12 /\ r = z \o s
      BY DEF z
    <3> HIDE DEF r
    <3> QED
      BY <3>2, <3>3 DEF Pad
  <2> HIDE DEF r
  <2>3. ASSUME NEW k \in 1 .. 12
        PROVE  r[k] = g[k]
    BY <1>3, <1>5, <2>2 DEF GroupsAre
  <2> QED
    BY <2>1, <2>2, <2>3, <1>4, SameDigits DEF g
<1>6. CASE n = 10 /\ a = 2 /\ e = 4
  <2> DEFINE r == <<0, 0>> \o s
  <2>1. Make444(org) = r
    BY <1>1, <1>6
  <2>2. /\ r \in Seq(Nat) /\ Len(r) = 12
        /\ \A k \in 1 .. 12 : r[k] = IF k <= 2 THEN 0 ELSE s[k - 2]
    <3> DEFINE z == <<0, 0>>
    <3>1. AllZero(z, 2)
      BY DEF AllZero
    <3> HIDE DEF z
    <3>2. Pad(z \o s, 2, s, 10)
      BY <1>2, <1>6, <3>1, Padded
    <3>3. 2 + 10 = 12 /\ r = z \o s
      BY DEF z
    <3> HIDE DEF r
    <3> QED
      BY <3>2, <3>3 DEF Pad
  <2> HIDE DEF r
  <2>3. ASSUME NEW k \in 1 .. 12
        PROVE  r[k] = g[k]
    BY <1>3, <1>6, <2>2 DEF GroupsAre
  <2> QED
    BY <2>1, <2>2, <2>3, <1>4, SameDigits DEF g
<1>7. CASE n = 10 /\ a = 3 /\ e = 3
  <2> DEFINE r == <<0>> \o First(s, 3) \o <<0>> \o From(s, 3)
  <2>1. Make444(org) = r
    BY <1>1, <1>7
  <2>2. /\ r \in Seq(Nat) /\ Len(r) = 12
        /\ \A k \in 1 .. 4 : r[k] = IF k <= 1 THEN 0 ELSE s[k - 1]
        /\ r[5] = 0 /\ \A k \in 6 .. 12 : r[k] = s[k - 5 + 3]
    <3> DEFINE z == <<0>>
               y == z \o First(s, 3) \o <<0>> \o From(s, 3)
    <3>1. AllZero(z, 1)
      BY DEF AllZero
    <3>2. r = y
      OBVIOUS
    <3> HIDE DEF z, r
    <3>3. Insert(y, 1, s, 10, 3)
      BY <1>2, <1>7, <3>1, Inserted
    <3>4. 10 + 5 - 3 = 12
      OBVIOUS
    <3> HIDE DEF y
    <3> QED
      BY <3>2, <3>3, <3>4 DEF Insert
  <2> HIDE DEF r
  <2>3. ASSUME NEW k \in 1 .. 12
        PROVE  r[k] = g[k]
    BY <1>3, <1>7, <2>2 DEF GroupsAre
  <2> QED
    BY <2>1, <2>2, <2>3, <1>4, SameDigits DEF g
<1>8. CASE n = 9 /\ a = 2 /\ e = 3
  <2> DEFINE r == <<0, 0>> \o First(s, 2) \o <<0>> \o From(s, 2)
  <2>1. Make444(org) = r
    BY <1>1, <1>8
  <2>2. /\ r \in Seq(Nat) /\ Len(r) = 12
        /\ \A k \in 1 .. 4 : r[k] = IF k <= 2 THEN 0 ELSE s[k - 2]
        /\ r[5] = 0 /\ \A k \in 6 .. 12 : r[k] = s[k - 5 + 2]
    <3> DEFINE z == <<0, 0>>
               y == z \o First(s, 2) \o <<0>> \o From(s, 2)
    <3>1. AllZero(z, 2)
      BY DEF AllZero
    <3>2. r = y
      OBVIOUS
    <3> HIDE DEF z, r
    <3>3. Insert(y, 2, s, 9, 2)
      BY <1>2, <1>8, <3>1, Inserted
    <3>4. 9 + 5 - 2 = 12
      OBVIOUS
    <3> HIDE DEF y
    <3> QED
      BY <3>2, <3>3, <3>4 DEF Insert
  <2> HIDE DEF r
  <2>3. ASSUME NEW k \in 1 .. 12
        PROVE  r[k] = g[k]
    BY <1>3, <1>8, <2>2 DEF GroupsAre
  <2> QED
    BY <2>1, <2>2, <2>3, <1>4, SameDigits DEF g
<1> QED
  BY <1>2, <1>5, <1>6, <1>7, <1>8

\* Twelve digits come out of the longer numbers.
LEMMA MadeLength ==
  ASSUME NEW s \in Seq(Nat), NEW n \in 9 .. 11, Len(s) = n
  PROVE  /\ n = 11 => Len(<<0>> \o s) = 12
         /\ n = 10 => Len(<<0>> \o First(s, 3) \o <<0>> \o From(s, 3)) = 12
         /\ n = 10 => Len(<<0, 0>> \o s) = 12
         /\ n = 9 => Len(<<0, 0>> \o First(s, 2) \o <<0>> \o From(s, 2)) = 12
<1>1. AllZero(<<0>>, 1) /\ AllZero(<<0, 0>>, 2)
  BY DEF AllZero
<1>2. n \in Nat /\ 1 \in Nat /\ 2 \in Nat
  OBVIOUS
<1> DEFINE o == <<0>>
           oo == <<0, 0>>
<1> HIDE DEF o, oo
<1>3. AllZero(o, 1) /\ AllZero(oo, 2)
  BY <1>1 DEF o, oo
<1>4. Pad(o \o s, 1, s, n) /\ Pad(oo \o s, 2, s, n)
  BY <1>2, <1>3, Padded
<1>5. ASSUME n = 10
      PROVE  Insert(o \o First(s, 3) \o <<0>> \o From(s, 3), 1, s, n, 3)
  <2>1. n \in 9 .. 10 /\ 1 \in {1, 2} /\ 3 \in {2, 3} /\ 1 + 3 = 4
    BY <1>5
  <2> QED
    BY <1>3, <2>1, Inserted
<1>6. ASSUME n = 9
      PROVE  Insert(oo \o First(s, 2) \o <<0>> \o From(s, 2), 2, s, n, 2)
  <2>1. n \in 9 .. 10 /\ 2 \in {1, 2} /\ 2 \in {2, 3} /\ 2 + 2 = 4
    BY <1>6
  <2> QED
    BY <1>3, <2>1, Inserted
<1>7. /\ Len(o \o s) = 1 + n /\ Len(oo \o s) = 2 + n
      /\ n = 10 => Len(o \o First(s, 3) \o <<0>> \o From(s, 3)) = n + 5 - 3
      /\ n = 9 => Len(oo \o First(s, 2) \o <<0>> \o From(s, 2)) = n + 5 - 2
  BY <1>4, <1>5, <1>6, Zenon DEF Pad, Insert
<1>8. 1 + 11 = 12 /\ 2 + 10 = 12 /\ 10 + 5 - 3 = 12 /\ 9 + 5 - 2 = 12
  OBVIOUS
<1> QED
  BY <1>7, <1>8, Zenon DEF o, oo

\* Make444 does to every number what CidSplit says.
LEMMA CidRight ==
  ASSUME NEW org \in Seq(Nat), NEW c, c = Make444(org)
  PROVE  /\ Len(c) = CID_LEN
         /\ Len(org) >= 8 /\ Len(org) <= 11 =>
              LET g == Split(org)
              IN  Len(g[2]) \in {3, 4} => c = Group(g[1]) \o Group(g[2]) \o Group(g[3])
         /\ Len(org) < 8 => From(c, CID_LEN - Len(org)) = org
<1> DEFINE s == Local(org)
           n == Len(s)
           m == Len(org)
<1>1. /\ s \in Seq(Nat) /\ s # <<>> /\ s[1] = 0 /\ n \in Nat /\ m \in Nat /\ n \in {m, m + 1}
      /\ \A k \in 1 .. m : s[k + (n - m)] = org[k]
  BY LocalRight
<1>2. m >= 12 => Len(c) = 12
  <2> SUFFICES ASSUME m >= 12
               PROVE  Len(c) = 12
    OBVIOUS
  <2>1. c = First(org, 12)
    BY DEF Make444
  <2> QED
    BY <2>1 DEF First
<1>3. ASSUME m < 12
      PROVE  /\ n >= 12 => c = First(s, 12)
             /\ n = 11 => c = <<0>> \o s
             /\ n = 10 /\ s[2] # 2 => c = <<0>> \o First(s, 3) \o <<0>> \o From(s, 3)
             /\ n = 10 /\ s[2] = 2 => c = <<0, 0>> \o s
             /\ n = 9 => c = <<0, 0>> \o First(s, 2) \o <<0>> \o From(s, 2)
             /\ n < 9 => c = Zeros(CID_LEN - n) \o s
  <2> HIDE DEF s
  <2> QED
    BY <1>1, <1>3, Make444Cases DEF s
<1> HIDE DEF n, m, s
<1>4. ASSUME n < 9, m < 12
      PROVE  Pad(c, 12 - n, s, n)
  <2>1. 12 - n \in Nat /\ CID_LEN - n = 12 - n
    BY <1>1, <1>4 DEF CID_LEN
  <2>2. AllZero(Zeros(12 - n), 12 - n)
    BY <2>1, ZerosAre DEF AllZero
  <2>3. c = Zeros(12 - n) \o s
    BY <1>3, <1>4, <2>1
  <2>4. Len(s) = n
    BY DEF n
  <2> QED
    BY <1>1, <2>1, <2>2, <2>3, <2>4, Padded
<1>5. Len(c) = 12
  <2>1. CASE m >= 12
    BY <1>2, <2>1
  <2>2. CASE m < 12 /\ n < 9
    BY <1>1, <1>4, <2>2 DEF Pad
  <2>3. CASE m < 12 /\ n >= 9
    <3>1. n \in 9 .. 12
      BY <1>1, <2>3
    <3>2. Len(s) = n
      BY DEF n
    <3>3. CASE n = 12
      <4>1. c = First(s, 12)
        BY <1>3, <2>3, <3>3
      <4> QED
        BY <1>1, <3>2, <3>3, <4>1 DEF First
    <3>4. ASSUME n \in 9 .. 11
          PROVE  /\ n = 11 => Len(<<0>> \o s) = 12
                 /\ n = 10 => Len(<<0>> \o First(s, 3) \o <<0>> \o From(s, 3)) = 12
                 /\ n = 10 => Len(<<0, 0>> \o s) = 12
                 /\ n = 9 => Len(<<0, 0>> \o First(s, 2) \o <<0>> \o From(s, 2)) = 12
      BY <1>1, <3>2, <3>4, MadeLength, Zenon
    <3>5. CASE n = 11
      <4>1. n \in 9 .. 11
        BY <3>5
      <4> QED
        BY <1>3, <2>3, <3>5, <3>4, <4>1, Zenon
    <3>6. CASE n = 10
      <4>1. n \in 9 .. 11
        BY <3>6
      <4> QED
        BY <1>3, <2>3, <3>6, <3>4, <4>1, Zenon
    <3>7. CASE n = 9
      <4>1. n \in 9 .. 11
        BY <3>7
      <4> QED
        BY <1>3, <2>3, <3>7, <3>4, <4>1, Zenon
    <3> QED
      BY <3>1, <3>3, <3>5, <3>6, <3>7
  <2> QED
    BY <1>1, <2>1, <2>2, <2>3
<1>6. ASSUME m >= 8, m <= 11
      PROVE  LET g == Split(org)
             IN  Len(g[2]) \in {3, 4} => c = Group(g[1]) \o Group(g[2]) \o Group(g[3])
  <2> DEFINE a == IF s[2] = 2 THEN 2 ELSE 3
             x == First(s, a)
             y == SubSeq(s, a + 1, n - 4)
             z == From(s, n - 4)
  <2>1. a \in {2, 3} /\ (a = 2 <=> s[2] = 2)
    OBVIOUS
  <2>2. Split(org) = <<x, y, z>>
    <3>1. org # <<>>
      BY <1>1, <1>6 DEF m
    <3> QED
      BY <3>1, Zenon DEF Split, s, n, Local
  <2> HIDE DEF a
  <2>3. n \in 8 .. 12 /\ Len(s) = n
    <3>1. n \in 8 .. 12
      BY <1>1, <1>6
    <3> QED
      BY <3>1 DEF n
  <2>4. Len(y) = n - 4 - a
    <3>1. PICK e \in Nat : e = n - 4 - a
      BY <2>1, <2>3
    <3>2. a \in Nat /\ a + e = n - 4 /\ a + e <= Len(s)
      BY <2>1, <2>3, <3>1
    <3>3. Part(SubSeq(s, a + 1, a + e), s, a, e)
      BY <1>1, <3>2, PartOf
    <3> QED
      BY <3>1, <3>2, <3>3 DEF Part
  <2>5. ASSUME Len(y) \in {3, 4}
        PROVE  c = Groups(s, n, a)
    <3>1. PICK e \in {3, 4} : e = n - 4 - a
      BY <2>4, <2>5
    <3>2. Len(org) < 12 /\ n \in Nat
      BY <1>1, <1>6 DEF m
    <3> QED
      BY <1>1, <2>1, <2>3, <3>1, <3>2, SplitRight DEF s
  <2>6. Groups(s, n, a) = Group(x) \o Group(y) \o Group(z)
    BY DEF Groups
  <2>7. Len(<<x, y, z>>[2]) \in {3, 4} =>
          c = Group(<<x, y, z>>[1]) \o Group(<<x, y, z>>[2]) \o Group(<<x, y, z>>[3])
    <3> HIDE DEF x, y, z
    <3>1. <<x, y, z>>[1] = x /\ <<x, y, z>>[2] = y /\ <<x, y, z>>[3] = z
      OBVIOUS
    <3> QED
      BY <2>5, <2>6, <3>1, Zenon
  <2> QED
    BY <2>2, <2>7, Zenon
<1>7. ASSUME m < 8
      PROVE  From(c, CID_LEN - m) = org
  <2>1. n < 9 /\ m < 12 /\ n \in Nat
    BY <1>1, <1>7
  <2>2. Pad(c, 12 - n, s, n)
    BY <1>4, <2>1
  <2>3. c \in Seq(Nat) /\ Len(c) = 12 /\ \A k \in 13 - n .. 12 : c[k] = s[k - (12 - n)]
    BY <2>1, <2>2 DEF Pad
  <2>4. ASSUME NEW k \in 1 .. m
        PROVE  c[12 - m + k] = org[k]
    <3>1. PICK l \in 13 - n .. 12 : l = 12 - m + k
      BY <1>1, <1>7
    <3>2. l - (12 - n) = k + (n - m)
      BY <1>1, <3>1
    <3>3. c[l] = s[l - (12 - n)]
      BY <2>3
    <3>4. s[k + (n - m)] = org[k]
      BY <1>1
    <3> QED
      BY <3>1, <3>2, <3>3, <3>4
  <2>5. From(c, CID_LEN - m) = SubSeq(c, 13 - m, 12)
    <3>1. CID_LEN - m + 1 = 13 - m
      BY <1>1 DEF CID_LEN
    <3> QED
      BY <2>3, <3>1 DEF From
  <2>6. SubSeq(c, 13 - m, 12) = [k \in 1 .. m |-> c[12 - m + k]]
    BY <1>1, <1>7, <2>3
  <2>7. org = [k \in 1 .. m |-> org[k]]
    BY DEF m
  <2> QED
    BY <2>4, <2>5, <2>6, <2>7
<1> QED
  BY <1>5, <1>6, <1>7 DEF m, CID_LEN

\* The layouts of the packets are sequences of fields.
LEMMA LayoutsOK == EventFields \in Seq(DOMAIN Width) /\ NoticeFields \in Seq(DOMAIN Width)
<1> DEFINE Names == {"cIfId", "cBodySize", "cTimestamp", "cEventType", "cCID", "cCallkey",
                     "cAgentExt", "cAgentId", "cAgentIp", "cReserved", "cResultCode"}
<1>1. EventFields \in Seq(Names) /\ NoticeFields \in Seq(Names)
  <2> DEFINE e == <<"cEventType", "cCID", "cCallkey", "cAgentExt", "cAgentId", "cAgentIp",
                    "cReserved">>
             r == <<"cEventType", "cResultCode">>
  <2>1. Header \in Seq(Names)
    BY DEF Header
  <2>2. e \in Seq(Names)
    OBVIOUS
  <2>3. r \in Seq(Names)
    OBVIOUS
  <2>4. EventFields = Header \o e /\ NoticeFields = Header \o r
    BY DEF EventFields, NoticeFields
  <2> HIDE DEF e, r, Names
  <2> QED
    BY <2>1, <2>2, <2>3, <2>4
<1> HIDE DEF Names
<1>2. ASSUME NEW fields \in Seq(Names), \A i \in 1 .. Len(fields) : fields[i] \in DOMAIN Width
      PROVE  fields \in Seq(DOMAIN Width)
  BY <1>2
<1>3. /\ \A i \in 1 .. Len(EventFields) : EventFields[i] \in DOMAIN Width
      /\ \A i \in 1 .. Len(NoticeFields) : NoticeFields[i] \in DOMAIN Width
  BY PacketAssumption
<1> QED
  BY <1>1, <1>2, <1>3

\* The values of an event and of a notice fill the fields of fixed width.
LEMMA LengthsOK ==
  ASSUME NEW fields \in Seq(DOMAIN Width)
  PROVE  /\ \A l \in Lengths : ValuesOK(fields, l)
         /\ ValuesOK(fields, [f \in DOMAIN Width |-> Width[f]])
<1>1. \A f \in DOMAIN Width : Width[f] \in Nat
  BY PacketAssumption
<1>2. ASSUME NEW l \in Lengths, NEW f \in DOMAIN Width
      PROVE  l[f] \in Nat /\ FixedFills(f, l[f])
  <2>1. PICK long \in SUBSET Varying :
          l = [x \in DOMAIN Width |-> IF x \notin Varying THEN Width[x]
                                      ELSE IF x \in long THEN Width[x] + Excess
                                      ELSE IF x = "cCID" THEN Width[x] ELSE 0]
    BY DEF Lengths
  <2>2. l[f] \in Nat /\ (f \notin Varying => l[f] = Width[f])
    BY <1>1, <2>1, PacketAssumption
  <2>3. f \in {"cIfId", "cEventType", "cResultCode"} => f \notin Varying
    BY DEF Varying
  <2> QED
    BY <1>1, <2>2, <2>3 DEF FixedFills
<1>3. ASSUME NEW f \in DOMAIN Width
      PROVE  /\ [x \in DOMAIN Width |-> Width[x]][f] \in Nat
             /\ FixedFills(f, [x \in DOMAIN Width |-> Width[x]][f])
  BY <1>1 DEF FixedFills
<1>4. \A i \in 1 .. Len(fields) : fields[i] \in DOMAIN Width
  OBVIOUS
<1> QED
  BY <1>2, <1>3, <1>4 DEF ValuesOK

\* A calling number is a sequence of digits.
LEMMA NumbersAre ==
  ASSUME NEW n \in 0 .. 13, NEW number \in CallingNumber(n)
  PROVE  number \in Seq(Nat)
<1>1. PICK lead \in [1 .. 2 -> Leading] :
        number = [k \in 1 .. n |-> IF k <= 2 THEN lead[k] ELSE 10 + k]
  BY DEF CallingNumber
<1>2. ASSUME NEW k \in 1 .. n
      PROVE  (IF k <= 2 THEN lead[k] ELSE 10 + k) \in Nat
  <2>1. CASE k <= 2
    <3>1. k \in 1 .. 2
      BY <2>1
    <3>2. lead[k] \in Leading /\ Leading \subseteq 0 .. 9
      BY <3>1, PacketAssumption
    <3>3. \A x \in 0 .. 9 : x \in Nat
      OBVIOUS
    <3>4. lead[k] \in Nat
      BY <3>2, <3>3, Zenon
    <3> QED
      BY <2>1, <3>4
  <2>2. CASE ~ (k <= 2)
    BY <2>2
  <2> QED
    BY <2>1, <2>2
<1> QED
  BY <1>1, <1>2

\* Every packet is formed right, for every width of the fields and every excess: a
\* value that is too long, and the terminator behind each one, never reach into a
\* field that was already written, and are written over by the next one; and the
\* calling number is always twelve digits, a telephone number in its three groups.
THEOREM PacketAlwaysRight == PktSpec => []PacketRight
<1>1. PktInit => PacketRight
  BY DEF PktInit, PacketRight, FieldsKept, CidSplit
<1>2. PacketRight /\ [PktNext]_pktVars => PacketRight'
  <2> SUFFICES ASSUME PacketRight, [PktNext]_pktVars
               PROVE  PacketRight'
    OBVIOUS
  <2>1. CASE UNCHANGED pktVars
    BY <2>1 DEF PacketRight, FieldsKept, CidSplit, pktVars
  <2>2. ASSUME NEW n \in 0 .. 13, NEW number \in CallingNumber(n), NEW l \in Lengths,
               MakeScsEvent(number, l)
        PROVE  PacketRight'
    <3>1. FieldsKept'
      <4>1. /\ layout' = EventFields /\ length' = l
            /\ packet' = Fill(EventFields, l)[Len(EventFields)]
        BY <2>2 DEF MakeScsEvent
      <4>2. ValuesOK(EventFields, l) /\ EventFields \in Seq(DOMAIN Width)
        BY LayoutsOK, LengthsOK
      <4>3. \A i \in 1 .. Len(EventFields) :
              SubSeq(Fill(EventFields, l)[Len(EventFields)], Offset(EventFields, i) + 1,
                     Offset(EventFields, i + 1)) = Field(EventFields[i], l[EventFields[i]])
        BY <4>2, PacketFilled
      <4> QED
        BY <4>1, <4>3, Zenon DEF FieldsKept
    <3>2. CidSplit'
      <4>1. caller' = number /\ cid' = Make444(number)
        BY <2>2 DEF MakeScsEvent
      <4>2. number \in Seq(Nat)
        BY NumbersAre
      <4> QED
        BY <4>1, <4>2, CidRight DEF CidSplit
    <3> QED
      BY <3>1, <3>2 DEF PacketRight
  <2>3. ASSUME MakeNotice
        PROVE  PacketRight'
    <3> DEFINE l == [f \in DOMAIN Width |-> Width[f]]
    <3>1. FieldsKept'
      <4>1. /\ layout' = NoticeFields /\ length' = l
            /\ packet' = Fill(NoticeFields, l)[Len(NoticeFields)]
        BY <2>3, Zenon DEF MakeNotice
      <4>2. ValuesOK(NoticeFields, l) /\ NoticeFields \in Seq(DOMAIN Width)
        BY LayoutsOK, LengthsOK
      <4> HIDE DEF l
      <4>3. \A i \in 1 .. Len(NoticeFields) :
              SubSeq(Fill(NoticeFields, l)[Len(NoticeFields)], Offset(NoticeFields, i) + 1,
                     Offset(NoticeFields, i + 1)) = Field(NoticeFields[i], l[NoticeFields[i]])
        BY <4>2, PacketFilled
      <4> QED
        BY <4>1, <4>3, Zenon DEF FieldsKept
    <3>2. CidSplit'
      BY <2>3 DEF MakeNotice, PacketRight, CidSplit
    <3> QED
      BY <3>1, <3>2 DEF PacketRight
  <2> QED
    BY <2>1, <2>2, <2>3 DEF PktNext
<1> QED
  BY <1>1, <1>2, PTL DEF PktSpec
=============================================================================
