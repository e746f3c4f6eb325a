---------------------------- MODULE HeartbeatTime ---------------------------
(***************************************************************************)
(* When a heartbeat is due: GetSentTime and DiffTime of CVasIfHandler       *)
(* (src/src/vasifhandler.cpp; CVasExtra in src/src/vasextra.cpp has the     *)
(* same code).  The thread Run notes day of the month and time of day of    *)
(* the last event it has sent; the watcher, when its poll has timed out,    *)
(* sends a heartbeat if the difference to the present day and time is at    *)
(* least a period.  Neither month nor year are kept, the two numbers are    *)
(* stored one after the other, and they are not initialised.                *)
(*                                                                         *)
(* The watcher polls with the period it read when it began and compares     *)
(* with the one configured at the moment of the timeout.  Both are Period   *)
(* here: a reload that changes the parameter is left out.                   *)
(***************************************************************************)
EXTENDS Integers

CONSTANTS DaySeconds,   \* 24 * 3600 in the code
          MonthDays,    \* lengths that a month may have
          Period        \* cfg.nVasHBPeriod / 1000: the timeout of the poll, and what
                        \* the difference is compared with

ASSUME HeartbeatAssumption ==
  /\ DaySeconds \in Nat /\ Period \in Nat \ {0} /\ 4 * Period < DaySeconds
  /\ MonthDays \subseteq Nat \ {0} /\ MonthDays # {}

VARIABLES
  day, second,          \* the clock: day of the month, second of the day
  m_day, m_sentTime,    \* as stored by Run
  sentPc,               \* Run: "idle", "day" or "time"
  polled,               \* seconds that the present poll has lasted
  \* history
  silent,               \* seconds since anything was sent or received
  idle                  \* seconds since the last event, at most DaySeconds

hbVars == <<day, second, m_day, m_sentTime, sentPc, polled, silent, idle>>

LastDay == CHOOSE d \in MonthDays : \A e \in MonthDays : e <= d
Cap(n, max) == IF n > max THEN max ELSE n
MaxSilent == 5 * Period   \* bound of the history

\* An uninitialised time of day may be any number; one that no time of day can be
\* stands for those.
Wild == 4 * DaySeconds

HbInit ==
  /\ day = 1 /\ second = 0
  /\ m_day \in 0 .. LastDay
  /\ m_sentTime \in (0 .. DaySeconds - 1) \cup {Wild}
  /\ sentPc = "idle"
  /\ polled = 0
  /\ silent = 0
  /\ idle = DaySeconds

abs(n) == IF n < 0 THEN -n ELSE n

\* Faulty variant: midnight is forgotten.
DiffTime_sameDay(d, s) ==
  IF m_day = d THEN abs(s - m_sentTime) ELSE s - m_sentTime

DiffTime(d, s) ==
  IF m_day = d THEN abs(s - m_sentTime)
  ELSE IF m_sentTime > s THEN DaySeconds + s - m_sentTime
  ELSE IF m_sentTime < s THEN DaySeconds + m_sentTime - s
  ELSE 1

\* Run sends an event, then GetSentTime stores the day and the time.  (All within
\* a second.)
hb_event ==
  /\ sentPc = "idle"
  /\ sentPc' = "day"
  /\ silent' = 0
  /\ idle' = 0
  /\ UNCHANGED <<day, second, m_day, m_sentTime, polled>>

GetSentTime ==
  \/ /\ sentPc = "day"
     /\ m_day' = day
     /\ sentPc' = "time"
     /\ UNCHANGED <<day, second, m_sentTime, polled, silent, idle>>
  \/ /\ sentPc = "time"
     /\ m_sentTime' = second
     /\ sentPc' = "idle"
     /\ UNCHANGED <<day, second, m_day, polled, silent, idle>>

\* The poll times out: a heartbeat, if it is due.
hb_timeout ==
  /\ polled = Period
  /\ silent' = IF DiffTime(day, second) >= Period THEN 0 ELSE silent
  /\ polled' = 0
  /\ UNCHANGED <<day, second, m_day, m_sentTime, sentPc, idle>>

\* The VAS server sends something.
hb_receive ==
  /\ polled' = 0
  /\ silent' = 0
  /\ UNCHANGED <<day, second, m_day, m_sentTime, sentPc, idle>>

hb_tick ==
  /\ polled < Period /\ sentPc = "idle"
  /\ polled' = polled + 1
  /\ silent' = Cap(silent + 1, MaxSilent)
  /\ idle' = Cap(idle + 1, DaySeconds)
  /\ \/ second + 1 < DaySeconds /\ second' = second + 1 /\ UNCHANGED day
     \/ second + 1 = DaySeconds /\ second' = 0 /\ day < LastDay /\ day' = day + 1
     \/ second + 1 = DaySeconds /\ second' = 0 /\ day \in MonthDays /\ day' = 1
  /\ UNCHANGED <<m_day, m_sentTime, sentPc>>

HbNext == hb_event \/ GetSentTime \/ hb_timeout \/ hb_receive \/ hb_tick

HbSpec == HbInit /\ [][HbNext]_hbVars

-----------------------------------------------------------------------------
(* Properties *)

\* A connection is not left silent for long: within a day of the last event a
\* heartbeat comes in less than two periods, and even when the time of day, after
\* days or a month, seems to say that an event was just sent, after at most three.
\* (Before the first event this relies on what the memory happened to hold.)
SilenceBounded ==
  m_sentTime # Wild =>
    /\ idle < DaySeconds => silent < 2 * Period
    /\ silent <= 3 * Period
=============================================================================
