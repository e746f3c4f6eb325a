-------------------------- MODULE PfsIfHandlerProofs --------------------------
(***************************************************************************)
(* Proofs about PfsIfHandler for every set of callers, every number of VAS  *)
(* handlers, of reconnection attempts and of calls of SendVasChange, and    *)
(* any number of failures, reloads, and late or divided answers.            *)
(***************************************************************************)
EXTENDS PfsIfHandler, TLAPS

\* TypeOK in two parts, for the two kinds of reasoning they need.
Flags == up \in BOOLEAN

\* The counters of the two loops are 0 outside of them.  Attempts that failed in
\* the gateway itself are among those counted.
Data ==
  /\ pc \in {"connect", "poll", "drain", "hbSend", "hbRecv", "retry", "tell"}
  /\ tries \in 0 .. MaxTries - 1
  /\ i \in 0 .. NVas
  /\ nVasServerCount \in 0 .. NVas
  /\ cpc \in [Callers -> {"idle", "send", "enter", "recv", "broken"}]
  /\ peer \in {"none", "alive", "closed", "silent"}
  /\ inbox \in Seq({"hb", "vas"})
  /\ answers \in Seq({"head", "Y", "N"})
  /\ rest \in {"none", "Y", "N"}
  /\ nCalls \in 0 .. MaxCalls
  /\ told \in SUBSET Handlers
  /\ here \in 0 .. MaxTries
  /\ seen \in SUBSET Seen
  /\ pc # "retry" => tries = 0
  /\ pc = "retry" => here <= tries
  /\ pc \in {"poll", "drain", "hbSend", "hbRecv"} => here = 0

\* As long as the server has not failed since it was connected, it is up, so that
\* every attempt to reconnect that fails does so in the gateway itself.
NeverDown ==
  "lost" \notin seen =>
    /\ pc # "connect" => up
    /\ pc = "retry" => tries <= here
    /\ pc = "tell" => here >= MaxTries
    /\ told # {} => here >= MaxTries

\* Nothing disturbed the connection since it was made.
Quiet == "lost" \notin seen /\ "late" \notin seen /\ "split" \notin seen /\ "overlap" \notin seen

\* A heartbeat and its answer are alone on the connection.
Exchange ==
  \/ inbox = <<"hb">> /\ answers = <<>>
  \/ inbox = <<>> /\ answers = <<"head", "Y">>

\* A connection that only the PFS thread uses carries nothing between heartbeats,
\* and one exchange during a heartbeat: every answer is the one waited for.
Alone ==
  Quiet =>
    /\ \A c \in Callers : cpc[c] = "idle"
    /\ pc \in {"connect", "poll", "hbSend", "hbRecv"}
    /\ pc # "connect" => peer = "alive" /\ rest = "none"
    /\ pc \in {"poll", "hbSend"} => inbox = <<>> /\ answers = <<>>
    /\ pc = "hbRecv" => Exchange

\* The inductive invariant.
IInv == Flags /\ Data /\ NeverDown /\ Alone

LEMMA Implied == IInv => TypeOK /\ ChangeNeedsFailure /\ HealthyConnectionKept
<1> SUFFICES ASSUME IInv PROVE TypeOK /\ ChangeNeedsFailure /\ HealthyConnectionKept
  OBVIOUS
<1>1. TypeOK
  BY Zenon DEF IInv, Flags, Data, TypeOK
<1>2. ChangeNeedsFailure
  BY DEF IInv, NeverDown, ChangeNeedsFailure
<1>3. HealthyConnectionKept
  BY DEF IInv, Alone, Quiet, HealthyConnectionKept
<1> QED BY <1>1, <1>2, <1>3

LEMMA InitStep == Init => IInv
<1> SUFFICES ASSUME Init PROVE IInv
  OBVIOUS
<1>1. Flags
  BY Zenon DEF Init, Flags
<1>2. Data
  BY BoundAssumption, CountAssumption, SMT DEF Init, Data, Handlers
<1>3. NeverDown /\ Alone
  BY DEF Init, NeverDown, Alone
<1> QED BY <1>1, <1>2, <1>3 DEF IInv

\* Every step preserves the types.
LEMMA FlagsStep == Flags /\ [Next]_vars => Flags'
<1> SUFFICES ASSUME Flags, [Next]_vars PROVE Flags'
  OBVIOUS
<1>1. CASE connect
  BY <1>1, Zenon DEF Flags, connect, ConnectToPfsServer
<1>2. CASE poll_readable
  BY <1>2, Zenon DEF Flags, poll_readable, conn, hist
<1>3. CASE poll_timeout
  BY <1>3, Zenon DEF Flags, poll_timeout, conn, hist
<1>4. CASE drain
  BY <1>4, Zenon DEF Flags, drain, hist
<1>5. CASE hbSend
  BY <1>5, Zenon DEF Flags, hbSend, hist
<1>6. CASE hbRecv
  BY <1>6, Zenon DEF Flags, hbRecv, AfterReceive, hist
<1>7. CASE destroy
  BY <1>7, Zenon DEF Flags, destroy, Fails, Timeout
<1>8. CASE retry_ok
  BY <1>8, Zenon DEF Flags, retry_ok, ConnectToPfsServer
<1>9. CASE retry_fail
  BY <1>9, Zenon DEF Flags, retry_fail, NotReconnected, Shrunk, conn
<1>10. CASE retry_local
  BY <1>10, Zenon DEF Flags, retry_local, NotReconnected, Shrunk, conn
<1>11. CASE tell
  BY <1>11, Zenon DEF Flags, tell, conn
<1>12. ASSUME NEW c \in Callers, SendVasChange(c) PROVE Flags'
  BY <1>12, Zenon DEF Flags, SendVasChange, thread, conn
<1>13. ASSUME NEW c \in Callers, vasChange_send(c) PROVE Flags'
  BY <1>13, Zenon DEF Flags, vasChange_send, thread, hist
<1>14. ASSUME NEW c \in Callers, vasChange_enter(c) PROVE Flags'
  BY <1>14, Zenon DEF Flags, vasChange_enter, thread, conn, hist
<1>15. ASSUME NEW c \in Callers, vasChange_recv(c) PROVE Flags'
  BY <1>15, Zenon DEF Flags, vasChange_recv, AfterReceive, thread, hist
<1>16. ASSUME NEW c \in Callers, vasChange_fail(c) PROVE Flags'
  BY <1>16, Zenon DEF Flags, vasChange_fail, thread, conn, hist
<1>17. CASE reload_reset
  BY <1>17, Zenon DEF Flags, reload_reset, thread, conn
<1>18. CASE reload_server
  BY <1>18, Zenon DEF Flags, reload_server, thread, conn, hist
<1>19. CASE Answer
  BY <1>19, Zenon DEF Flags, Answer, thread, hist
<1>20. CASE Answer_head
  BY <1>20, Zenon DEF Flags, Answer_head, Results, thread
<1>21. CASE Answer_rest
  BY <1>21, Zenon DEF Flags, Answer_rest, thread, hist
<1>22. CASE PfsDown
  BY <1>22, Zenon DEF Flags, PfsDown, thread
<1>23. CASE PfsUp
  BY <1>23, Zenon DEF Flags, PfsUp, thread, conn, hist
<1>24. CASE UNCHANGED vars
  BY <1>24, Zenon DEF Flags, vars, thread, conn, hist
<1> QED
  BY <1>1, <1>2, <1>3, <1>4, <1>5, <1>6, <1>7, <1>8, <1>9, <1>10, <1>11, <1>12, <1>13, <1>14,
      <1>15, <1>16, <1>17, <1>18, <1>19, <1>20, <1>21, <1>22, <1>23, <1>24
  DEF Next, Run, InCall

\* What a receive leaves is a part of what was there.
LEMMA AfterReceiveType ==
  answers \in Seq({"head", "Y", "N"}) => AfterReceive \in Seq({"head", "Y", "N"})
  BY DEF AfterReceive

LEMMA DataStep == Data /\ [Next]_vars => Data'
<1> SUFFICES ASSUME Data, [Next]_vars PROVE Data'
  OBVIOUS
<1> USE BoundAssumption, CountAssumption
<1>1. CASE connect
  BY <1>1 DEF Data, Handlers, Seen, connect, ConnectToPfsServer
<1>2. CASE poll_readable
  BY <1>2 DEF Data, Handlers, Seen, poll_readable, conn, hist
<1>3. CASE poll_timeout
  BY <1>3 DEF Data, Handlers, Seen, poll_timeout, conn, hist
<1>4. CASE drain
  BY <1>4 DEF Data, Handlers, Seen, drain, hist
<1>5. CASE hbSend
  BY <1>5 DEF Data, Handlers, Seen, hbSend, hist
<1>6. CASE hbRecv
  BY <1>6, AfterReceiveType DEF Data, Handlers, Seen, hbRecv, AfterReceive, hist
<1>7. CASE destroy
  <2>1. seen' \in SUBSET Seen
    BY <1>7 DEF Data, Seen, destroy, Fails, Timeout
  <2>2. pc \in {"drain", "hbSend", "hbRecv"}
    BY <1>7 DEF destroy, Fails
  <2>3. cpc' \in [Callers -> {"idle", "send", "enter", "recv", "broken"}]
    BY <1>7 DEF Data, destroy
  <2>4. /\ pc' = "retry" /\ peer' = "none" /\ inbox' = <<>> /\ answers' = <<>> /\ rest' = "none"
        /\ UNCHANGED <<tries, i, nVasServerCount, nCalls, told, here>>
    BY <1>7 DEF destroy
  <2> QED BY <2>1, <2>2, <2>3, <2>4 DEF Data
<1>8. CASE retry_ok
  BY <1>8 DEF Data, Handlers, Seen, retry_ok, ConnectToPfsServer
<1>9. CASE retry_fail
  <2>1. seen' \in SUBSET Seen
    BY <1>9 DEF Data, Seen, retry_fail, NotReconnected, Shrunk
  <2>2. pc' \in {"retry", "tell"} /\ tries' \in 0 .. MaxTries - 1 /\ here' \in 0 .. MaxTries
    BY <1>9 DEF Data, retry_fail, NotReconnected
  <2>3. (pc' # "retry" => tries' = 0) /\ (pc' = "retry" => here' <= tries')
    BY <1>9 DEF Data, retry_fail, NotReconnected
  <2>4. UNCHANGED <<i, nVasServerCount, cpc, peer, inbox, answers, rest, nCalls, told>>
    BY <1>9 DEF retry_fail, NotReconnected, conn
  <2> QED BY <2>1, <2>2, <2>3, <2>4 DEF Data
<1>10. CASE retry_local
  <2>1. seen' \in SUBSET Seen
    BY <1>10 DEF Data, Seen, retry_local, NotReconnected, Shrunk
  <2>2. pc' \in {"retry", "tell"} /\ tries' \in 0 .. MaxTries - 1 /\ here' \in 0 .. MaxTries
    BY <1>10 DEF Data, retry_local, NotReconnected
  <2>3. (pc' # "retry" => tries' = 0) /\ (pc' = "retry" => here' <= tries')
    BY <1>10 DEF Data, retry_local, NotReconnected
  <2>4. UNCHANGED <<i, nVasServerCount, cpc, peer, inbox, answers, rest, nCalls, told>>
    BY <1>10 DEF retry_local, NotReconnected, conn
  <2> QED BY <2>1, <2>2, <2>3, <2>4 DEF Data
<1>11. CASE tell
  <2>1. told' \in SUBSET Handlers /\ i' \in 0 .. NVas
    <3>1. CASE i < nVasServerCount
      <4>1. i + 1 \in 0 .. NVas /\ i \in Handlers
        BY <3>1 DEF Data, Handlers
      <4> QED BY <1>11, <3>1, <4>1 DEF Data, tell
    <3>2. CASE ~(i < nVasServerCount)
      <4>1. NVas \in Handlers
        BY DEF Handlers
      <4>2. told' = told \cup {NVas} /\ i' = 0
        BY <1>11, <3>2 DEF tell
      <4> QED BY <4>1, <4>2 DEF Data
    <3> QED BY <3>1, <3>2
  <2>2. pc' \in {"tell", "connect"}
    BY <1>11 DEF tell
  <2>3. /\ UNCHANGED <<tries, nVasServerCount, cpc, peer, inbox, answers, rest, nCalls, here, seen>>
        /\ pc = "tell"
    BY <1>11 DEF tell, conn
  <2> QED BY <2>1, <2>2, <2>3 DEF Data
<1>12. ASSUME NEW c \in Callers, SendVasChange(c) PROVE Data'
  BY <1>12 DEF Data, Handlers, Seen, SendVasChange, thread, conn
<1>13. ASSUME NEW c \in Callers, vasChange_send(c) PROVE Data'
  BY <1>13 DEF Data, Handlers, Seen, vasChange_send, thread, hist
<1>14. ASSUME NEW c \in Callers, vasChange_enter(c) PROVE Data'
  BY <1>14 DEF Data, Handlers, Seen, vasChange_enter, thread, conn, hist
<1>15. ASSUME NEW c \in Callers, vasChange_recv(c) PROVE Data'
  BY <1>15, AfterReceiveType DEF Data, Handlers, Seen, vasChange_recv, AfterReceive, thread,
      hist
<1>16. ASSUME NEW c \in Callers, vasChange_fail(c) PROVE Data'
  BY <1>16 DEF Data, Handlers, Seen, vasChange_fail, thread, conn, hist
<1>17. CASE reload_reset
  BY <1>17 DEF Data, Handlers, Seen, reload_reset, thread, conn
<1>18. CASE reload_server
  BY <1>18 DEF Data, Handlers, Seen, reload_server, thread, conn, hist
<1>19. CASE Answer
  <2>1. PICK r \in Results(Head(inbox)) : answers' = answers \o <<"head", r>>
    BY <1>19 DEF Answer
  <2>2. r \in {"Y", "N"}
    BY DEF Results
  <2>3. <<"head", r>> \in Seq({"head", "Y", "N"})
    BY <2>2
  <2>4. answers' \in Seq({"head", "Y", "N"})
    BY <2>1, <2>3 DEF Data
  <2>5. inbox' \in Seq({"hb", "vas"})
    BY <1>19 DEF Data, Answer
  <2> QED BY <1>19, <2>4, <2>5 DEF Data, Answer, thread, hist
<1>20. CASE Answer_head
  BY <1>20 DEF Data, Handlers, Seen, Answer_head, Results, thread
<1>21. CASE Answer_rest
  BY <1>21 DEF Data, Handlers, Seen, Answer_rest, thread, hist
<1>22. CASE PfsDown
  <2>1. /\ inbox' \in Seq({"hb", "vas"})
        /\ peer' \in {"none", "alive", "closed", "silent"}
        /\ rest' \in {"none", "Y", "N"}
    <3>1. CASE peer = "alive"
      <4>1. inbox' = <<>> /\ peer' \in {"closed", "silent"} /\ rest' = "none"
        BY <1>22, <3>1, Zenon DEF PfsDown
      <4> QED BY <4>1
    <3>2. CASE peer # "alive"
      BY <1>22, <3>2 DEF Data, PfsDown
    <3> QED BY <3>1, <3>2
  <2>2. UNCHANGED <<pc, tries, i, nVasServerCount, cpc, answers, nCalls, told, here>>
    BY <1>22, Zenon DEF PfsDown, thread
  <2>3. seen' \in SUBSET Seen
    BY <1>22 DEF Data, PfsDown, Seen
  <2> QED BY <2>1, <2>2, <2>3 DEF Data
<1>23. CASE PfsUp
  BY <1>23 DEF Data, Handlers, Seen, PfsUp, thread, conn, hist
<1>24. CASE UNCHANGED vars
  BY <1>24 DEF Data, Handlers, Seen, vars, thread, conn, hist
<1> QED
  BY <1>1, <1>2, <1>3, <1>4, <1>5, <1>6, <1>7, <1>8, <1>9, <1>10, <1>11, <1>12, <1>13, <1>14,
      <1>15, <1>16, <1>17, <1>18, <1>19, <1>20, <1>21, <1>22, <1>23, <1>24
  DEF Next, Run, InCall

\* Every step preserves what holds while the server has not failed.
LEMMA NeverDownStep == Data /\ NeverDown /\ [Next]_vars => NeverDown'
<1> SUFFICES ASSUME Data, NeverDown, [Next]_vars PROVE NeverDown'
  OBVIOUS
<1> USE CountAssumption
<1>1. CASE connect
  BY <1>1 DEF Data, NeverDown, connect, ConnectToPfsServer
<1>2. CASE poll_readable
  BY <1>2 DEF Data, NeverDown, poll_readable, conn, hist
<1>3. CASE poll_timeout
  BY <1>3 DEF Data, NeverDown, poll_timeout, conn, hist
<1>4. CASE drain
  BY <1>4 DEF Data, NeverDown, drain, hist
<1>5. CASE hbSend
  BY <1>5 DEF Data, NeverDown, hbSend, hist
<1>6. CASE hbRecv
  BY <1>6 DEF Data, NeverDown, hbRecv, AfterReceive, hist
<1>7. CASE destroy
  BY <1>7 DEF Data, NeverDown, destroy, Fails, Timeout
<1>8. CASE retry_ok
  BY <1>8 DEF Data, NeverDown, retry_ok, ConnectToPfsServer
<1>9. CASE retry_fail
  BY <1>9 DEF Data, NeverDown, retry_fail, NotReconnected, Shrunk, conn
<1>10. CASE retry_local
  BY <1>10 DEF Data, NeverDown, retry_local, NotReconnected, Shrunk, conn
<1>11. CASE tell
  BY <1>11 DEF Data, NeverDown, tell, conn
<1>12. ASSUME NEW c \in Callers, SendVasChange(c) PROVE NeverDown'
  BY <1>12 DEF Data, NeverDown, SendVasChange, thread, conn
<1>13. ASSUME NEW c \in Callers, vasChange_send(c) PROVE NeverDown'
  BY <1>13 DEF Data, NeverDown, vasChange_send, thread, hist
<1>14. ASSUME NEW c \in Callers, vasChange_enter(c) PROVE NeverDown'
  BY <1>14 DEF Data, NeverDown, vasChange_enter, thread, conn, hist
<1>15. ASSUME NEW c \in Callers, vasChange_recv(c) PROVE NeverDown'
  BY <1>15 DEF Data, NeverDown, vasChange_recv, AfterReceive, thread, hist
<1>16. ASSUME NEW c \in Callers, vasChange_fail(c) PROVE NeverDown'
  BY <1>16 DEF Data, NeverDown, vasChange_fail, thread, conn, hist
<1>17. CASE reload_reset
  BY <1>17 DEF Data, NeverDown, reload_reset, thread, conn
<1>18. CASE reload_server
  BY <1>18 DEF Data, NeverDown, reload_server, thread, conn, hist
<1>19. CASE Answer
  BY <1>19 DEF Data, NeverDown, Answer, thread, hist
<1>20. CASE Answer_head
  BY <1>20 DEF Data, NeverDown, Answer_head, Results, thread
<1>21. CASE Answer_rest
  BY <1>21 DEF Data, NeverDown, Answer_rest, thread, hist
<1>22. CASE PfsDown
  BY <1>22 DEF Data, NeverDown, PfsDown, thread
<1>23. CASE PfsUp
  BY <1>23 DEF Data, NeverDown, PfsUp, thread, conn, hist
<1>24. CASE UNCHANGED vars
  BY <1>24 DEF Data, NeverDown, vars, thread, conn, hist
<1> QED
  BY <1>1, <1>2, <1>3, <1>4, <1>5, <1>6, <1>7, <1>8, <1>9, <1>10, <1>11, <1>12, <1>13, <1>14,
      <1>15, <1>16, <1>17, <1>18, <1>19, <1>20, <1>21, <1>22, <1>23, <1>24
  DEF Next, Run, InCall

\* Every step preserves what holds on a connection nobody else uses.
LEMMA AloneStep == Flags /\ Data /\ NeverDown /\ Alone /\ [Next]_vars => Alone'
<1> SUFFICES ASSUME Flags, Data, NeverDown, Alone, [Next]_vars PROVE Alone'
  OBVIOUS
<1>1. CASE connect
  BY <1>1 DEF Alone, Quiet, Exchange, connect, ConnectToPfsServer
<1>2. CASE poll_readable
  BY <1>2 DEF Alone, Quiet, Exchange, poll_readable, conn, hist
<1>3. CASE poll_timeout
  BY <1>3 DEF Alone, Quiet, Exchange, poll_timeout, conn, hist
<1>4. CASE drain
  BY <1>4 DEF Alone, Quiet, Exchange, drain, hist
<1>5. CASE hbSend
  BY <1>5 DEF Alone, Quiet, Exchange, hbSend, hist
<1>6. CASE hbRecv
  <2> SUFFICES ASSUME Quiet'
               PROVE  Alone'
    BY DEF Alone
  <2>1. Quiet /\ pc = "hbRecv" /\ pc' = "poll"
    BY <1>6 DEF hbRecv, Quiet, hist
  <2>2. inbox = <<>> /\ answers = <<"head", "Y">>
    BY <1>6, <2>1 DEF Alone, Exchange, hbRecv, PositiveAnswer
  <2>3. answers' = <<>>
    BY <1>6, <2>2 DEF hbRecv, AfterReceive
  <2>4. UNCHANGED <<cpc, peer, inbox, rest>>
    BY <1>6 DEF hbRecv
  <2> QED BY <2>1, <2>2, <2>3, <2>4 DEF Alone
<1>7. CASE destroy
  <2> SUFFICES ASSUME Quiet'
               PROVE  FALSE
    BY DEF Alone
  <2>1. Quiet /\ pc \in {"drain", "hbSend", "hbRecv"}
    BY <1>7 DEF destroy, Fails, Timeout, Quiet
  <2>2. pc # "drain" /\ peer = "alive" /\ rest = "none"
    BY <2>1 DEF Alone
  <2>3. pc = "hbRecv" /\ Exchange
    BY <1>7, <2>1, <2>2 DEF destroy, Fails, Alone
  <2>4. CASE inbox = <<"hb">> /\ answers = <<>>
    BY <1>7, <2>2, <2>3, <2>4 DEF destroy, Fails, Timeout, Coming, Quiet
  <2>5. CASE answers = <<"head", "Y">>
    BY <1>7, <2>3, <2>5 DEF destroy, Fails, Timeout, PositiveAnswer
  <2> QED BY <2>3, <2>4, <2>5 DEF Exchange
<1>8. CASE retry_ok
  BY <1>8 DEF Alone, Quiet, Exchange, retry_ok, ConnectToPfsServer
<1>9. CASE retry_fail
  BY <1>9 DEF Alone, Quiet, Exchange, retry_fail, NotReconnected, Shrunk, conn
<1>10. CASE retry_local
  BY <1>10 DEF Alone, Quiet, Exchange, retry_local, NotReconnected, Shrunk, conn
<1>11. CASE tell
  BY <1>11 DEF Alone, Quiet, Exchange, tell, conn
<1>12. ASSUME NEW c \in Callers, SendVasChange(c) PROVE Alone'
  BY <1>12 DEF Alone, Quiet, Exchange, SendVasChange, thread, conn
<1>13. ASSUME NEW c \in Callers, vasChange_send(c) PROVE Alone'
  BY <1>13 DEF Alone, Quiet, Exchange, vasChange_send, thread, hist
<1>14. ASSUME NEW c \in Callers, vasChange_enter(c) PROVE Alone'
  BY <1>14 DEF Alone, Quiet, Exchange, vasChange_enter, thread, conn, hist
<1>15. ASSUME NEW c \in Callers, vasChange_recv(c) PROVE Alone'
  BY <1>15 DEF Alone, Quiet, Exchange, vasChange_recv, AfterReceive, thread, hist
<1>16. ASSUME NEW c \in Callers, vasChange_fail(c) PROVE Alone'
  BY <1>16 DEF Alone, Quiet, Exchange, vasChange_fail, thread, conn, hist
<1>17. CASE reload_reset
  BY <1>17 DEF Alone, Quiet, Exchange, reload_reset, thread, conn
<1>18. CASE reload_server
  BY <1>18 DEF Alone, Quiet, Exchange, reload_server, thread, conn, hist
<1>19. CASE Answer
  <2> SUFFICES ASSUME Quiet', pc = "hbRecv"
               PROVE  Exchange'
    BY <1>19 DEF Alone, Quiet, Answer, thread, hist
  <2>1. inbox = <<"hb">> /\ answers = <<>>
    BY <1>19 DEF Alone, Quiet, Exchange, Answer, thread, hist
  <2>2. inbox' = <<>> /\ answers' = <<"head", "Y">>
    BY <1>19, <2>1 DEF Answer, Results
  <2> QED BY <2>2 DEF Exchange
<1>20. CASE Answer_head
  BY <1>20 DEF Alone, Quiet, Exchange, Answer_head, Results, thread
<1>21. CASE Answer_rest
  BY <1>21 DEF Alone, Quiet, Exchange, Answer_rest, thread, hist
<1>22. CASE PfsDown
  BY <1>22 DEF Alone, Quiet, Exchange, PfsDown, thread
<1>23. CASE PfsUp
  BY <1>23 DEF Alone, Quiet, Exchange, PfsUp, thread, conn, hist
<1>24. CASE UNCHANGED vars
  BY <1>24 DEF Alone, Quiet, Exchange, vars, thread, conn, hist
<1> QED
  BY <1>1, <1>2, <1>3, <1>4, <1>5, <1>6, <1>7, <1>8, <1>9, <1>10, <1>11, <1>12, <1>13, <1>14,
      <1>15, <1>16, <1>17, <1>18, <1>19, <1>20, <1>21, <1>22, <1>23, <1>24
  DEF Next, Run, InCall

LEMMA NextStep == IInv /\ [Next]_vars => IInv'
  BY FlagsStep, DataStep, NeverDownStep, AloneStep DEF IInv

\* Types are kept by the PFS thread, its callers, reloads and the server.
THEOREM TypeCorrect == Spec => []TypeOK
  BY InitStep, NextStep, Implied, PTL DEF Spec

\* The VAS handlers are turned to the other PFS server only after this one failed
\* since it was connected, or all attempts to reconnect failed in the gateway.
THEOREM ChangeAlwaysNeedsFailure == Spec => []ChangeNeedsFailure
  BY InitStep, NextStep, Implied, PTL DEF Spec

\* A connection that only the PFS thread uses is not given up while the server
\* runs and its answers come whole and in time.
THEOREM HealthyConnectionAlwaysKept == Spec => []HealthyConnectionKept
  BY InitStep, NextStep, Implied, PTL DEF Spec
=============================================================================
