# TLA+ models of the GED gateway

## 1. The system

GED ("SCS" in its own messages) sits between Cisco CTI servers and a set of VAS
recording servers. It reads call and RTP events from the CTI servers, keeps one
record per call, and tells the VAS server in whose address range the agent's
phone lies when to start (`S`) and when to end (`E`) a recording. Two PFS servers
mirror the voice traffic; each VAS server is told which of them to use. An EXTRA
VAS server takes the events of VAS servers that are dead. A second gateway can run
as backup and take over when the active one disappears.

Everything is one process with many threads (`src/src/main.cpp`):

    CTI server --> CCtiSocketIf::Run --> CCtiQueue --> CCtiIfHandler::Run
                                                            |  GetVasNo (cfg.cpp)
                                                            v
                              CVasIfHandler queue --> CVasIfHandler::Run --> VAS server
                                   |  dead server           ^ ThreadVasSocketWatcher
                                   v                        |
                              CVasExtra queue --> CVasExtra::Run --> EXTRA VAS server
                                   ^
    PFS server <--> CPfsIfHandler::Run  -- PfsChange --> all CVasIfHandler and CVasExtra
                        ^---- SendVasChange -- watchers of VAS handlers, CVasExtra::Run
    operator --> CTcpServer: switch a VAS server back, read the configuration again
    active gateway: CKeepAlivedServer <--> backup gateway: CKeepAlivedClient in main

Shared state is protected by a mutex only inside the queues. The connection state of
a VAS server, the PFS socket, the address table and the change byte are shared
without a lock.

## 2. Inventory

| Component | State | Operations | Talks to |
|---|---|---|---|
| CTI socket `ctisocketif.cpp` | socket, `next_server`, idle counter, header and body being read | connect and open, toggle between active and standby server, poll, heartbeat, read header, read body, dispatch | CTI servers, CTI queue |
| CTI queue `ctiqueue.cpp`, `posixsem.cpp` | ring, head, tail, counter, mutex, semaphore | EnqueueMessage, WaitSemaphore, DequeueMessage | CTI socket (producer), CTI handler (consumer) |
| CTI event handler `ctiifhandler.cpp` | `m_mapCDR`, call key sequence | OnBeginCallEvent, OnCallEstablishedEvent, OnRTPStartedEvent, OnRTPStoppedEvent, OnCallClearedEvent | CTI queue, address table, VAS queues |
| VAS handler `vasifhandler.cpp` | queue, semaphore, `g_pfs_change`, VAS_ARG (`sockfd`, `connected`, `failedToConnect`), switch-back flag | EnqueueMessage, PfsChange, SetVasChangeBack, Run, watcher | CTI handlers, PFS handlers, EXTRA handler, administration |
| EXTRA VAS handler `vasextra.cpp` | the same without `failedToConnect` | EnqueueMessage, PfsChange, Run, watcher | VAS handlers, PFS handlers |
| PFS handler `pfsifhandler.cpp` | socket, try counter | connect, poll, heartbeat, reconnect, announce the change; SendVasChange for others | PFS server, VAS handlers, EXTRA handler |
| Configuration `cfg.cpp` | `g_vas_ip_01`, `g_vas_range`, addresses and number of the servers | LoadParameters, GetIpPort, check_ip, SetRange, GetVasNo | all |
| Start-up `main.cpp` | the arrays of handlers | load, start the administration, PFS and CTI threads, create the VAS handlers; signal handlers | all |
| Administration server `tcpserver.cpp` | client connections | switch-back, reload of the configuration | VAS handlers, configuration |
| Keep-alive `CKeepAlivedServer.cpp`, `CKeepAlivedClient.cpp`, `main.cpp` | connection, `retry` | accept, answer; connect, HealthCheck, take over | the other gateway |
| Packet construction `pktdef.cpp` | none | MakeScsEvent, MakePfsChange, MakeVasChange, MakeHealthCheck, Make444 | senders |
| Log `log.cpp` | mutex, date and name of the current file, file number | LogPrintf, LogTCP, LogErrorPrintf | all threads, signal handlers |
| Socket, thread, string tables | thin wrappers and names | | |

What is hard in this code, and what therefore makes each component correct:

* **CTI queue** - counter and semaphore change at different times: no message may
  be stranded without a token, no wake-up may find the ring empty, and the ring must
  not overwrite a message when it is full.
* **CTI socket** - TCP cuts messages anywhere; servers close or fall silent in the
  middle of one. Messages must be kept apart, and the thread must come back to a
  server that is up.
* **CTI event handler** - call ids are used again, events come in several orders and
  may be lost: whose data does an `S` or `E` carry, and to which server does it go?
* **VAS handler** - events and PFS changes share one semaphore, Run and watcher share
  three fields without a lock, each of them read several times: no event may get
  stuck, and few may be lost.
* **EXTRA handler** - as above; it is the last resort, so its queue must not fill up.
* **PFS handler** - two threads read answers from one socket: swapped answers must
  not be taken for a dead server.
* **Configuration** - a reload clears and refills the table under the feet of lookups.
* **Start-up** - threads run before what they use exists, and main counts to a number
  that a reload changes: after start-up every handler that is reached for must be there.
* **Request numbers, call keys, heartbeat times** - shared counters with and without
  locks, that wrap, and times of day without a date: the counter must come back
  below its limit, keys must not repeat, no connection may be left silent.
* **Packets** - fields without separators, written with functions that add terminators
  and do not cut: each field must hold its own value in the end.
* **Log** - one mutex for all threads and for signal handlers, names that change with the
  date: a line must be found under its date, and a signal must end the process.
* **Keep-alive** - one counter counts several things; the backup must take over when
  the active gateway is gone, and only then.

The list of hazards, each at its source line and with the properties that watch it,
is in `PROJECT.json` under "hazards".

## 3. Modules

Operators keep the names of the C++ functions and fields; names such as
`enqueue_store` or `run_connected2` are steps inside the function of that name. The
operators commented "Faulty variant" are no part of any specification: each is a
plausible bug in the definition below it (a dropped guard, a forgotten wrap), kept to
confirm that the property it is meant for really fails when the code is wrong.

### CtiQueue, FifoChannel (CTI queue)

`CtiQueue` has one step per access to shared state: lock, test and copy with the
index, counter, unlock, post. The mutex is what keeps the critical section together,
not the model. Producers are a set, because the same ring is copied into
`CVasIfHandler` and `CVasExtra`, which have several. `FifoChannel` is the abstract
specification: a bounded FIFO that accepts, refuses when full, and delivers.
`ImplementsFifo` maps the ring to it: a message is accepted when it is counted, taken
when it is copied out.

Left out: error returns of `pthread_mutex_lock` (a valid default mutex gives none)
and `DestroyQueueInterface`, called only when the process ends.

### CtiIfHandler (CTI event handler)

State: `m_mapCDR` and the last message put into a VAS queue. The CTI server is the
environment: it begins, establishes and clears calls, and starts and stops RTP streams;
every event either reaches its handler (`BeginCall`, `RTPStarted`, ...) or is lost
(`...Lost`), as happens when the ring is full or the socket is being reconnected. The
map is private to the thread, so an event is handled in the step in which it happens.
A call key is represented by its call (`CallKey` says how far that is true), agent id and extension by the agent's address.
Handlers that only log are left out.

The table of address ranges (`vasRange`) is not the handler's: an event looks an address up twice, once to decide
whether to send and once, in SendScsEventToVasQueue, to find out where to, and a reload may clear and refill it
between any two events and between the two lookups. `Tables` is the set of what the table may say at some
moment, half-filled tables included; `VasConfig` models how it is filled. The history variable `inCharge` is the server
both lookups agreed on when the agent's stream started or the outbound call was answered.

### VasIfHandler (VAS handler)

Three kinds of threads: producers and PFS threads (store, then post), the watcher
(`wpc`: connect, publish socket, set connected, poll, destroy, three retries, give up,
switch-back, reset) and Run (`rpc`: every read of a shared field is a step of its own).
`fate` follows every event: queued, refused, held by Run, sent to the VAS server, diverted to the
EXTRA server, lost. The ring is a FIFO here, which `CtiQueue` justifies; the
post outside the critical section stays a step. Whether a heartbeat is due is a
matter of `HeartbeatTime`; here one may be sent, and fail, at any poll. Left out: reuse of a closed file
descriptor number by another thread, the mutex error paths, and the effect of the
SendVasChange calls on the PFS connection (modelled in `PfsIfHandler`).

### VasExtra (EXTRA VAS handler)

As `VasIfHandler`, but the watcher reconnects for ever, Run discards an event when
there is no connection, and a failed send is reported to the PFS servers.

### CtiSocketIf (CTI socket)

A message is a header of two units and a body of several; units arrive one by one.
`recv()` returns what is there, 0 after the peer closed, -1 after a timeout or a reset.
The unsigned result of `Receive` in the open handshake (a timeout passes for an answer) and
the addition of -1 to `total_rcvd_bytes` are modelled as the code has them. A header
read at a wrong place has arbitrary fields; so has the uninitialised `mhdr` after a late
OPEN_CONF. The contents of OPEN_REQ are left out; `InvokeId` models the request numbers.

### PfsIfHandler (PFS handler)

The heartbeat thread and callers of SendVasChange share `m_nSock`, which each send and
receive reads anew. All packets have the same 28 bytes. An answer is two pieces, its head and its result, "Y" or "N",
which arrive together or one after the other; a receive takes at most one packet of what is there, and
SendHeartBeat gives up on less than a packet. A reconnection fails because the server is gone (`retry_fail`) or
because the gateway cannot make a socket (`retry_local`). The loop over the VAS handlers reads
`cfg.nVasServerCount` on each turn while a reload sets it to 0 and counts it up again (`reload_reset`,
`reload_server`, at any moment and any number of times). The
two PFS handlers share nothing, so one is modelled.

### VasConfig (configuration and reload)

`LoadParameters` in steps: clear the prefixes, clear the ranges, then line by line the
servers, with the counter that VAS_SERVER_1 resets, and the range files; `GetVasNo` in two
steps: find the slot, read the number. One looking-up thread stands for all, since a lookup
changes nothing that others see. A configuration is the sequence of lines that matter here (VAS
servers, the EXTRA server, range files); parameters that `main` reads once, and the splitting of a
line into bytes, are left out (a line that is no address is `BadPrefix` or `BadSuffix`, depending
on where the code notices). The text of a server's address is a sequence of digits and dots:
`GetIpPort` copies it over the old one without a terminator, `check_ip` counts the dots of the
result. A value without a colon, a text that is no address and a range file that does not exist end
the process.

### ScsStartup (start-up; composes main with VasConfig)

EXTENDS VasConfig, whose actions are steps of its threads. `main` goes from loading through the
administration server, the mode, PFS and CTI threads to the loop that creates one VAS handler for
each of `cfg.nVasServerCount`, in two steps each (the object, its queue), and to the EXTRA handler,
which gets a queue only if it has a port. Meanwhile the threads that run already reload the
configuration, look addresses up and reach for handlers. What they do with a
handler that is not there is undefined: the model records who it was and where main
was (`fault`), and stops. The PFS thread and the CTI thread read the same state and write none of it, so
they are modelled one at a time.

### InvokeId, CallKey, HeartbeatTime (parts of CTI socket, CTI handler, VAS handlers)

`InvokeId`: GetInvokeID with the increment as a read and a store under the lock, and test and reset outside
it. `CallKey`: GenerateCallKey of the threads of all CTI handlers, the constructor that
initialises the static mutex again, a clock, and restarts. `HeartbeatTime`: Run stores day and time of the last
event in two steps, never initialised; the watcher's poll times out and DiffTime decides; a
calendar runs on, in which every month may have any of the given lengths. The watcher's timeout, read when it starts
(`vasifhandler.cpp:228`), and `cfg.nVasHBPeriod`, read anew at each timeout (`:275`), are one
constant `Period`: a reload that changes the period is left out.

### Packets (packet construction)

A byte is a pair of the field it comes from and its position there. `Fill` writes the fields in the
code's order, with what sprintf adds and does not cut; values may be empty or too long. It is a function
defined by recursion over the number of fields written, and so are the offsets. `Make444` is
compared with what the comments in the code say of telephone numbers: area code, exchange, line.

### LogFile (log and signals)

The mutex, the date at which the names were made, the number of the file, and the files on disk, which outlive
the process; days pass at any moment. A signal interrupts a thread wherever it is; its handler needs
the mutex before it can end the process. One signal at a time is modelled, and no lock but the log's own: a second
signal that hits the holder, and the locks inside malloc and stdio that a handler may wait for too, are left out.
All months of the calendar have the same length.

### KeepAlive (active/backup pair)

The keep-alive thread of the active gateway (accept with a timeout, serve one
connection, or end), the backup's loop in `main` with `HealthCheck`, and an environment of
crashes, restarts, network failures and interrupted polls. The kernel accepts
connections and data even when the thread has ended, and the backup never insists on an
answer; but nobody empties the listen queue (`Backlog` connections, 1024 in the code) and the buffers (`Buffer`
health checks) then, so that in the end `connect()` (`connect_fail`) and `Send()` (`health_full`) fail although the
active gateway is well. Sockets that the backup cannot make (`connect_local`) are counted as well, as main does.

### Proof modules

`CtiQueueProofs`, `CtiSocketIfProofs`, `CtiIfHandlerProofs`, `VasIfHandlerProofs`, `VasExtraProofs`,
`PfsIfHandlerProofs`, `ScsStartupProofs` for VasConfig and ScsStartup, and `PartsProofs` for KeepAlive,
InvokeId, CallKey, HeartbeatTime, LogFile and Packets (section 6). The
`MC...` modules give the constants their values for TLC. `MCParts` runs six modules that share no
state (KeepAlive, InvokeId, CallKey, HeartbeatTime, Packets, LogFile): a variable that never changes
says which of them moves, so that their states add up and do not multiply. Fairness is asked only
of the part that moves.

## 4. Runs

| Run | Configuration | Checks |
|---|---|---|
| `cti_queue` | `MCCtiQueue.cfg` | type, NoEmptyDequeue, TokenBalance, RingConsistent, ImplementsFifo, DrainsWhenQuiet |
| `cti_handler` | `MCCtiIfHandler.cfg` | type, RecordIsCurrent, AgentAnnounced, EndClosesLastStart, NoStartBeforeAnswer, StartWhileTalking, EndNamesStoppedAgent |
| `vas_handler` | `MCVasIfHandler.cfg` | TokensCoverWork, BoundedLoss, LossNeedsFailure |
| `vas_events_leave` | `MCVasIfHandler_live.cfg` | EventsLeave |
| `vas_dead` | `MCVasIfHandler_dead.cfg` | DeadVasForwards: **violated** |
| `pfs_change_lost` | `MCVasIfHandler_change.cfg` | NewestChangeAnnounced: **violated** |
| `cti_socket` | `MCCtiSocketIf.cfg` | FramingKept, ReconnectsUndisturbed |
| `cti_cut` | `MCCtiSocketIf_cut.cfg` | Reconnects: **violated** |
| `pfs_handler` | `MCPfsIfHandler.cfg` | ChangeNeedsFailure, HealthyConnectionKept, DeadPfsAnnounced, CallsReturn |
| `vas_extra` | `MCVasExtra.cfg` | TokensCoverWork, LossNeedsFailure, EventsLeave |
| `scs_startup` | `MCScsStartup.cfg` | TableMatchesFiles, NoMisroute, NoMissingHandler, ExitNeedsReason |
| `parts` | `MCParts.cfg` | KeepAlive: type, TakeoverNeedsOutage, FailuresInARow, DeadActiveReplaced; OverrunSeen; CallKeysUnique; SilenceBounded; PacketRight; LineInPlace, SignalEnds |

### What they show

* **cti_queue**: at every interleaving each counted message has exactly one token, the
  "empty queue" branch of Run is unreachable, head, tail, counter and slots agree, the ring is
  a bounded FIFO, and it drains when the producers are quiet.
* **cti_handler**: a record is stale only after a lost CALL_CLEARED; the agent a record
  names has been announced, whichever of CALL_ESTABLISHED and
  RTP_STARTED came first, to the server that both lookups of the event found in charge, and what reloads
  do to the table later does not change that; an `E` closes the last `S`, with the same key, caller and agent, and on the
  same server if that one is still in charge. If a reload has moved the agent's address in between, the `E` goes to a server that
  knows of no start, or is discarded; nothing in the code prevents it. No recording starts for a phone
  that only rings. The premises of these properties mark what the code does not handle:
  a reused id after a lost CALL_CLEARED, an early stream that stopped before the answer, a
  lost RTP event, and overlapping streams of two agents in a transfer.
* **vas_handler**: although a token posted for a change may be spent on an event and
  vice versa, there is always a token for what waits. Once the watcher has noticed a
  failure at most two events are lost on it; two is reached: one that Run had already decided to
  send, one for which `failedToConnect` changes between the two conditions.
  Nothing is lost or diverted without a failure.
* **vas_events_leave**: with the server up in the end, nothing stays in the queue or the waiting loop.
* **cti_socket**: as long as headers come whole and no receive fails, the queue gets
  exactly the events sent, however bodies are cut; every new connection starts in step; and
  the thread returns to a server that is up if no connection ends inside a message.
* **pfs_handler**: swapped, late and cut answers break connections but never make the gateway turn
  the VAS servers away: that takes a server that failed since it was connected, or three reconnections in a row that fail in
  the gateway itself. A connection is given up only if the server failed, an answer was late or cut in two, or
  another thread used it. A dead server is announced to the EXTRA handler always, and to all VAS handlers unless a reload
  had their number reset during the loop (then some are not told, in spite of the comment "ALL VAS"). No call hangs.
* **vas_extra**: nothing is discarded before a failure, and no event or change stays.
* **scs_startup**: after loading, the table says of every address what its last line says,
  nothing of the old table survives, and too many prefixes make addresses missing but never wrong.
  A lookup in the middle of a reload is right or finds nothing as long as prefixes keep their
  slots; without that condition TLC shows a lookup that returns the server of another
  address, and nothing in the code ensures it. Once main has finished, no thread reaches for a missing
  handler, though the counter goes to 0 and up again at every reload. The conditions of this
  are what the code does not ensure, and each is needed: the configurations agree on the
  servers, name VAS_SERVER_1 once and have an EXTRA server, none was loaded while main created the handlers, and the
  administrator names a server that exists. (A second VAS_SERVER_1 line, which resets the counter in the middle of
  the file, makes main create fewer handlers than there are servers; the proof brought this condition to light.) Before main has finished handlers are missing: the CTI, PFS and administration threads
  run earlier. A reload ends the process for a missing file, a value that is no address, or
  an address shorter than its predecessor, whose rest stays behind it. This is about the lines of VAS servers and
  range files; those of CTI servers, PFS servers and the mate (`cfg.cpp:118-147`, `168-188`) can end it as well and are not modelled.
* **parts**, keep-alive: an active gateway that was always in reach is replaced only if its listen queue was full,
  or if the backup itself failed twice in a row (interrupted polls, sockets it could not make) out of the three failures it
  counts. Buffers that nobody empties add one failure to a row, never two, since each new connection has room for a health
  check, which sets the counter back. But each of these failures leaves one connection more in the listen queue, and once it is
  full the backup does take over from a healthy gateway. Failures with a health check between them do not add up; a dead
  gateway is replaced.
* **parts**, request numbers: resets may be lost, but the counter is never above its limit without a
  thread that is going to look at it.
* **parts**, call keys: equal keys need a wrap within a second, a month, a restart, or a handler created
  while another one makes a key.
* **parts**, heartbeats: within a day of the last event a connection is silent for less than two
  periods, later for at most three (reached, when the time of day makes an old event look
  new). Both bounds are tight. An uninitialised time that no clock shows is outside the property.
* **parts**, packets: however long the values are, every field of the finished packet holds its own value cut
  or padded to its width, because the fields are written in their order; telephone
  numbers are split into area code, exchange and line.
* **parts**, log: a line lies in the directory and file of its date, over ends of months and years, rotations and
  restarts, unless nothing was logged for a month; as far as the log's mutex goes, a signal ends the process unless
  it interrupted the thread that holds this mutex, which then waits for itself.

### Disagreements between code and comments

1. *vas_dead.* The comment at `vasifhandler.cpp:489` says "If my VAS is dead, forward the
   message request to an EXTRA VAS server." A server that is dead at start-up, or after a
   switch-back, is never reported as failed: the loop at 231-247 does not set
   `failedToConnect`. Its events stay in the queue.
2. *pfs_change_lost.* Run sends the byte it found and then clears it without looking
   again (`vasifhandler.cpp:476`): a change stored in between is never sent, although
   `pfsifhandler.cpp:163` says "Send PFS Change request to ALL VAS...".
3. *cti_cut.* The loop that reads a body (`ctisocketif.cpp:561-565`) ignores a result of 0:
   after a close inside a body the thread never reconnects, although line 722 says
   "Something wrong in the socket. So disconnect it and reconnect it."

### Bounds, and why they are enough

* `cti_queue`: three slots, two producers, two messages; the ring wraps, fills, and refuses
  with both producers in a call. There is no bound on the number of calls. The proofs
  remove the remaining bounds.
* `cti_handler`: one call id, used by two calls in turn (records of different ids are
  independent: no handler touches another id), two agents and one address outside, two tables between which
  one agent moves from a server to another and the other agent leaves the ranges,
  four RTP events per call (two overlapping streams), two lost events.
* `vas_handler`: queue of two, three events (one refused), two producers, two PFS threads, two
  failures, two changes, one switch-back, the three attempts of the code. Messages,
  producers and PFS threads are symmetric in that run; runs with liveness use no symmetry.
  The liveness runs use fewer events, failures and changes (see their cfg files).
* `cti_socket`: bodies of up to two units, two messages, two idle polls instead of 180 before a
  heartbeat, one failure, one cut, one stall.
* `pfs_handler`: two VAS handlers and the EXTRA one, two callers, three calls. Nothing else is bounded: failures and
  recoveries of the server, late and cut answers, local failures and reloads happen any number of times.
* `vas_extra`: two events, a queue of one, two failures, two changes.
* `scs_startup`: two slots instead of ten, three prefixes, up to three servers, two reloads (a
  lookup can be overtaken by two tables), and a handful of configurations chosen so that each kind of line
  and each way of disagreeing with another configuration occurs.
* `parts`, keep-alive: three retries as in the code, four failures (enough
  for a crash and restart between any two of the three retries), three interrupted polls, three local failures; a listen
  queue of three and buffers of two health checks, so that both fill.
* `parts`, others: request numbers 1 to 3 and three threads, so that the counter overruns by more than
  the threads; four keys with sequence numbers 0 to 2, a month of two seconds, a restart; days of 13
  seconds and a period of 3 (a day is more than four periods), months of 2 and 3 days; fields of 1 to 4 bytes and values that
  exceed them by 4, calling numbers of 0 to 13 digits; months of 3 days, years of 2 months, files of one line, three lines, one restart.

Deadlock is checked in `cti_queue` and `pfs_handler`, whose models never stop. The others
bound the environment and may stop when it has done all it may do.

### Fairness

* Threads are scheduled: weak fairness of each thread's steps. A call that has begun ends.
* Nothing obliges servers to fail or to recover, the operator to act, or a heartbeat to fail on
  a working connection. Properties that need a server say so in a premise (`<>[]vasUp`, `<>[]up[s]`).
* `CtiSocketIf`, `KeepAlive`: TCP gives up on data that is never acknowledged. A message that
  was begun arrives.
* `PfsIfHandler`: strong fairness of a receive's failure. The timer of SO_RCVTIMEO runs on
  while other threads take the data; so a receive that can time out again and again ends. A running server answers, and the
  second part of an answer follows the first (weak). Nothing is asked of reloads or of local failures.
* `LogFile`: the thread that holds the mutex goes on (weak); a signal handler that waits for the mutex gets it
  when it is free again and again (strong: other threads may take it in between, but not for ever).
* `VasExtra` asks nothing of its watcher, `KeepAlive` nothing of the keep-alive thread.
* Run in both VAS handlers polls `connected` every 500 ms until it has seen it set; a
  first connection shorter than that may be missed, so EventsLeave speaks of the time after.

## 5. Abstractions common to all modules

The text of log lines and the values of packets are left out. The stores of `sockfd` and `connected` become
visible in program order, as on x86, for which the build is made. A socket call has the outcomes the
code tells apart. Counters of the environment (`MaxFail`, `MaxLost`, ...) are bounds of the model; the
proofs hold for every value of them.

## 6. Proofs

Checked by TLAPS, for every value of the constants that satisfies the named ASSUMEs. Every inductive
invariant was first checked by TLC as an invariant of the small instance. All safety invariants of
the runs are proved.

**CtiQueueProofs** (assumptions: a finite set of producers, at least one slot, distinct special
values). `TokenBalance` and `RingConsistent` are not inductive alone: two producers in the
critical section could both move the head. The inductive invariant is

    IInv == TypeOK /\ MutexInv /\ CallInv /\ TokenBalance /\ RingConsistent

where MutexInv says who holds the mutex, and CallInv that a producer which has not yet counted
carries a message (else it could store a cleared slot). From it follow TypeCorrect, TokensBalance,
NeverDequeuesEmpty (the token the consumer holds is one of a counted message) and RingIsConsistent.
`RingImplementsFifo`, Spec => Fifo!Spec, adds StoredInv: the slot after the counted ones holds the
message of the producer that is about to count it. The step that counts is then an Append, the step
that copies out a Tail; all other steps stutter.

**CtiSocketIfProofs** (assumption: the bounds are natural numbers) proves `FramingAlwaysKept`. The
property speaks of what the queue has got; what it gets next is spread over the header, the part of
the body that was read, the bytes that have arrived and those the server has still to send. Their
concatenation, `Wire`, is what most steps leave alone: reading and arriving only move units along it.
The invariant says of a connection that is not disturbed that

* `Framed`: a unit that begins a message is followed by the units of this message in order, and then by the
  beginning of a later one;
* `Owed`: the events that begin on the wire are the ones sent and not yet got, except
  perhaps the last, which a failing server may have cut off; while the server is alive none is missing
  (`Complete`) and the last one is whole (`Whole`);
* `Reading`: the header that was read is the one at the beginning of the wire, and the body goes on from
  where it is.

So a complete body is exactly the first message of the wire, that message is the next one due, and
what is left is framed again. `Numbered` (messages are numbered as they are sent) makes "next"
unique; `RestShape` keeps an undivided header undivided while it arrives. With an empty wire nothing is
owed, which is the last part of FramingKept. The lemmas about sequences of units (dropping the first message,
cutting the end off, adding a message) come first; each step of the thread then cites one.

**CtiIfHandlerProofs** (assumptions: the numbers in the tables are positive or -1; `NoIp`, `NoRecord` and `NoMsg` are
none of the values they stand beside). The counters of a record are natural numbers: no bound of the model limits
them. The set of tables is arbitrary, and they may change at every step. Every step but a reload is about one call id, so the invariant is a conjunction over the ids, with what
the last message says:

    IInv == TypeOK /\ (\A c \in CallIds : RecordOK(c)) /\ MessageOK
    RecordOK(c) == Current(c) /\ Announced(c) /\ Charged(c) /\ Answered(c) /\ Talking(c) /\ Named(c)

The properties of messages are not inductive, since they compare a message with what the
record said before it: NoStartBeforeAnswer needs Answered (only the answer clears
nInitialCallEstablished of an outbound call), StartWhileTalking needs Talking (before the answer the agent in the
record is on the line), EndNamesStoppedAgent needs Named (the one running stream is that of
the agent in the record). Announced compares the last start with the server that both lookups of the event found
(`inCharge`), not with the table of the moment, which a reload may have changed; Charged says that a server is in charge of a
record only, so that a new record begins without one. EndClosesLastStart follows from Announced when the table of the moment
still agrees with `inCharge`. All seven invariants of `cti_handler` follow.

**VasIfHandlerProofs**, **VasExtraProofs** (assumptions: a queue with at least one place, at least one attempt,
`NoChange` is no PFS server). TokensCoverWork is not inductive: when Run finds the queue
empty it gives up its token, although a change may have been stored after it looked at the byte.
Counting adds that such a change has brought a token nobody has taken. BoundedLoss needs Published
(the flags Run reads say where the watcher is) and Losses, which bounds the losses at each stage of
giving a connection up: one for the event that Run was about to send, one for the event that meets
`failedToConnect` changing between the two conditions. LossNeedsFailure needs Quiet: without a failure the watcher does not go
beyond its poll, and the connection it published works.

**PfsIfHandlerProofs** (assumption: at least one attempt), for any number of callers, handlers, failures, late and cut answers
and reloads. The invariant is `IInv == Flags /\ Data /\ NeverDown /\ Alone`; Flags and Data are the types, with what is 0 outside
the two loops. ChangeNeedsFailure needs NeverDown: a server that was reached and has not failed since is up, so that
reconnecting fails only in the gateway itself, and `here` counts these attempts along with `tries`; the loop over the handlers is
thus reached after a failure of the server or MaxTries local ones. HealthyConnectionKept needs Alone: when nothing has disturbed
the connection (`Quiet`), it carries nothing between heartbeats and during one exactly one request or its whole answer (`Exchange`).

**PartsProofs**, keep-alive (assumptions: at least one retry, a listen queue and buffers with at least one place). The
invariant is proved in parts, Boolean and arithmetic ones apart: `KaFlags` (without an outage the process runs, the network works, and the
connection is absent or alive), `KaFull` (the backup is active exactly when its counter is full), `KaKernel` (listen queue and
buffers stay within their sizes), `KaOwn` (without an outage and a full listen queue the counter exceeds the backup's own failures by at
most one, and not at all while health checks of the present connection are unread, since sending one set it back; buffers are full
only then) and `KaCounted` (without interrupted polls the counter is at most the number of failures since the last health check). KaTypes, NoNeedlessTakeover
and TakeoverAfterFailuresInARow follow.

**PartsProofs**, request numbers (assumption: the first number is not above the limit). OverrunSeen is inductive
with the types: the thread that stores a number above the limit is the one that tests next, and a
thread that tests while it is above goes on to reset. `OverrunAlwaysSeen` holds for any set of threads and any limits.

**PartsProofs**, call keys (assumption: the sequence number has at least one value, a month at least one second).
`CallKeysAlwaysUnique`. As long as no constructor has initialised the mutex while it was held, one
handler at a time is inside; numbers are then handed out one after the other, so that two keys of one
run with the same number are a whole round of the sequence apart.

**PartsProofs**, heartbeats (assumption: four periods are less than a day; the period is configured, by default 30 seconds).
`SilenceAlwaysBounded`. The invariant bounds the silence at the last timeout of the poll by
what DiffTime made of it (SilenceAtTimeout), and says that within a day of an event the stored time
is that event's, except between the two steps in which Run stores it (EventStored, JustSent).

**PartsProofs**, log (assumption: a month has a day, a year two months). `LineAlwaysInPlace`. The names
are made anew one by one, as year, month or day differ from those of the line before. NamesOK says that
together they are those of the day of the last line; lemmas about the calendar say that within a
month a day is known by its number, and that a new year is also a new month. LinesCounted bounds the
number of a day's files, by a pigeonhole argument, by the lines written.

**PartsProofs**, packets (assumption: every field has a width of at least one byte). `PacketAlwaysRight`, for
all widths and any excess. PacketRight is inductive by itself; the work is in what the operators compute. Functions
defined by recursion (the offsets, the packet after each field) are shown to exist, and to satisfy their equations, by an
induction up to the number of fields that rests on the smallest number of a set (BoundedInduction,
RecursionExists). Then, again by induction: after field i has been written, it and every field before it hold
their own values, since a field is written only at or behind the end of the ones before it (OffsetsGrow, PutFieldRight), and
the bytes that are printed begin with what the field should hold (BytesRight). That the order of writing is the order of
the fields is what the argument uses. Make444 is followed digit by digit, case by case of the length (CidRight), for calling numbers
of any length.

**ScsStartupProofs** (assumptions: at least one slot; -1, which marks a free slot, is no prefix; in a
configuration the servers fit into the arrays and VAS_SERVER_1 comes first). `StartRefines`, StartSpec => Spec:
each step of main and its threads is a step of VasConfig or leaves it alone. So the properties of the table are proved
once, of VasConfig, and hold of the gateway. Their invariant, CfgInv, has these parts:

* `LoaderOK`: what is left to read is the rest of the file, and of the range file in hand;
* `Slotted`: a used slot holds a prefix of the configuration being loaded (of the one before it, while the old table
  is being cleared), and it is the slot of the prefix's rank in that configuration;
* `Cleared`: the two steps that clear leave nothing behind them;
* `TableOK`: the used slots are the first ones and hold the prefixes of the lines read so far (`Taken`, `InOrder`,
  `Complete`, the last if they fit), the numbers in them come from these lines (`OwnNumbers`) and, if they fit, from
  the last line of each address (`LastWins`);
* `LookupOK`: the slot that a lookup has found is the one of its prefix in a configuration it has met.

The central lemma (RankOfNew) says that the first free slot is the rank of a prefix seen for the first time: the used slots and
the earlier prefixes correspond one to one. FitsFree says by counting that there is such a slot if the prefixes fit.
`TableAlwaysRight` and `NeverMisrouted` follow.

`ExitAlwaysForAReason`, about the lines of VAS servers and range files, needs `TextsKnown` (a stored address text is empty, or as long as a well-formed one of its
kind in a loaded configuration) and `CountBounded` (the counter is at most the number of server lines done,
so that it stays inside the array and the text written belongs to a server). `HandlersAlwaysThere` needs, of
regular configurations, `CountExact` (the counter never exceeds the number of servers and, once VAS_SERVER_1
is met, is the number of server lines with a value done so far), `ExtraKnown` (the EXTRA server has its port once its line
is done) and `Created` (the handlers below main's counter are ready; past its loop, without an overlapping reload, they are
as many as the servers); and `NumberGiven` (the number a lookup returns is on a range line of a loaded configuration).

Only model-checked: every liveness property, that is, the properties under fairness (DrainsWhenQuiet, EventsLeave,
ReconnectsUndisturbed, DeadPfsAnnounced, CallsReturn, DeadActiveReplaced, SignalEnds), and the three violated ones. The
prover does not treat fairness. Every invariant of the runs is proved, and the refinement of the CTI queue.

## 7. Not modelled

* `mysocket.cpp`, `mythread.cpp`: thin wrappers; their outcomes are choices of the models that use them.
* `util.cpp` and the recognition of keywords in `cfg.cpp`: parsing without state. That a value may be
  missing or malformed is modelled where it matters (VasConfig).
* String tables (`agentstate.cpp`, `messagetype.cpp`, ...): names of constants for the log.
* `ReadVasConfig` in `cfg.cpp`: nothing calls it.
* The handlers of `ctiifhandler.cpp` that only log, and their `Print...FloatingFields`.
* The number of CTI servers while a reload changes it: main's loop over them has the same form as the
  one over VAS servers, which is modelled.
* What `main` deletes on its way out after `EXIT`, apart from the missing handlers it meets there.
* The creation of the log's base directory.
* Exits of the process at the lines of CTI servers, PFS servers and the mate, and a reload that changes `nVasHBPeriod`.
* A second signal during the first one, and the locks inside malloc and stdio.
* Numbers of file descriptors that are closed by one thread and used by another: what such a descriptor
  means then depends on the rest of the process.

## 8. Plan

Done, in this order: CtiQueue with its abstraction and proofs; CtiIfHandler; VasIfHandler;
CtiSocketIf; PfsIfHandler; VasExtra; KeepAlive with proofs; VasConfig; ScsStartup; InvokeId with
proofs; CallKey; HeartbeatTime; Packets; LogFile.

Then the proofs: VasExtra, VasIfHandler, PfsIfHandler, CtiIfHandler, the parts (CallKey, HeartbeatTime,
LogFile), CtiSocketIf, VasConfig with ScsStartup, and Packets. Nothing of the plan is left open; liveness
stays with TLC.
