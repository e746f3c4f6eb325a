----------------------------- MODULE VasConfig ------------------------------
(***************************************************************************)
(* The table that says which VAS server records an address (src/src/cfg.cpp) *)
(* and its reloading at run time.  The administration server (CTcpServer)   *)
(* calls LoadParameters when it is told to read the configuration again;    *)
(* meanwhile the threads of the CTI handlers look addresses up with         *)
(* GetVasNo and the PFS threads count to cfg.nVasServerCount.  There is no  *)
(* lock.                                                                    *)
(*                                                                         *)
(* An address A.B.C.D is a prefix (A.B) and a suffix (C.D).  A              *)
(* configuration is the sequence of those lines of the file that change the *)
(* state modelled here: VAS servers, the EXTRA server and range files.      *)
(* Lookups change nothing that others see, so one thread that looks up      *)
(* stands for all.  ScsStartup composes this module with main.              *)
(***************************************************************************)
EXTENDS Integers, Sequences, FiniteSets, FiniteSetsExt

CONSTANTS MAX_IP_01,  \* slots for prefixes: 10 in the code
          MAX_VAS_SERVER_COUNT,
          Prefixes, Suffixes,
          BadPrefix,  \* a line that is no address, or whose A or B is no byte
          BadSuffix,  \* C or D is no byte
          NoValue,    \* a keyword without a value
          NoColon,    \* a value that is not IP:PORT
          Configs,    \* contents that the configuration file may have
          MaxReload   \* bound: reloads in a behaviour

\* A line of a range file; text of an IP address, digits "d" and dots ".".
Line == [prefix : Prefixes \cup {BadPrefix}, suffix : Suffixes \cup {BadSuffix}]
Text == Seq({"d", "."})

\* A line of the configuration file: VAS_SERVER_n or VAS_SERVER_EXTRA with its
\* address, or RANGE_FILE_n, a file with these lines or one that does not exist.
ConfigLine ==
  [kind : {"server", "extra"}, no : Nat \ {0}, ip : {NoValue, NoColon} \cup Text]
    \cup [kind : {"range"}, no : Nat \ {0}, exists : BOOLEAN, lines : Seq(Line)]

ServerLines(c) == {e \in 1 .. Len(c) : c[e].kind = "server"}

ASSUME SlotAssumption ==
  MAX_IP_01 \in Nat \ {0} /\ MAX_VAS_SERVER_COUNT \in Nat /\ MaxReload \in Nat
\* -1 marks a free slot; a prefix is A * 256 + B.
ASSUME BadAssumption ==
  BadPrefix \notin Prefixes /\ BadSuffix \notin Suffixes /\ -1 \notin Prefixes
\* The servers fit into the arrays and VAS_SERVER_1 is the first of them.
ASSUME ConfigAssumption ==
  \A c \in Configs :
    /\ c \in Seq(ConfigLine)
    /\ Cardinality(ServerLines(c)) <= MAX_VAS_SERVER_COUNT
    /\ \A e \in ServerLines(c) : c[e].no = 1 \/ \E d \in ServerLines(c) : d < e /\ c[d].no = 1

VARIABLES
  g_vas_ip_01,     \* slot -> prefix, or -1
  g_vas_range,     \* slot -> suffix -> number of a VAS server, or -1
  nVasServerCount,
  szVasServerIp,   \* number of the server -> text; the last one is the EXTRA server
  usVasServerPortExtra, \* the EXTRA server has a port
  \* the thread that loads
  pc, config, todo, lines, slot,
  started,         \* the configuration has been loaded once
  nReload,
  \* the thread that looks up
  lpc, ask, i, vasno,
  \* history
  before,          \* the configuration that is being replaced
  seen             \* configurations that were in force during the present lookup

servers == <<nVasServerCount, szVasServerIp, usVasServerPortExtra>>
table  == <<g_vas_ip_01, g_vas_range, servers>>
loader == <<pc, config, todo, lines, slot, started, nReload, before>>
lookup == <<lpc, ask, i, vasno>>
vars   == <<table, loader, lookup, seen>>

Slots == 0 .. MAX_IP_01 - 1
Address == [prefix : Prefixes, suffix : Suffixes]
NoAddress == [prefix |-> BadPrefix, suffix |-> BadSuffix]

Init ==
  /\ g_vas_ip_01 = [s \in Slots |-> -1]
  /\ g_vas_range = [s \in Slots |-> [x \in Suffixes |-> -1]]
  /\ nVasServerCount = 0
  /\ szVasServerIp = [s \in 0 .. MAX_VAS_SERVER_COUNT |-> <<>>]
  /\ usVasServerPortExtra = FALSE
  /\ pc = "clearIp"
  /\ config \in Configs
  /\ todo = config
  /\ lines = <<>>
  /\ slot = 0
  /\ started = FALSE
  /\ nReload = 0
  /\ lpc = "idle"
  /\ ask = NoAddress
  /\ i = 0
  /\ vasno = -1
  /\ before = config
  /\ seen = {}

-----------------------------------------------------------------------------
(* LoadParameters *)

\* CMD_READ_CONFIG.  (A file that cannot be opened changes nothing.)
read_config(c) ==
  /\ pc = "idle"
  /\ nReload < MaxReload
  /\ nReload' = nReload + 1
  /\ pc' = "clearIp"
  /\ slot' = 0
  /\ config' = c
  /\ before' = config
  /\ todo' = c
  /\ seen' = IF lpc = "idle" THEN seen ELSE seen \cup {c}
  /\ UNCHANGED <<table, lines, started, lookup>>

\* memset(g_vas_ip_01, -1, ...)
clear_ip ==
  /\ pc = "clearIp"
  /\ g_vas_ip_01' = [g_vas_ip_01 EXCEPT ![slot] = -1]
  /\ slot' = (slot + 1) % MAX_IP_01
  /\ pc' = IF slot + 1 = MAX_IP_01 THEN "clearRange" ELSE pc
  /\ UNCHANGED <<g_vas_range, servers, config, todo, lines, started, nReload,
                 before, lookup, seen>>

\* Faulty variant: the numbers of the last configuration stay.
clear_range_none ==
  /\ pc = "clearRange"
  /\ slot' = (slot + 1) % MAX_IP_01
  /\ pc' = IF slot + 1 = MAX_IP_01 THEN "entries" ELSE pc
  /\ UNCHANGED <<table, config, todo, lines, started, nReload, before, lookup, seen>>

\* memset(g_vas_range, -1, ...)
clear_range ==
  /\ pc = "clearRange"
  /\ g_vas_range' = [g_vas_range EXCEPT ![slot] = [x \in Suffixes |-> -1]]
  /\ slot' = (slot + 1) % MAX_IP_01
  /\ pc' = IF slot + 1 = MAX_IP_01 THEN "entries" ELSE pc
  /\ UNCHANGED <<g_vas_ip_01, servers, config, todo, lines, started, nReload,
                 before, lookup, seen>>

\* The next line of the file is of this kind.
Entry(kind) == pc = "entries" /\ todo # <<>> /\ Head(todo).kind = kind

\* Faulty variant: the counter is not reset.
server_reset_none ==
  /\ Entry("server")
  /\ Head(todo).no = 1
  /\ pc' = "count"
  /\ UNCHANGED <<table, config, todo, lines, slot, started, nReload, before, lookup, seen>>

\* VAS_SERVER_1: cfg.nVasServerCount = 0; and on ...
server_reset ==
  /\ Entry("server")
  /\ Head(todo).no = 1
  /\ nVasServerCount' = 0
  /\ pc' = "count"
  /\ UNCHANGED <<g_vas_ip_01, g_vas_range, szVasServerIp, usVasServerPortExtra, config, todo, lines,
                 slot, started, nReload, before, lookup, seen>>

\* GetIpPort copies without a terminator: the rest of a longer text that was there
\* stays.
GetIpPort(text, old) == text \o SubSeq(old, Len(text) + 1, Len(old))

\* Faulty variant: the last group is not counted.
check_ip_dots(text) == Cardinality({k \in 1 .. Len(text) : text[k] = "."}) = 4

\* Four groups.
check_ip(text) == Cardinality({k \in 1 .. Len(text) : text[k] = "."}) + 1 = 4

\* VAS_SERVER_n or VAS_SERVER_EXTRA, with the index where its address is stored.
ServerLine(index) ==
  \/ /\ pc = "count" \/ (Entry("server") /\ Head(todo).no # 1)
     /\ index = nVasServerCount
  \/ Entry("extra") /\ index = MAX_VAS_SERVER_COUNT

\* A keyword without a value is passed over (VAS_SERVER_1 has reset the counter).
server_skip ==
  /\ \E index \in 0 .. MAX_VAS_SERVER_COUNT : ServerLine(index)
  /\ Head(todo).ip = NoValue
  /\ todo' = Tail(todo)
  /\ pc' = "entries"
  /\ UNCHANGED <<table, config, lines, slot, started, nReload, before, lookup, seen>>

\* ... to what is done for every VAS_SERVER_n: the address is stored and checked,
\* and cfg.nVasServerCount ++.  An address that is no address ends the process.
server_store ==
  \E index \in 0 .. MAX_VAS_SERVER_COUNT :
    LET text == GetIpPort(Head(todo).ip, szVasServerIp[index])
    IN  /\ ServerLine(index)
        /\ Head(todo).ip \notin {NoValue, NoColon}
        /\ szVasServerIp' = [szVasServerIp EXCEPT ![index] = text]
        /\ usVasServerPortExtra' = (usVasServerPortExtra \/ Entry("extra"))
        /\ \/ ~check_ip(text) /\ pc' = "exited" /\ UNCHANGED <<nVasServerCount, todo>>
           \/ /\ check_ip(text)
              /\ nVasServerCount' = IF Entry("extra") THEN nVasServerCount ELSE nVasServerCount + 1
              /\ todo' = Tail(todo)
              /\ pc' = "entries"
        /\ UNCHANGED <<g_vas_ip_01, g_vas_range, config, lines, slot, started, nReload, before,
                       lookup, seen>>

\* A value without a colon ends the process.
server_exit ==
  /\ \E index \in 0 .. MAX_VAS_SERVER_COUNT : ServerLine(index)
  /\ Head(todo).ip = NoColon
  /\ pc' = "exited"
  /\ UNCHANGED <<table, config, todo, lines, slot, started, nReload, before, lookup, seen>>

\* RANGE_FILE_n: a file that does not exist ends the process.
SetRange ==
  /\ Entry("range")
  /\ pc' = IF Head(todo).exists THEN "lines" ELSE "exited"
  /\ lines' = IF Head(todo).exists THEN Head(todo).lines ELSE <<>>
  /\ UNCHANGED <<table, config, todo, slot, started, nReload, before, lookup, seen>>

\* Slots that the prefix of the line could have: free ones and its own.
Candidates == {s \in Slots : g_vas_ip_01[s] \in {-1, Head(lines).prefix}}

\* The next line of the range file names a prefix that has or gets a slot.
Readable == lines # <<>> /\ Head(lines).prefix # BadPrefix /\ Candidates # {}

\* End of the file, a line that is no address, or no slot left: the rest of the
\* file is not read, and LoadParameters does not notice.
setRange_end ==
  /\ pc = "lines"
  /\ ~Readable
  /\ pc' = "entries"
  /\ todo' = Tail(todo)
  /\ lines' = <<>>
  /\ UNCHANGED <<table, config, slot, started, nReload, before, lookup, seen>>

\* The prefix gets the first slot that is free or its own.
setRange_slot ==
  /\ pc = "lines"
  /\ Readable
  /\ slot' = Min(Candidates)
  /\ g_vas_ip_01' = [g_vas_ip_01 EXCEPT ![Min(Candidates)] = Head(lines).prefix]
  /\ pc' = "put"
  /\ UNCHANGED <<g_vas_range, servers, config, todo, lines, started, nReload,
                 before, lookup, seen>>

\* Faulty variant: the first line of an address wins.
setRange_put_first ==
  /\ pc = "put"
  /\ Head(lines).suffix # BadSuffix
  /\ g_vas_range' = [g_vas_range EXCEPT ![slot][Head(lines).suffix] =
                       IF @ = -1 THEN Head(todo).no ELSE @]
  /\ lines' = Tail(lines)
  /\ pc' = "lines"
  /\ UNCHANGED <<g_vas_ip_01, servers, config, todo, slot, started, nReload,
                 before, lookup, seen>>

\* The last line of an address wins.
setRange_put ==
  /\ pc = "put"
  /\ Head(lines).suffix # BadSuffix
  /\ g_vas_range' = [g_vas_range EXCEPT ![slot][Head(lines).suffix] = Head(todo).no]
  /\ lines' = Tail(lines)
  /\ pc' = "lines"
  /\ UNCHANGED <<g_vas_ip_01, servers, config, todo, slot, started, nReload,
                 before, lookup, seen>>

\* C or D is no byte: the rest of the file is not read; the slot stays taken.
setRange_bad ==
  /\ pc = "put"
  /\ Head(lines).suffix = BadSuffix
  /\ pc' = "entries"
  /\ todo' = Tail(todo)
  /\ lines' = <<>>
  /\ UNCHANGED <<table, config, slot, started, nReload, before, lookup, seen>>

\* End of the file.
loaded ==
  /\ pc = "entries"
  /\ todo = <<>>
  /\ pc' = "idle"
  /\ started' = TRUE
  /\ UNCHANGED <<table, config, todo, lines, slot, nReload, before, lookup, seen>>

LoadParameters ==
  \/ clear_ip
  \/ clear_range
  \/ server_reset
  \/ server_skip
  \/ server_store
  \/ server_exit
  \/ SetRange
  \/ setRange_end
  \/ setRange_slot
  \/ setRange_put
  \/ setRange_bad
  \/ loaded

-----------------------------------------------------------------------------
(* GetVasNo *)

GetVasNo(a) ==
  /\ lpc = "idle"
  /\ started /\ pc # "exited"
  /\ lpc' = "scan"
  /\ ask' = a
  /\ i' = 0
  /\ vasno' = -1
  /\ seen' = IF pc = "idle" THEN {config} ELSE {config, before}
  /\ UNCHANGED <<table, loader>>

\* Compare one slot; after the last one the address is not found.
getVasNo_scan ==
  /\ lpc = "scan"
  /\ pc # "exited"
  /\ \/ g_vas_ip_01[i] = ask.prefix /\ lpc' = "read" /\ UNCHANGED i
     \/ g_vas_ip_01[i] # ask.prefix /\ i + 1 < MAX_IP_01 /\ i' = i + 1 /\ UNCHANGED lpc
     \/ g_vas_ip_01[i] # ask.prefix /\ i + 1 = MAX_IP_01 /\ lpc' = "done" /\ UNCHANGED i
  /\ UNCHANGED <<table, loader, ask, vasno, seen>>

getVasNo_read ==
  /\ lpc = "read"
  /\ pc # "exited"
  /\ vasno' = g_vas_range[i][ask.suffix]
  /\ lpc' = "done"
  /\ UNCHANGED <<table, loader, ask, i, seen>>

\* The caller is done with the number; nothing of the lookup is left.
getVasNo_forget ==
  /\ lpc = "done"
  /\ lpc' = "idle"
  /\ ask' = NoAddress
  /\ i' = 0
  /\ vasno' = -1
  /\ seen' = {}
  /\ UNCHANGED <<table, loader>>

Next ==
  \/ \E c \in Configs : read_config(c)
  \/ LoadParameters
  \/ \E a \in Address : GetVasNo(a)
  \/ getVasNo_scan
  \/ getVasNo_read
  \/ getVasNo_forget

Spec == Init /\ [][Next]_vars

-----------------------------------------------------------------------------
(* What a configuration means *)

\* Positions of the addresses in a configuration: line of the configuration file
\* and line of the range file.
Positions(c) ==
  UNION {{<<e, l>> : l \in 1 .. Len(c[e].lines)} : e \in {k \in 1 .. Len(c) : c[k].kind = "range"}}

At(c, p) == c[p[1]].lines[p[2]]
Before(p, q) == p[1] < q[1] \/ (p[1] = q[1] /\ p[2] < q[2])
Good(c, p) == At(c, p).prefix # BadPrefix /\ At(c, p).suffix # BadSuffix

\* Positions that are read: no faulty line comes before them in their range file.
Reached(c) ==
  {p \in Positions(c) : /\ At(c, p).prefix # BadPrefix
                        /\ \A l \in 1 .. p[2] - 1 : Good(c, <<p[1], l>>)}

PrefixesOf(c) == {At(c, p).prefix : p \in Reached(c)}

\* Prefixes that appear before prefix x does: the number of its slot.
Rank(c, x) ==
  Cardinality({y \in PrefixesOf(c) \ {x} :
    \E p \in Reached(c) : /\ At(c, p).prefix = y
                          /\ \A q \in Reached(c) : At(c, q).prefix = x => Before(p, q)})

\* All numbers that the configuration gives to an address, and the last of them.
Numbers(c, a) == {c[p[1]].no : p \in {q \in Positions(c) : At(c, q) = a}}

Assigned(c, a) ==
  LET P == {p \in Reached(c) : At(c, p) = a}
  IN  IF P = {} THEN -1
      ELSE c[(CHOOSE p \in P : \A q \in P : q = p \/ Before(q, p))[1]].no

Servers(c) == Cardinality({e \in ServerLines(c) : c[e].ip # NoValue})

-----------------------------------------------------------------------------
(* Properties *)

\* The types of all variables.
TypeOK ==
  /\ g_vas_ip_01 \in [Slots -> Prefixes \cup {-1}]
  /\ g_vas_range \in [Slots -> [Suffixes -> Nat \cup {-1}]]
  /\ nVasServerCount \in Nat
  /\ szVasServerIp \in [0 .. MAX_VAS_SERVER_COUNT -> Text]
  /\ usVasServerPortExtra \in BOOLEAN
  /\ pc \in {"idle", "clearIp", "clearRange", "entries", "count", "lines", "put", "exited"}
  /\ config \in Configs
  /\ Len(todo) <= Len(config)
  /\ lines \in Seq(Line)
  /\ slot \in Slots
  /\ started \in BOOLEAN
  /\ nReload \in 0 .. MaxReload
  /\ lpc \in {"idle", "scan", "read", "done"}
  /\ ask \in Address \cup {NoAddress}
  /\ i \in Slots
  /\ vasno \in Nat \cup {-1}
  /\ before \in Configs
  /\ seen \in SUBSET Configs

\* The number that GetVasNo finds when nothing interferes.
Found(a) ==
  LET S == {s \in Slots : g_vas_ip_01[s] = a.prefix}
  IN  IF S = {} THEN -1 ELSE g_vas_range[Min(S)][a.suffix]

\* When it has been loaded, the table says of every address what the last of its
\* lines says, whatever was loaded before.  If the prefixes do not fit, an
\* address may be missing, but no number is made up.
TableMatchesFiles ==
  pc = "idle" =>
    \A a \in Address :
      IF Cardinality(PrefixesOf(config)) <= MAX_IP_01
        THEN Found(a) = Assigned(config, a)
        ELSE Found(a) \in Numbers(config, a) \cup {-1}

\* No configuration in cs puts another prefix into the slot of prefix x.
SlotKept(cs, x) ==
  \A c \in cs, d \in cs : x \in PrefixesOf(c) =>
    \A y \in PrefixesOf(d) \ {x} : Rank(c, x) # Rank(d, y)

\* A lookup that overlaps reloads returns a number that one of the configurations
\* gives to the very address, or none, so that the event is discarded.  This
\* relies on the prefixes keeping their slots: a lookup that has found its slot
\* and is overtaken by a reload that puts another prefix there gets the number
\* of another address, and the event goes to the wrong VAS server.
NoMisroute ==
  lpc = "done" /\ SlotKept(seen, ask.prefix) =>
    vasno \in (UNION {Numbers(c, ask) : c \in seen}) \cup {-1}
=============================================================================
