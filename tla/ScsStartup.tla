----------------------------- MODULE ScsStartup -----------------------------
(***************************************************************************)
(* Start-up of the gateway (src/src/main.cpp), composed with the loading of *)
(* the configuration (VasConfig).  main starts the administration server    *)
(* before anything else, then the PFS threads, then the CTI threads, and    *)
(* creates the VAS handlers last, one for each of cfg.nVasServerCount, a    *)
(* counter that the administration server resets and counts up again when   *)
(* it is told to read the configuration.  Threads that run already reach    *)
(* for the handlers through the arrays g_vasIfHandler and g_vasExtra,       *)
(* whether they have been created or not.                                   *)
(*                                                                         *)
(* These threads only read what main and the administration server write,   *)
(* so the behaviours of one of them at a time show what any of them meets.  *)
(* A use of a handler that does not exist, or of a queue that has not been  *)
(* created, is undefined; the model records the first one and stops.        *)
(***************************************************************************)
EXTENDS VasConfig

CONSTANT None

VARIABLES
  mpc,             \* main
  m,               \* its loop index i
  g_vasIfHandler,  \* number -> "none", "bare" (no queue yet) or "ready"
  g_vasExtra,      \* the same for the EXTRA handler
  ppc, p,          \* a PFS thread that announces a PFS change, and its index
  \* history
  fault,           \* the first use of a handler that was not there
  loads,           \* configurations loaded so far
  overlap          \* main has looked at the counter while it was being reloaded

mainVars == <<mpc, m, g_vasIfHandler, g_vasExtra, ppc, p>>
startVars == <<vars, mainVars, fault, loads, overlap>>

Handlers == 0 .. MAX_VAS_SERVER_COUNT - 1

StartInit ==
  /\ Init
  /\ mpc = "load"
  /\ m = 0
  /\ g_vasIfHandler = [h \in Handlers |-> "none"]
  /\ g_vasExtra = "none"
  /\ ppc = "idle"
  /\ p = 0
  /\ fault = None
  /\ loads = {config}
  /\ overlap = FALSE

\* What main has started.
AdminRuns == mpc \notin {"load", "admin"}
PfsRuns == AdminRuns /\ mpc \notin {"mode", "pfs"}
CtiRuns == PfsRuns /\ mpc # "cti"

-----------------------------------------------------------------------------
(* main *)

\* main goes from one point to the next.
Go(from, to) == mpc = from /\ mpc' = to

\* LoadParameters has returned, and the log is ready.
main_loaded ==
  /\ started
  /\ Go("load", "admin")
  /\ UNCHANGED <<vars, m, g_vasIfHandler, g_vasExtra, ppc, p, fault, loads, overlap>>

\* There is no prefix for call keys in the configuration: main returns.
main_return ==
  /\ started
  /\ Go("load", "exit")
  /\ UNCHANGED <<vars, m, g_vasIfHandler, g_vasExtra, ppc, p, fault, loads, overlap>>

\* The administration server, and in active mode the keep-alive server, cannot
\* be created: main goes to EXIT and destroys the queues of handlers that do not
\* exist.
main_exit ==
  /\ mpc \in {"admin", "mode"}
  /\ mpc' = "exit"
  /\ fault' = IF nVasServerCount > 0 THEN [by |-> "main", no |-> 0, at |-> mpc] ELSE None
  /\ UNCHANGED <<vars, m, g_vasIfHandler, g_vasExtra, ppc, p, loads, overlap>>

\* Steps that start threads: the administration server; whatever the mode asks
\* for, in backup mode until the active gateway is given up (KeepAlive); the PFS
\* threads; the CTI threads.
main_start ==
  /\ \/ Go("admin", "mode")
     \/ Go("mode", "pfs")
     \/ Go("pfs", "cti")
     \/ Go("cti", "vas")
  /\ UNCHANGED <<vars, m, g_vasIfHandler, g_vasExtra, ppc, p, fault, loads, overlap>>

\* Faulty variant: one handler too few.
main_vas_short ==
  /\ mpc = "vas"
  /\ mpc' = IF m + 1 < nVasServerCount THEN "new" ELSE "extra"
  /\ overlap' = (overlap \/ pc # "idle")
  /\ UNCHANGED <<vars, m, g_vasIfHandler, g_vasExtra, ppc, p, fault, loads>>

\* for(i = 0; i < cfg.nVasServerCount; i ++)
main_vas ==
  /\ mpc = "vas"
  /\ mpc' = IF m < nVasServerCount THEN "new" ELSE "extra"
  /\ overlap' = (overlap \/ pc # "idle")
  /\ UNCHANGED <<vars, m, g_vasIfHandler, g_vasExtra, ppc, p, fault, loads>>

\* g_vasIfHandler[i] = new CVasIfHandler
main_new ==
  /\ Go("new", "queue")
  /\ g_vasIfHandler' = [g_vasIfHandler EXCEPT ![m] = "bare"]
  /\ UNCHANGED <<vars, m, g_vasExtra, ppc, p, fault, loads, overlap>>

\* CreateQueueInterface, SetVasServerInfo and Start
main_queue ==
  /\ Go("queue", "vas")
  /\ g_vasIfHandler' = [g_vasIfHandler EXCEPT ![m] = "ready"]
  /\ m' = m + 1
  /\ UNCHANGED <<vars, g_vasExtra, ppc, p, fault, loads, overlap>>

\* g_vasExtra = new CVasExtra
main_extra ==
  /\ Go("extra", "extraQueue")
  /\ g_vasExtra' = "bare"
  /\ UNCHANGED <<vars, m, g_vasIfHandler, ppc, p, fault, loads, overlap>>

\* Its queue and its thread, if the EXTRA server has a port.
main_extraQueue ==
  /\ Go("extraQueue", "run")
  /\ g_vasExtra' = IF usVasServerPortExtra THEN "ready" ELSE g_vasExtra
  /\ UNCHANGED <<vars, m, g_vasIfHandler, ppc, p, fault, loads, overlap>>

main ==
  \/ main_loaded
  \/ main_return
  \/ main_exit
  \/ main_start
  \/ main_vas
  \/ main_new
  \/ main_queue
  \/ main_extra
  \/ main_extraQueue

-----------------------------------------------------------------------------
(* The threads that use the handlers *)

\* A thread uses a handler that is in the given state; no is 0 for EXTRA.
Use(by, no, state, enough) ==
  fault' = IF state \in enough THEN None ELSE [by |-> by, no |-> no, at |-> mpc]

\* A CTI thread hands an event to the handler that GetVasNo has named, if any.
cti_send ==
  /\ getVasNo_forget
  /\ \/ vasno = -1 /\ UNCHANGED fault
     \/ vasno # -1 /\ Use("cti", vasno, g_vasIfHandler[vasno - 1], {"ready"})
  /\ UNCHANGED <<mainVars, loads, overlap>>

\* The thread of a VAS handler hands an event over to the EXTRA handler.
vas_send ==
  /\ \E h \in Handlers : g_vasIfHandler[h] = "ready"
  /\ Use("vas", 0, g_vasExtra, {"ready"})
  /\ UNCHANGED <<vars, mainVars, loads, overlap>>

\* A PFS server is lost for good.
pfs_lost ==
  /\ PfsRuns
  /\ ppc = "idle" /\ lpc = "idle"
  /\ ppc' = "loop"
  /\ p' = 0
  /\ UNCHANGED <<vars, mpc, m, g_vasIfHandler, g_vasExtra, fault, loads, overlap>>

\* for(i = 0; i < cfg.nVasServerCount; i ++) g_vasIfHandler[i]->PfsChange(...)
pfs_loop ==
  /\ ppc = "loop"
  /\ \/ /\ p < nVasServerCount
        /\ Use("pfs", p + 1, g_vasIfHandler[p], {"ready"})
        /\ p' = p + 1
        /\ UNCHANGED ppc
     \/ /\ p >= nVasServerCount
        /\ ppc' = "extra"
        /\ UNCHANGED <<p, fault>>
  /\ UNCHANGED <<vars, mpc, m, g_vasIfHandler, g_vasExtra, loads, overlap>>

\* g_vasExtra->PfsChange(...)
pfs_extra ==
  /\ ppc = "extra"
  /\ Use("pfs", 0, g_vasExtra, {"ready"})
  /\ ppc' = "idle"
  /\ p' = 0
  /\ UNCHANGED <<vars, mpc, m, g_vasIfHandler, g_vasExtra, loads, overlap>>

\* CMD_SWITCH_BACK: g_vasIfHandler[vasno - '1']->SetVasChangeBack(1).  It does
\* not need the queue.
switch_back(no) ==
  /\ AdminRuns
  /\ pc = "idle"
  /\ Use("admin", no, g_vasIfHandler[no - 1], {"bare", "ready"})
  /\ UNCHANGED <<vars, mainVars, loads, overlap>>

\* The administration server reads the configuration, and the CTI threads look
\* addresses up, when they run.
admin_reload(c) ==
  /\ AdminRuns
  /\ read_config(c)
  /\ loads' = loads \cup {c}
  /\ UNCHANGED <<mainVars, fault, overlap>>

cti_lookup ==
  /\ CtiRuns
  /\ ppc = "idle"
  /\ (\E a \in Address : GetVasNo(a)) \/ getVasNo_scan \/ getVasNo_read
  /\ UNCHANGED <<mainVars, fault, loads, overlap>>

load == LoadParameters /\ UNCHANGED <<mainVars, fault, loads, overlap>>

StartNext ==
  /\ fault = None /\ pc # "exited" /\ mpc # "exit"
  /\ \/ main
     \/ load
     \/ \E c \in Configs : admin_reload(c)
     \/ cti_lookup
     \/ cti_send
     \/ vas_send
     \/ pfs_lost
     \/ pfs_loop
     \/ pfs_extra
     \/ \E no \in 1 .. MAX_VAS_SERVER_COUNT : switch_back(no)

StartSpec == StartInit /\ [][StartNext]_startVars

-----------------------------------------------------------------------------
(* Properties *)

\* The configurations agree on the number of servers, name VAS_SERVER_1 once (it
\* resets the counter) and an EXTRA server, and give addresses only to servers that
\* they name.
Regular(cs) ==
  \A c \in cs, d \in cs :
    /\ Servers(c) = Servers(d)
    /\ \A e, f \in ServerLines(c) : c[e].no = 1 /\ c[f].no = 1 => e = f
    /\ \A e \in 1 .. Len(c) : c[e].kind = "range" => c[e].no <= Servers(c)
    /\ \E e \in 1 .. Len(c) : c[e].kind = "extra" /\ c[e].ip # NoValue

\* Once main has finished, no thread reaches for a handler that is not there,
\* however often the configuration is reloaded and its counter goes down to 0 and
\* up again: if the configurations are regular, if main did not create the
\* handlers during a reload, and if the administrator names a server that exists.
NoMissingHandler ==
  fault # None /\ fault.at = "run" =>
    \/ ~Regular(loads)
    \/ overlap
    \/ fault.by = "admin" /\ \A c \in loads : fault.no > Servers(c)

IsAddress(t) == Cardinality({k \in 1 .. Len(t) : t[k] = "."}) = 3

\* The lines of VAS servers and range files end the gateway only for a reason: a
\* range file that does not exist, a value that is no address, or an address that is
\* shorter than one that has been loaded before, of which a rest remains.  (The
\* lines of CTI and PFS servers and of the mate, which are not modelled, can end it
\* as well.)
ExitNeedsReason ==
  pc = "exited" =>
    LET e == Head(todo)
    IN  \/ e.kind = "range" /\ ~e.exists
        \/ e.kind # "range" /\ (e.ip = NoColon \/ ~IsAddress(e.ip))
        \/ /\ e.kind # "range"
           /\ \E c \in loads : \E k \in 1 .. Len(c) :
                /\ c[k].kind = e.kind
                /\ c[k].ip \notin {NoValue, NoColon}
                /\ Len(c[k].ip) > Len(e.ip)
=============================================================================
