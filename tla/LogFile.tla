------------------------------- MODULE LogFile ------------------------------
(***************************************************************************)
(* The log (src/src/log.cpp) that all threads write, and the signal         *)
(* handlers of main (src/src/main.cpp), which write a last line and end the *)
(* process.  One mutex guards the log.  A line goes into a file named after *)
(* its month and day and a number, in a directory named after its year and  *)
(* month; the names are made anew only when year, month or day differ from  *)
(* those of the line before.  A file that has grown over a limit is left    *)
(* for the one with the next number.                                        *)
(*                                                                         *)
(* The calendar is scaled down, with months of equal length, and the size   *)
(* of a file is its number of lines.  One signal at a time is followed, and *)
(* g_LogMutex is the only lock it can meet: a second signal, and the locks  *)
(* inside malloc and stdio that a handler may also need, are left out.      *)
(***************************************************************************)
EXTENDS Naturals

CONSTANTS LogThreads, NoThread,
          DaysInMonth, MonthsInYear,
          LogLimit,     \* size beyond which a file is full: 50 MB in the code
          MaxDate,      \* bound on the days that pass
          MaxLines,     \* bound on the lines written
          MaxBoot       \* bound on restarts

ASSUME LogAssumption ==
  /\ NoThread \notin LogThreads /\ LogLimit \in Nat
  /\ DaysInMonth \in Nat \ {0} /\ MonthsInYear \in Nat \ {0, 1}
  /\ MaxDate \in Nat /\ MaxLines \in Nat /\ MaxBoot \in Nat

VARIABLES
  today,              \* days since the beginning of some year
  g_LogMutex,         \* thread that holds it, or NoThread
  logKind,            \* what that thread does: "LogPrintf", "LogTCP" or "LogErrorPrintf"
  logDate,            \* the date that it has read
  curyear, curmon, curday,
  g_szLogFilenameDir, g_szLogFilename, g_filecount,
  logFiles,           \* files that exist, with their sizes
  nLines, nBoot,
  signalled,          \* thread in which a signal handler runs, or NoThread
  logExited,          \* the process has ended
  \* history
  lastLine,           \* the last line written: its date, its file, the size before it
  quiet,              \* days since the names were last looked at
  longQuiet           \* that was a month or more, once since the process began

logNames == <<curyear, curmon, curday, g_szLogFilenameDir, g_szLogFilename, g_filecount>>
logVars == <<today, g_LogMutex, logKind, logDate, logNames, logFiles, nLines, nBoot, signalled,
             logExited, lastLine, quiet, longQuiet>>

Year(d) == d \div (DaysInMonth * MonthsInYear) + 1
Month(d) == ((d \div DaysInMonth) % MonthsInYear) + 1
DayOf(d) == (d % DaysInMonth) + 1

NoLine == [date |-> 0, file |-> <<>>, before |-> 0, kind |-> "none"]

\* What a process begins with.
LogFresh ==
  /\ g_LogMutex' = NoThread
  /\ logKind' = "none" /\ logDate' = 0
  /\ curyear' = 0 /\ curmon' = 0 /\ curday' = 0
  /\ g_szLogFilenameDir' = <<>> /\ g_szLogFilename' = <<>> /\ g_filecount' = 0
  /\ signalled' = NoThread
  /\ lastLine' = NoLine /\ quiet' = 0 /\ longQuiet' = FALSE

LogInit ==
  /\ today = 0
  /\ g_LogMutex = NoThread
  /\ logKind = "none" /\ logDate = 0
  /\ curyear = 0 /\ curmon = 0 /\ curday = 0
  /\ g_szLogFilenameDir = <<>> /\ g_szLogFilename = <<>> /\ g_filecount = 0
  /\ logFiles = <<>>
  /\ nLines = 0 /\ nBoot = 0
  /\ signalled = NoThread
  /\ logExited = FALSE
  /\ lastLine = NoLine
  /\ quiet = 0 /\ longQuiet = FALSE

-----------------------------------------------------------------------------
(* LogPrintf, LogTCP and LogErrorPrintf *)

\* Directory, month, day and number make the name of a file.
Filename(dir, d, n) == <<dir, Month(d), DayOf(d), n>>

\* Faulty variant: the directory follows the year only.
get_log_filename_year(d) ==
  LET dir == IF curyear # Year(d) THEN <<Year(d), Month(d)>> ELSE g_szLogFilenameDir
  IN  /\ g_szLogFilenameDir' = dir
      /\ curyear' = Year(d) /\ curmon' = Month(d) /\ curday' = DayOf(d)
      /\ g_filecount' = IF curday # DayOf(d) THEN 0 ELSE g_filecount
      /\ g_szLogFilename' = IF curday # DayOf(d) THEN Filename(dir, d, 0) ELSE g_szLogFilename

\* A new year: its directory; a new month: the directory in it; a new day: a file.
get_log_filename(d) ==
  LET dir == IF curmon # Month(d) THEN <<Year(d), Month(d)>>
             ELSE IF curyear # Year(d) THEN <<Year(d)>> ELSE g_szLogFilenameDir
  IN  /\ g_szLogFilenameDir' = dir
      /\ curyear' = Year(d) /\ curmon' = Month(d) /\ curday' = DayOf(d)
      /\ g_filecount' = IF curday # DayOf(d) THEN 0 ELSE g_filecount
      /\ g_szLogFilename' = IF curday # DayOf(d) THEN Filename(dir, d, 0) ELSE g_szLogFilename

\* Lock, read the clock, and look at the names.  A thread that is interrupted by a
\* signal does not go on.
log_lock(t, kind) ==
  /\ signalled # t
  /\ g_LogMutex = NoThread
  /\ nLines < MaxLines
  /\ nLines' = nLines + 1
  /\ g_LogMutex' = t
  /\ logKind' = kind
  /\ logDate' = today
  /\ get_log_filename(today)
  /\ longQuiet' = (longQuiet \/ quiet >= DaysInMonth)
  /\ quiet' = 0
  /\ UNCHANGED <<today, logFiles, nBoot, signalled, logExited, lastLine>>

\* LogErrorPrintf has a file of its own, whose name is always made anew.
log_lockError(t) ==
  /\ signalled # t
  /\ g_LogMutex = NoThread
  /\ nLines < MaxLines
  /\ nLines' = nLines + 1
  /\ g_LogMutex' = t
  /\ logKind' = "LogErrorPrintf"
  /\ logDate' = today
  /\ UNCHANGED <<today, logNames, logFiles, nBoot, signalled, logExited, lastLine, quiet, longQuiet>>

\* The thread that holds the mutex goes on.
Holder == g_LogMutex # NoThread /\ signalled # g_LogMutex

SizeOf(f) == IF f \in DOMAIN logFiles THEN logFiles[f] ELSE 0

\* The file is full: close it, take the next number, and try again.
log_rotate ==
  /\ Holder
  /\ logKind = "LogPrintf"
  /\ SizeOf(g_szLogFilename) > LogLimit
  /\ g_filecount' = g_filecount + 1
  /\ g_szLogFilename' = Filename(g_szLogFilenameDir, logDate, g_filecount + 1)
  /\ UNCHANGED <<today, g_LogMutex, logKind, logDate, curyear, curmon, curday, g_szLogFilenameDir,
                 logFiles, nLines, nBoot, signalled, logExited, lastLine, quiet, longQuiet>>

\* Append the line and unlock.  LogTCP does not look at the size.
log_write ==
  /\ Holder
  /\ \/ logKind = "LogTCP"
     \/ logKind = "LogPrintf" /\ SizeOf(g_szLogFilename) <= LogLimit
  /\ logFiles' = [f \in DOMAIN logFiles \cup {g_szLogFilename} |->
                    IF f = g_szLogFilename THEN SizeOf(f) + 1 ELSE logFiles[f]]
  /\ lastLine' = [date |-> logDate, file |-> g_szLogFilename, before |-> SizeOf(g_szLogFilename),
                  kind |-> logKind]
  /\ g_LogMutex' = NoThread
  /\ UNCHANGED <<today, logKind, logDate, logNames, nLines, nBoot, signalled, logExited, quiet,
                 longQuiet>>

\* Faulty variant: the mutex is kept.
log_skip_locked ==
  /\ Holder
  /\ logKind' = "none"
  /\ UNCHANGED <<today, g_LogMutex, logDate, logNames, logFiles, nLines, nBoot, signalled, logExited,
                 lastLine, quiet, longQuiet>>

\* The file cannot be opened, or the kind of the line is masked, or it is a line of
\* LogErrorPrintf.
log_skip ==
  /\ Holder
  /\ g_LogMutex' = NoThread
  /\ UNCHANGED <<today, logKind, logDate, logNames, logFiles, nLines, nBoot, signalled, logExited,
                 lastLine, quiet, longQuiet>>

-----------------------------------------------------------------------------
(* Signals and restarts *)

\* SIGINT or SIGTERM interrupts a thread, whatever it is doing.  (No further signal
\* comes while its handler runs.)
signal_caught(t) ==
  /\ signalled = NoThread
  /\ signalled' = t
  /\ UNCHANGED <<today, g_LogMutex, logKind, logDate, logNames, logFiles, nLines, nBoot, logExited,
                 lastLine, quiet, longQuiet>>

\* int_handler or term_handler: its LogPrintf needs the mutex; then exit(1).
signal_exit ==
  /\ signalled # NoThread
  /\ g_LogMutex = NoThread
  /\ logExited' = TRUE
  /\ UNCHANGED <<today, g_LogMutex, logKind, logDate, logNames, logFiles, nLines, nBoot, signalled,
                 lastLine, quiet, longQuiet>>

\* The process ends for another reason.
log_crash ==
  /\ logExited' = TRUE
  /\ UNCHANGED <<today, g_LogMutex, logKind, logDate, logNames, logFiles, nLines, nBoot, signalled,
                 lastLine, quiet, longQuiet>>

\* The gateway is started again.  The files are still there.
log_boot ==
  /\ logExited
  /\ nBoot < MaxBoot
  /\ nBoot' = nBoot + 1
  /\ logExited' = FALSE
  /\ LogFresh
  /\ UNCHANGED <<today, logFiles, nLines>>

log_day ==
  /\ today < MaxDate
  /\ today' = today + 1
  /\ quiet' = quiet + 1
  /\ UNCHANGED <<g_LogMutex, logKind, logDate, logNames, logFiles, nLines, nBoot, signalled,
                 logExited, lastLine, longQuiet>>

\* What the thread that holds the mutex does; LogTCP only writes or passes over.
LogStep == log_rotate \/ log_write \/ log_skip

LogNext ==
  \/ /\ ~logExited
     /\ \/ \E t \in LogThreads, kind \in {"LogPrintf", "LogTCP"} : log_lock(t, kind)
        \/ \E t \in LogThreads : log_lockError(t)
        \/ LogStep
        \/ \E t \in LogThreads : signal_caught(t)
        \/ signal_exit
        \/ log_crash
  \/ log_boot
  \/ log_day

\* A thread that holds the mutex is scheduled, and one that waits for it gets it
\* when it is free again and again.
LogFairness == WF_logVars(~logExited /\ LogStep) /\ SF_logVars(~logExited /\ signal_exit)

LogSpec == LogInit /\ [][LogNext]_logVars /\ LogFairness

-----------------------------------------------------------------------------
(* Properties *)

\* A line is found where its date says: in the directory of its year and month, in
\* a file of its day, and not in a file that was full, across midnights, ends of
\* months and years, rotations and restarts; unless nothing was logged for a month.
LineInPlace ==
  lastLine # NoLine /\ ~longQuiet =>
    /\ \E n \in 0 .. nLines :
         lastLine.file = Filename(<<Year(lastLine.date), Month(lastLine.date)>>, lastLine.date, n)
    /\ lastLine.kind = "LogPrintf" => lastLine.before <= LogLimit

\* As far as the log's mutex goes, a signal ends the gateway, unless it has
\* interrupted the very thread that is writing the log: its handler then waits for a
\* mutex that its own thread holds.
SignalEnds == (signalled # NoThread) ~> (logExited \/ g_LogMutex = signalled)
=============================================================================
