------------------------------ MODULE Service ------------------------------
(***************************************************************************)
(* rtdbd as a service: the supervisor, the workers it starts one after the *)
(* other, the operator's signals, and other processes that use the same    *)
(* segment (module Segment).  A worker runs main from its fork to its exit *)
(* code; what it does while it serves is in module NotifyDaemon.           *)
(***************************************************************************)
EXTENDS Segment

CONSTANTS
  MaxApps,                \* bound: other processes at a time, unreaped ones included
  MaxDeaths, MaxFaults    \* bounds: processes killed, orderly but unwelcome ends

ASSUME ServiceValues == {MaxApps, MaxDeaths, MaxFaults} \subseteq Nat

VARIABLES
  sup,        \* where supervise_loop is
  cur,        \* cur: the worker not yet reaped
  stop,       \* g_stop of the supervisor
  exit,       \* what supervise_loop returned
  work,       \* main of each worker: its step, its g_stop, its exit code
  pidfile, socket,        \* the process they name
  unnamed,    \* history: the pid file could not be opened for this worker
  home,       \* history: the segment served last, until an owner's orderly close
  deaths, faults

supervisor == <<sup, cur, stop, exit, pidfile, unnamed>>
bounds == <<deaths, faults>>
vars == <<segmentVars, supervisor, work, socket, home, bounds>>

NoWork == [step |-> "none", stop |-> FALSE, code |-> "none"]
WorkSteps == {"none", "fork", "exec", "config", "open", "load", "bind", "serve", "blocked",
              "drain", "close", "dead"}
Codes == {"none", "signal", "ok", "error", "config", "shm", "selfcheck"}
Fatal == {"config", "selfcheck"}

Worker(p) == work[p].step # "none"
Running(p) == work[p].step \notin {"none", "dead"}
Others == {p \in Pids : Exists(p) /\ ~ Worker(p)}
Apps == {p \in Others : Alive(p)}

Init ==
  /\ SegmentInit
  /\ sup = "top" /\ cur = None /\ stop = FALSE /\ exit = "none"
  /\ work = [p \in Pids |-> NoWork]
  /\ pidfile = None /\ unnamed = FALSE /\ socket = None /\ home = None /\ deaths = 0 /\ faults = 0

-----------------------------------------------------------------------------
(* supervise_loop. *)

(* The end of the loop; a fatal code takes the socket away too. *)
MutEndLoop(code) ==                \* a fatal code leaves the socket
  sup' = "ended" /\ exit' = code /\ pidfile' = None /\ unnamed' = FALSE /\ UNCHANGED socket
EndLoop(code) ==
  /\ sup' = "ended" /\ exit' = code /\ pidfile' = None /\ unnamed' = FALSE
  /\ socket' = IF code \in Fatal THEN None ELSE socket

(* SIGTERM sets g_stop of a worker; between fork and execv it is lost, and   *)
(* before the handlers are set it kills.                                     *)
Told(p) == [work EXCEPT ![p].stop = TRUE]
Dead(p, code) == [work EXCEPT ![p] = [step |-> "dead", stop |-> work[p].stop, code |-> code]]
Killed(p) == Dead(p, "signal")
SendTerm(p) ==
  \/ work[p].step \in {"fork", "dead"} /\ UNCHANGED <<segmentVars, work>>
  \/ work[p].step = "exec" /\ Exit(p) /\ work' = Killed(p)
  \/ Running(p) /\ work[p].step \notin {"fork", "exec"} /\ work' = Told(p) /\ UNCHANGED segmentVars

(* Top of the loop: stop, or fork.  A fork that fails is tried again. *)
StopAtTop ==
  /\ sup = "top" /\ stop
  /\ IF cur = None THEN EndLoop("ok") /\ UNCHANGED <<segmentVars, work>>
     ELSE sup' = "term" /\ SendTerm(cur) /\ UNCHANGED <<exit, pidfile, unnamed, socket>>
  /\ UNCHANGED <<cur, stop, home, bounds>>

Fork ==
  /\ sup = "top" /\ ~ stop
  /\ \E p \in Pids :
       /\ procs[p] = Gone
       /\ procs' = [procs EXCEPT ![p] = Idle]
       /\ work' = [work EXCEPT ![p] = [NoWork EXCEPT !.step = "fork"]]
       /\ cur' = p
  /\ sup' = "forked"
  /\ UNCHANGED <<file, segs, rash, stop, exit, pidfile, unnamed, socket, home, bounds>>

(* A pid file that cannot be opened stays as it is. *)
MutNamesWorker == pidfile' = IF pidfile = None THEN cur ELSE pidfile   \* an old one is kept
NamesWorker == pidfile' = cur
WritePidfile ==
  /\ sup = "forked" /\ sup' = "enter"
  /\ \/ NamesWorker /\ unnamed' = FALSE /\ UNCHANGED faults
     \/ /\ faults < MaxFaults /\ faults' = faults + 1
        /\ unnamed' = TRUE /\ UNCHANGED pidfile
  /\ UNCHANGED <<segmentVars, cur, stop, exit, work, socket, home, deaths>>

(* waitpid begins: a signal that came before it does not end it. *)
EnterWait ==
  /\ sup = "enter" /\ sup' = "wait"
  /\ UNCHANGED <<segmentVars, cur, stop, exit, pidfile, unnamed, work, socket, home, bounds>>

(* What waitpid takes away of the process. *)
Reaped(p) == /\ Reap(p) /\ work' = [work EXCEPT ![p] = NoWork] /\ cur' = None

(* After waitpid: stop, give up, or come round again. *)
MutAfterWait(code) ==              \* a segment that is refused is fatal
  IF stop THEN EndLoop("ok")
  ELSE IF code \in Fatal \cup {"shm"} THEN EndLoop(code)
  ELSE sup' = "top" /\ unnamed' = FALSE /\ UNCHANGED <<exit, pidfile, socket>>
AfterWait(code) ==
  IF stop THEN EndLoop("ok")
  ELSE IF code \in Fatal THEN EndLoop(code)
  ELSE sup' = "top" /\ unnamed' = FALSE /\ UNCHANGED <<exit, pidfile, socket>>
WaitReturns ==
  /\ sup = "wait" /\ Reaped(cur) /\ AfterWait(work[cur].code)
  /\ UNCHANGED <<stop, home, bounds>>

(* SIGTERM (or SIGINT) to the supervisor sets g_stop; any signal ends a      *)
(* waitpid that has begun, and if g_stop is set by then the worker is told   *)
(* to end.                                                                   *)
MutInterrupted(s) ==               \* round the outer loop
  IF sup = "wait" THEN sup' = "top" /\ UNCHANGED <<segmentVars, work>>
  ELSE UNCHANGED <<sup, segmentVars, work>>
Interrupted(s) ==
  IF sup = "wait" /\ s THEN sup' = "term" /\ SendTerm(cur)
  ELSE UNCHANGED <<sup, segmentVars, work>>
StopService ==
  /\ sup # "ended" /\ (~ stop \/ sup = "wait")
  /\ stop' = TRUE /\ Interrupted(TRUE)
  /\ UNCHANGED <<cur, exit, pidfile, unnamed, socket, home, bounds>>
DumpStats ==                       \* SIGUSR1
  /\ sup = "wait" /\ stop /\ Interrupted(stop)
  /\ UNCHANGED <<cur, stop, exit, pidfile, unnamed, socket, home, bounds>>

(* terminate_and_reap: half a second for an orderly end, then SIGKILL. *)
TermReaps ==
  /\ sup \in {"term", "kill"} /\ Reaped(cur) /\ EndLoop("ok")
  /\ UNCHANGED <<stop, home, bounds>>
MutTermKills ==                    \* waits on for an orderly end
  /\ sup = "term" /\ sup' = "kill"
  /\ UNCHANGED <<segmentVars, cur, stop, exit, pidfile, unnamed, work, socket, home, bounds>>
TermKills ==
  /\ sup = "term" /\ sup' = "kill"
  /\ IF Alive(cur) THEN Exit(cur) /\ work' = Killed(cur) ELSE UNCHANGED <<segmentVars, work>>
  /\ UNCHANGED <<cur, stop, exit, pidfile, unnamed, socket, home, bounds>>

-----------------------------------------------------------------------------
(* main of a worker. *)

Goes(p, from, to) == work[p].step = from /\ work' = [work EXCEPT ![p].step = to]
Ends(p, code) == Exit(p) /\ work' = Dead(p, code)

Exec(p) ==                         \* execv, then the handlers
  /\ Goes(p, "fork", "exec") \/ Goes(p, "exec", "config")
  /\ UNCHANGED <<segmentVars, supervisor, socket, home, bounds>>

(* Policy and configuration, read before the segment is opened. *)
ReadConfig(p) ==
  /\ work[p].step = "config"
  /\ \/ Goes(p, "config", "open") /\ UNCHANGED <<segmentVars, faults>>
     \/ Ends(p, "config") /\ faults < MaxFaults /\ faults' = faults + 1
  /\ UNCHANGED <<supervisor, socket, home, deaths>>

(* indurtdb_h_open. *)
Open(p) ==
  /\ work[p].step = "open"
  /\ \/ SegmentStep(p) /\ UNCHANGED work
     \/ Attached(p) /\ Goes(p, "open", "load") /\ UNCHANGED segmentVars
     \/ procs[p].at = "failed" /\ Ends(p, "shm")
     \/ BusError(p) /\ Ends(p, "signal")
  /\ UNCHANGED <<supervisor, socket, home, bounds>>

(* Configuration, delta log, validation and self-check: every failure keeps  *)
(* the segment.                                                              *)
MutLoad(p) ==                      \* closes before a fatal exit
  /\ work[p].step = "load"
  /\ \/ Goes(p, "load", "bind") /\ UNCHANGED <<segmentVars, faults>>
     \/ /\ Goes(p, "load", "drain") /\ Close(p) /\ faults < MaxFaults /\ faults' = faults + 1
  /\ UNCHANGED <<supervisor, socket, home, deaths>>
Load(p) ==
  /\ work[p].step = "load"
  /\ \/ Goes(p, "load", "bind") /\ UNCHANGED <<segmentVars, faults>>
     \/ \E code \in Fatal : Ends(p, code) /\ faults < MaxFaults /\ faults' = faults + 1
  /\ UNCHANGED <<supervisor, socket, home, deaths>>

(* The old socket goes, and a new one is bound. *)
Bind(p) ==
  /\ work[p].step = "bind"
  /\ \/ /\ Goes(p, "bind", "serve") /\ socket' = p
        /\ home' = IF file = procs[p].seg THEN file ELSE None
        /\ UNCHANGED <<segmentVars, faults>>
     \/ /\ Ends(p, "error") /\ socket' = None /\ faults < MaxFaults /\ faults' = faults + 1
        /\ UNCHANGED home
  /\ UNCHANGED <<supervisor, deaths>>

(* recv_all and send_all wait for one client, and do not look at g_stop. *)
Block(p) ==
  /\ Goes(p, "serve", "blocked")
  /\ UNCHANGED <<segmentVars, supervisor, socket, home, bounds>>
Unblock(p) ==
  /\ Goes(p, "blocked", "serve")
  /\ UNCHANGED <<segmentVars, supervisor, socket, home, bounds>>

LeaveLoop(p) ==                    \* while (!g_stop)
  /\ work[p].stop /\ Goes(p, "serve", "drain")
  /\ UNCHANGED <<segmentVars, supervisor, socket, home, bounds>>
RemoveSocket(p) ==
  /\ Goes(p, "drain", "close") /\ socket' = None
  /\ UNCHANGED <<segmentVars, supervisor, home, bounds>>
CloseSegment(p) ==
  /\ work[p].step = "close"
  /\ \/ Close(p) /\ UNCHANGED work
     \/ procs[p].at = "idle" /\ Ends(p, "ok")
  /\ home' = IF file' = None /\ work[p].stop THEN None ELSE home
  /\ UNCHANGED <<supervisor, socket, bounds>>

WorkerStep(p) ==
  \/ Exec(p) \/ ReadConfig(p) \/ Open(p) \/ Load(p) \/ Bind(p)
  \/ LeaveLoop(p) \/ RemoveSocket(p) \/ CloseSegment(p)

-----------------------------------------------------------------------------
(* Other processes, the operator, and accidents. *)

AppStart(p) ==
  /\ procs[p] = Gone /\ Cardinality(Others) < MaxApps
  /\ procs' = [procs EXCEPT ![p] = Idle]
  /\ UNCHANGED <<file, segs, rash, supervisor, work, socket, home, bounds>>
AppStep(p) ==
  /\ p \in Apps
  /\ SegmentStep(p)
  /\ UNCHANGED <<supervisor, work, socket, home, bounds>>
AppClose(p) ==
  /\ p \in Apps /\ (Close(p) \/ Detach(p))
  /\ home' = IF file' = None THEN None ELSE home
  /\ UNCHANGED <<supervisor, work, socket, bounds>>
AppEnd(p) ==                       \* returns, or dies of its bus error
  /\ p \in Apps /\ (procs[p].at \in {"idle", "failed"} \/ BusError(p)) /\ Exit(p)
  /\ UNCHANGED <<supervisor, work, socket, home, bounds>>
AppReaped(p) ==
  /\ ~ Worker(p) /\ Reap(p)
  /\ UNCHANGED <<supervisor, work, socket, home, bounds>>

TermWorker(p) ==                   \* a SIGTERM that does not come from the supervisor
  /\ Running(p) /\ ~ work[p].stop /\ faults < MaxFaults /\ faults' = faults + 1
  /\ SendTerm(p)
  /\ UNCHANGED <<supervisor, socket, home, deaths>>
Die(p) ==                          \* SIGKILL, abort, out of memory
  /\ (p \in Apps \/ Running(p)) /\ deaths < MaxDeaths /\ deaths' = deaths + 1
  /\ Exit(p)
  /\ work' = IF Worker(p) THEN Killed(p) ELSE work
  /\ UNCHANGED <<supervisor, socket, home, faults>>

Supervise ==
  \/ StopAtTop \/ Fork \/ WritePidfile \/ EnterWait \/ WaitReturns
  \/ TermReaps \/ TermKills
Next ==
  \/ Supervise \/ StopService \/ DumpStats
  \/ \E p \in Pids :
       \/ WorkerStep(p) \/ Block(p) \/ Unblock(p) \/ TermWorker(p) \/ Die(p)
       \/ AppStart(p) \/ AppStep(p) \/ AppClose(p) \/ AppEnd(p) \/ AppReaped(p)

Fairness ==
  /\ WF_vars(Supervise)
  /\ \A p \in Pids : WF_vars(WorkerStep(p)) /\ WF_vars(AppStep(p)) /\ WF_vars(AppReaped(p))
Spec == Init /\ [][Next]_vars /\ Fairness

-----------------------------------------------------------------------------
TypeOK ==
  /\ SegmentTypeOK
  /\ sup \in {"top", "forked", "enter", "wait", "term", "kill", "ended"}
  /\ cur \in Pids \cup {None} /\ {pidfile, socket} \subseteq Pids \cup {None}
  /\ {stop, unnamed} \subseteq BOOLEAN /\ exit \in Codes
  /\ work \in [Pids -> [step : WorkSteps, stop : BOOLEAN, code : Codes]]
  /\ home \in Segs \cup {None} /\ deaths \in 0 .. MaxDeaths /\ faults \in 0 .. MaxFaults

\* The supervisor never loses a worker: there is one at most, it is the one that
\* waitpid is called for, and none is left, running or unreaped, when the supervisor
\* returns (the comments on cur and on the inner waitpid loop of supervise_loop).
NoOrphan ==
  /\ \A p \in Pids : Worker(p) => p = cur
  /\ sup \in {"top", "ended"} => cur = None

\* The pid file names the worker while the supervisor waits for it, and is gone with
\* the supervisor; only between two workers does it name one that was reaped, or while
\* a worker runs for which it could not be opened.
PidfileTrue ==
  /\ sup \in {"enter", "wait", "term", "kill"} => unnamed \/ pidfile = cur
  /\ sup = "ended" => pidfile = None

\* A fatal code leaves nothing to be taken for a running service: no socket, although
\* the worker that ended had not bound one and the one before it was killed.
FatalLeavesNothing == exit \in Fatal => socket = None /\ pidfile = None /\ cur = None

\* A process never uses a segment whose header was not complete when it attached,
\* whatever step of its creation the creator died at.
NoRawAttach ==
  \A p \in Pids : Attached(p) => segs[procs[p].seg].stage \in {"sealed", "ready"}

\* The data survive: the segment served last keeps its name, and so is the one the next
\* worker opens, through kills, fatal exits and respawns; it goes with the orderly end of
\* a worker that was told to stop, or when another process closes as an owner.
DataSurvive == home \in {None, file}

\* The service always comes back: a worker listens, or the supervisor was told to stop or
\* was given a fatal code; unless there is a segment whose creator died before its header
\* was complete, or one that other processes create again and again: every worker that
\* finds such a segment is refused (code 3, or SIGBUS) and the next one is started.
Listening == \E p \in Pids : work[p].step \in {"serve", "blocked"} /\ socket = p
HalfMade == /\ file # None /\ segs[file].stage \notin {"sealed", "ready"}
            /\ \A p \in Mappers(file) : Worker(p) => ~ procs[p].owner
ComesBack == []<>(Listening \/ stop \/ exit \in Fatal \/ HalfMade)

\* The name of the segment leads to what an owner made or took over until that owner
\* closes it, so that the unlink of irt_shm_os_unmap takes its own name: unless a takeover
\* raced with another, or with the last close, between shm_open and kill(pid, 0).
OwnersName == rash \/ \A p \in Pids : procs[p].owner => file = procs[p].seg

\* A stop that waitpid notices ends the service, even if the worker is blocked in a
\* receive; one that comes before waitpid begins is not noticed while the worker runs.
StopEnds == [](stop => <>(sup = "ended" \/ [](sup = "wait" /\ Alive(cur))))

=============================================================================
