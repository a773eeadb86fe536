---------------------------- MODULE ServeDaemon -----------------------------
(***************************************************************************)
(* The daemon of cnspec serve: the loop that scans when its timer fires    *)
(* (Serve of backgroundjob/serve_unix.go, the service of serve_windows.go) *)
(* and the check-ins beside it (checkin_pinger.go), from the start to the  *)
(* end of the process.                                                     *)
(*                                                                         *)
(* A scan, with the check-in before it, is one call of the handler that    *)
(* ends; its error is logged.  CheckinHandler.sysInfo is written by        *)
(* whichever check-in comes first, or by two at once with the same value.  *)
(***************************************************************************)
EXTENDS Naturals

VARIABLES
  system,    \* "unix" or "windows"
  timer,     \* t: "set", "fired" (its time waits in t.C), "read"
  request,   \* a signal, or the stop request of the service manager, waits
  shutdown,  \* shutdownChannel (runChan on Windows) is closed
  worker,    \* the goroutine that scans: "loop", "select", "scan", "stopped"
  main,      \* "serving", "joining", "stopping", "waiting", "returned"
  startup,   \* the first check-in: "running", "done"; it belongs to no wait group
  ticked,    \* a tick waits in ticker.C
  pinger,    \* the goroutine of Start: "none", "select", "checkin", "stopped"
  quit,      \* checkinPinger.quit is closed
  late       \* history: scans that began after the shutdown

vars == <<system, timer, request, shutdown, worker, main, startup, ticked, pinger, quit, late>>

pingerVars == <<startup, ticked, pinger, quit>>

Alive == main # "returned"  \* the goroutines end with the process

TypeOK ==
  /\ system \in {"unix", "windows"}
  /\ timer \in {"set", "fired", "read"}
  /\ worker \in {"loop", "select", "scan", "stopped"}
  /\ main \in {"serving", "joining", "stopping", "waiting", "returned"}
  /\ startup \in {"running", "done"}
  /\ pinger \in {"none", "select", "checkin", "stopped"}
  /\ {request, shutdown, ticked, quit} \subseteq BOOLEAN
  /\ late \in Nat

-----------------------------------------------------------------------------
(* The environment *)

\* SIGINT or SIGTERM, or svc.Stop; further ones are dropped
Request ==
  /\ Alive
  /\ ~request
  /\ request' = TRUE
  /\ UNCHANGED <<system, timer, shutdown, worker, main, pingerVars, late>>

TimerFires ==
  /\ Alive
  /\ timer = "set"
  /\ timer' = "fired"
  /\ UNCHANGED <<system, request, shutdown, worker, main, pingerVars, late>>

Tick ==
  /\ Alive
  /\ pinger \in {"select", "checkin"}
  /\ ~ticked
  /\ ticked' = TRUE
  /\ UNCHANGED <<system, timer, request, shutdown, worker, main, startup, pinger, quit, late>>

-----------------------------------------------------------------------------
(* The goroutine that scans *)

\* Faulty variant: no priority for the shutdown
LoopSelects ==
  /\ Alive
  /\ worker = "loop"
  /\ worker' = "select"
  /\ UNCHANGED <<system, timer, request, shutdown, main, pingerVars, late>>

\* the top of the loop: the shutdown has priority
Loop ==
  /\ Alive
  /\ worker = "loop"
  /\ worker' = IF shutdown THEN "stopped" ELSE "select"
  /\ UNCHANGED <<system, timer, request, shutdown, main, pingerVars, late>>

\* the select takes the timer; a shutdown may be ready as well
TakeTimer ==
  /\ Alive
  /\ system = "unix"
  /\ worker = "select"
  /\ timer = "fired"
  /\ timer' = "read"
  /\ worker' = "scan"
  /\ late' = late + (IF shutdown THEN 1 ELSE 0)
  /\ UNCHANGED <<system, request, shutdown, main, pingerVars>>

\* the select, or the range over runChan, finds the channel closed
TakeShutdown ==
  /\ Alive
  /\ worker = "select"
  /\ shutdown
  /\ worker' = "stopped"
  /\ UNCHANGED <<system, timer, request, shutdown, main, pingerVars, late>>

\* Faulty variant: the timer is only set again after a scan without an error
ScanEndsResetOnSuccess ==
  /\ Alive
  /\ worker = "scan"
  /\ worker' = "loop"
  /\ timer' \in {timer, IF system = "unix" THEN "set" ELSE timer}
  /\ UNCHANGED <<system, request, shutdown, main, pingerVars, late>>

\* the handler returned, and t.Reset on Unix
ScanEnds ==
  /\ Alive
  /\ worker = "scan"
  /\ worker' = "loop"
  /\ timer' = IF system = "unix" THEN "set" ELSE timer
  /\ UNCHANGED <<system, request, shutdown, main, pingerVars, late>>

-----------------------------------------------------------------------------
(* Serve, and the command around it *)

\* Windows: the service hands a scan to its goroutine, which takes it only when
\* it waits for one, and sets the timer
Hand ==
  /\ system = "windows"
  /\ main = "serving"
  /\ timer = "fired"
  /\ timer' = "set"
  /\ worker' = IF worker = "select" THEN "scan" ELSE worker
  /\ UNCHANGED <<system, request, shutdown, main, pingerVars, late>>

\* a request arrives; on Windows nobody waits for the scan
StopServing ==
  /\ main = "serving"
  /\ request
  /\ shutdown' = TRUE
  /\ main' = IF system = "unix" THEN "joining" ELSE "stopping"
  /\ UNCHANGED <<system, timer, request, worker, pingerVars, late>>

\* Faulty variant: the goroutine is not waited for
JoinAtOnce ==
  /\ main = "joining"
  /\ main' = "stopping"
  /\ UNCHANGED <<system, timer, request, shutdown, worker, pingerVars, late>>

\* waitGroup.Wait returns
Join ==
  /\ main = "joining"
  /\ worker = "stopped"
  /\ main' = "stopping"
  /\ UNCHANGED <<system, timer, request, shutdown, worker, pingerVars, late>>

\* the deferred checkinPinger.Stop closes quit ...
StopPinger ==
  /\ main = "stopping"
  /\ main' = "waiting"
  /\ quit' = TRUE
  /\ UNCHANGED <<system, timer, request, shutdown, worker, startup, ticked, pinger, late>>

\* ... and returns after its goroutine
Return ==
  /\ main = "waiting"
  /\ pinger \in {"none", "stopped"}
  /\ main' = "returned"
  /\ UNCHANGED <<system, timer, request, shutdown, worker, pingerVars, late>>

-----------------------------------------------------------------------------
(* The check-ins *)
StartupEnds ==
  /\ Alive
  /\ startup = "running"
  /\ startup' = "done"
  /\ UNCHANGED <<system, timer, request, shutdown, worker, main, ticked, pinger, quit, late>>

TakeTick ==
  /\ Alive
  /\ pinger = "select"
  /\ ticked
  /\ ticked' = FALSE
  /\ pinger' = "checkin"
  /\ UNCHANGED <<system, timer, request, shutdown, worker, main, startup, quit, late>>

CheckInEnds ==
  /\ Alive
  /\ pinger = "checkin"
  /\ pinger' = "select"
  /\ UNCHANGED <<system, timer, request, shutdown, worker, main, startup, ticked, quit, late>>

TakeQuit ==
  /\ pinger = "select"
  /\ quit
  /\ pinger' = "stopped"
  /\ UNCHANGED <<system, timer, request, shutdown, worker, main, startup, ticked, quit, late>>

-----------------------------------------------------------------------------
\* the timer starts within a minute; there is a pinger when there is an upstream
Init ==
  /\ system \in {"unix", "windows"}
  /\ timer = "set"
  /\ request = FALSE
  /\ shutdown = FALSE
  /\ worker = "loop"
  /\ main = "serving"
  /\ \/ pinger = "none" /\ startup = "done"
     \/ pinger = "select" /\ startup = "running"
  /\ ticked = FALSE
  /\ quit = FALSE
  /\ late = 0

MainStep   == StopServing \/ Join \/ StopPinger \/ Return
WorkerStep == Loop \/ TakeTimer \/ TakeShutdown \/ ScanEnds
ClockStep  == TimerFires \/ Hand
PingerStep == TakeTick \/ CheckInEnds

Next == Request \/ Tick \/ StartupEnds \/ MainStep \/ WorkerStep \/ ClockStep \/ PingerStep \/ TakeQuit

\* each goroutine runs, a call ends, time passes, and a request of the service
\* manager is taken although the timer may be ready as well; a closed quit may
\* compete with a tick each time, and a select takes each ready case in the end
Fairness ==
  /\ WF_vars(MainStep)
  /\ WF_vars(WorkerStep)
  /\ WF_vars(ClockStep)
  /\ WF_vars(PingerStep)
  /\ SF_vars(TakeQuit)

Spec == Init /\ [][Next]_vars /\ Fairness

-----------------------------------------------------------------------------
(* Properties *)

\* After a request at most one more scan begins, on Windows none, and when the
\* daemon ends no check-in of the pinger and, on Unix, no scan is cut off
\* (Serve: "Give shutdown priority", waitGroup; checkinPinger.Stop).
OrderlyEnd ==
  /\ TypeOK
  /\ late <= IF system = "unix" THEN 1 ELSE 0
  /\ main = "returned" => pinger # "checkin" /\ (system = "unix" => worker = "stopped")

\* Until it is asked to end the daemon goes on scanning, also after a scan that
\* failed or that took longer than the interval (Serve, Execute).
KeepsScanning == []<>(worker = "scan" \/ request)
=============================================================================
