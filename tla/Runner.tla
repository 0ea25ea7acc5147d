------------------------------- MODULE Runner -------------------------------
(***************************************************************************)
(* The process around the scheduler (daemon/runner.go, state.go,           *)
(* service.go; cli/ui.go, cli/daemon.go): a loop that writes the state     *)
(* file as its heartbeat, the goroutine of the scheduler with its          *)
(* supervisor, a shutdown of bounded steps, and the dashboard that takes   *)
(* the age of the file for the state of the process                        *)
(* (webui/daemon_status.go).                                               *)
(***************************************************************************)
EXTENDS Naturals

CONSTANT Stale   \* heartbeats after which the dashboard gives up: 3

ASSUME RunnerAssumption == Stale \in Nat

VARIABLES main,   \* runUI, runDaemonRun
          asked,  \* why it is to stop
          stopCtx,    \* the runner's context is cancelled
          loop,   \* Runner.loop
          sched,  \* the goroutine that runs Scheduler.Run
          copy,   \* last_error as each of them has loaded it
          file,   \* daemon.state.json: last_error set, age in heartbeats
          lock,   \* the scheduler lock: held, released, or left behind
          exit    \* exit status

runVars == <<main, asked, stopCtx, loop, sched, copy, file, lock, exit>>

RunnerTypeOK ==
  /\ main \in {"boot", "up", "draining", "stopping", "releasing", "exited"}
  /\ asked \in {"no", "signal", "server", "panic"} /\ stopCtx \in BOOLEAN
  /\ loop \in {"none", "idle", "load", "save", "last load", "last save", "await", "done"}
  /\ sched \in {"none", "running", "draining", "panicked", "noting", "calling", "sleeping", "done"}
  /\ copy \in [{"loop", "sched"} -> BOOLEAN] /\ file \in [error : BOOLEAN, age : 0..(Stale + 1)]
  /\ lock \in {"held", "released", "left"} /\ exit \in 0..2

\* The lock is taken; the file is what an earlier process has left.
RunnerInit ==
  /\ main = "boot" /\ asked = "no" /\ stopCtx = FALSE /\ loop = "none" /\ sched = "none"
  /\ copy = [w \in {"loop", "sched"} |-> FALSE]
  /\ file \in [error : BOOLEAN, age : {0, Stale + 1}]
  /\ lock = "held" /\ exit = 0

Lives == main # "exited"

\* StateStore.Save: a rename, or an error that is only logged.
Save(error) == file' = [error |-> error, age |-> 0] \/ UNCHANGED file

-----------------------------------------------------------------------------
(* main *)

\* Runner.Start writes the state and starts both goroutines.
StartRunner ==
  /\ main = "boot" /\ main' = "up" /\ loop' = "idle" /\ sched' = "running"
  /\ Save(file.error)
  /\ UNCHANGED <<asked, stopCtx, copy, lock, exit>>

\* Ctrl-C, a stop of the service; or the HTTP server fails.
AskStop ==
  /\ main = "up" /\ asked = "no" /\ asked' \in {"signal", "server"}
  /\ UNCHANGED <<main, stopCtx, loop, sched, copy, file, lock, exit>>

SeeAsked ==
  /\ main = "up" /\ asked # "no" /\ main' = "draining"
  /\ UNCHANGED <<asked, stopCtx, loop, sched, copy, file, lock, exit>>

\* shutdownUI: the HTTP server has drained or its 10 s are over; Runner.Stop cancels the context
DrainHttp ==
  /\ main = "draining" /\ main' = "stopping" /\ stopCtx' = TRUE
  /\ UNCHANGED <<asked, loop, sched, copy, file, lock, exit>>

\* and waits for the loop, or for as long as the grace period lasts.
StopReturns ==
  /\ main = "stopping" /\ main' = "releasing"
  /\ \/ loop = "done"
     \/ loop # "done"   \* ErrShutdownTimeout
  /\ UNCHANGED <<asked, stopCtx, loop, sched, copy, file, lock, exit>>

\* (Mutant: the path of a failed server forgets the lock.)
ReleaseOnSignal ==
  /\ main = "releasing" /\ main' = "exited"
  /\ IF asked = "server" THEN UNCHANGED lock ELSE lock' \in {"released", "left"}
  /\ UNCHANGED <<asked, stopCtx, loop, sched, copy, file, exit>>

\* lock.Close, which may fail within its 5 s.
Release ==
  /\ main = "releasing" /\ main' = "exited"
  /\ lock' \in {"released", "left"}
  /\ UNCHANGED <<asked, stopCtx, loop, sched, copy, file, exit>>

-----------------------------------------------------------------------------
(* Runner.loop; Update loads and saves without holding the mutex in between *)

Heartbeat ==
  /\ Lives /\ loop = "idle" /\ loop' = "load"
  /\ UNCHANGED <<main, asked, stopCtx, sched, copy, file, lock, exit>>

SeeStopCtx ==
  /\ Lives /\ loop = "idle" /\ stopCtx /\ loop' = "last load"
  /\ UNCHANGED <<main, asked, stopCtx, sched, copy, file, lock, exit>>

LoadState ==
  /\ Lives /\ loop \in {"load", "last load"}
  /\ loop' = IF loop = "load" THEN "save" ELSE "last save"
  /\ copy' = [copy EXCEPT !["loop"] = file.error]
  /\ UNCHANGED <<main, asked, stopCtx, sched, file, lock, exit>>

SaveState ==
  /\ Lives /\ loop \in {"save", "last save"}
  /\ loop' = IF loop = "save" THEN "idle" ELSE "await"
  /\ Save(copy["loop"])
  /\ UNCHANGED <<main, asked, stopCtx, sched, copy, lock, exit>>

AwaitSched ==
  /\ Lives /\ loop = "await" /\ sched = "done" /\ loop' = "done"
  /\ UNCHANGED <<main, asked, stopCtx, sched, copy, file, lock, exit>>

-----------------------------------------------------------------------------
(* The goroutine of the scheduler *)

\* Scheduler.Run sees its context, stops and waits up to 30 s for its workers.
DrainSched ==
  /\ Lives
  /\ \/ sched = "running" /\ stopCtx /\ sched' = "draining"
     \/ sched = "draining" /\ sched' = "done"
  /\ UNCHANGED <<main, asked, stopCtx, loop, copy, file, lock, exit>>

\* recoverSchedulerPanic: of this goroutine only,
Panic ==
  /\ Lives /\ sched \in {"running", "draining"} /\ sched' = "panicked"
  /\ UNCHANGED <<main, asked, stopCtx, loop, copy, file, lock, exit>>

NoteLoad ==
  /\ Lives /\ sched = "panicked" /\ sched' = "noting"
  /\ copy' = [copy EXCEPT !["sched"] = file.error]
  /\ UNCHANGED <<main, asked, stopCtx, loop, file, lock, exit>>

NoteSave ==
  /\ Lives /\ sched = "noting" /\ sched' = "calling"
  /\ Save(TRUE)
  /\ UNCHANGED <<main, asked, stopCtx, loop, copy, lock, exit>>

\* OnSchedulerPanic, where the caller has set one,
CallBack ==
  /\ Lives /\ sched = "calling" /\ sched' = "sleeping"
  /\ \/ UNCHANGED asked
     \/ asked' = IF asked = "no" THEN "panic" ELSE asked
  /\ UNCHANGED <<main, stopCtx, loop, copy, file, lock, exit>>

\* and the end of the process, however far main has come.
PanicExit ==
  /\ Lives /\ sched = "sleeping" /\ main' = "exited" /\ exit' = 1
  /\ UNCHANGED <<asked, stopCtx, loop, sched, copy, file, lock>>

\* The ticker and the workers have goroutines of their own, which nobody recovers.
Abort ==
  /\ Lives /\ sched \in {"running", "draining"} /\ main' = "exited" /\ exit' = 2
  /\ UNCHANGED <<asked, stopCtx, loop, sched, copy, file, lock>>

\* A heartbeat's time goes by.
Age ==
  /\ file.age <= Stale /\ file' = [file EXCEPT !.age = @ + 1]
  /\ UNCHANGED <<main, asked, stopCtx, loop, sched, copy, lock, exit>>

Main == StartRunner \/ SeeAsked \/ DrainHttp \/ StopReturns \/ Release
LoopSteps == SeeStopCtx \/ LoadState \/ SaveState \/ AwaitSched
Supervisor == NoteLoad \/ NoteSave \/ CallBack \/ PanicExit

RunnerNext == Main \/ LoopSteps \/ Supervisor \/ AskStop \/ Heartbeat \/ DrainSched \/ Panic \/ Abort \/ Age

\* buildDaemonStatus
Status == IF file.age > Stale THEN "stopped" ELSE "running"

-----------------------------------------------------------------------------
(* Properties *)

\* Asked to stop, or after a panic of the scheduler, the process goes, with heartbeats, the supervisor's exit and
\* main's bounded waits in any order; if it goes by itself it has tried to give back the lock, and the dashboard
\* notices in the end, although the last write has renewed the file (runner.go:124-158, cli/ui.go:249-264).
RunnerEnds ==
  (asked # "no" \/ sched = "panicked")
    ~> (main = "exited" /\ Status = "stopped" /\ (exit = 0 => lock # "held"))
=============================================================================
