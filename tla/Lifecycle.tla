----------------------------- MODULE Lifecycle -----------------------------
(***************************************************************************)
(* The life of the fsc-agent process: the start-up checks, InitControllers, *)
(* RunControllers, and what a cancelled context leads to.  The process of   *)
(* fsc-controller has the same life without the start-up checks.            *)
(*                                                                          *)
(* RunControllers starts the controllers in the order in which Go visits    *)
(* the map of them.  Each runs until the channel stopCh is closed, if it    *)
(* comes to look at it; they send on the unbuffered workCh to one of them,  *)
(* the worker.  The health checks of Health.tla run if they are enabled.    *)
(* No code of the repository cancels the context.                           *)
(*                                                                          *)
(* Besides a cancelled context, the process is ended by a request to        *)
(* netlinkd that cannot be written: that of the start-up check, and, once   *)
(* the controllers run, that of a pass (netlink.go:27, 50), which with the  *)
(* panics of AgentProcess and FscController is a crash here.                *)
(***************************************************************************)
EXTENDS Health, FiniteSets

CONSTANTS
  Watcher, Timer, Worker,  \* the controllers
  MayEnable,    \* the values HealthEnabled can have
  MaxCancels,   \* bound on the times the context is cancelled
  MaxCrashes    \* bound on the ends of the process out of its controllers

Controller == Watcher \cup {Timer, Worker}
Sender == Controller \ {Worker}

ASSUME LifecycleAssumption ==
  /\ Timer # Worker /\ {Timer, Worker} \cap Watcher = {}
  /\ MayEnable \subseteq BOOLEAN
  /\ MaxCancels \in Nat /\ MaxCrashes \in Nat

VARIABLES
  daemons,        \* the daemons that answer, or seem to: see CheckLldpDaemon
  HealthEnabled,
  phase,          \* where the process's first goroutine is
  unstarted,      \* the controllers RunControllers has not started yet
  run,            \* what each controller does
  stopCh, workCh, \* "open" or "closed"
  cancels, crashes

counters == <<cancels, crashes>>
processVars == <<phase, unstarted, run, stopCh, workCh>>
vars == <<healthVars, daemons, HealthEnabled, processVars, counters>>

Daemon == {"lldpd", "netlinkd"}

Alive == phase # "down"

Init ==
  /\ HealthInit
  /\ daemons \in SUBSET Daemon
  /\ HealthEnabled \in MayEnable
  /\ phase = "lldpd"
  /\ unstarted = {}
  /\ run = [c \in Controller |-> "off"]
  /\ stopCh = "open" /\ workCh = "open"
  /\ cancels = 0 /\ crashes = 0

-----------------------------------------------------------------------------
(* The environment: daemons come and go, which only the start-up checks     *)
(* notice, and someone cancels the context.                                 *)
DaemonChange(d) ==
  /\ phase \in {"lldpd", "netlinkd"}
  /\ daemons' = IF d \in daemons THEN daemons \ {d} ELSE daemons \cup {d}
  /\ UNCHANGED <<healthVars, HealthEnabled, processVars, counters>>

Cancel ==
  /\ phase \in {"starting", "blocked"}
  /\ ~cancelled
  /\ cancels < MaxCancels
  /\ cancels' = cancels + 1
  /\ cancelled' = TRUE
  /\ UNCHANGED <<api, statusVars, checkVars, daemons, HealthEnabled, processVars, crashes>>

-----------------------------------------------------------------------------
(* The start command: a daemon that does not answer is tried again in a     *)
(* minute, from the first one on.  An lldpcli that cannot be run at all     *)
(* counts as an answer.                                                     *)
Goes(from, to) == phase = from /\ phase' = to

CheckLldpDaemon ==
  /\ IF "lldpd" \in daemons THEN Goes("lldpd", "netlinkd") ELSE Goes("lldpd", "lldpd")
  /\ UNCHANGED <<healthVars, daemons, HealthEnabled, unstarted, run, stopCh, workCh, counters>>

(* A netlinkd that cannot be reached, or does not answer, is tried again    *)
(* like that; one that accepts and cannot be written to ends the process.   *)
CheckNetLinkDaemon ==
  /\ phase = "netlinkd"
  /\ phase' \in (IF "netlinkd" \in daemons THEN {"init"} ELSE {"lldpd", "down"})
  /\ UNCHANGED <<healthVars, daemons, HealthEnabled, unstarted, run, stopCh, workCh, counters>>

InitControllers ==
  /\ Goes("init", "starting")
  /\ unstarted' = Controller
  /\ checker' = IF HealthEnabled THEN "start" ELSE "off"
  /\ UNCHANGED <<api, cancelled, statusVars, checked, reporter, daemons, HealthEnabled, run, stopCh,
                 workCh, counters>>

(* Bug: a controller is run without a goroutine of its own.                 *)
StartControllerInline(c) ==
  /\ phase = "starting"
  /\ unstarted = Controller
  /\ c \in unstarted
  /\ unstarted' = unstarted \ {c}
  /\ run' = [run EXCEPT ![c] = "begun"]
  /\ UNCHANGED <<healthVars, daemons, HealthEnabled, phase, stopCh, workCh, counters>>

(* Bug: a controller is started more than once.                             *)
StartControllerAgain(c) ==
  /\ phase = "starting"
  /\ c \in unstarted
  /\ unstarted' \in {unstarted, unstarted \ {c}}
  /\ run' = [run EXCEPT ![c] = "begun"]
  /\ UNCHANGED <<healthVars, daemons, HealthEnabled, phase, stopCh, workCh, counters>>

(* RunControllers. *)
StartController(c) ==
  /\ phase = "starting"
  /\ c \in unstarted
  /\ unstarted' = unstarted \ {c}
  /\ run' = [run EXCEPT ![c] = "begun"]
  /\ UNCHANGED <<healthVars, daemons, HealthEnabled, phase, stopCh, workCh, counters>>

(* Bug: it does not wait for the context.                                   *)
AllStartedGoesOn ==
  /\ unstarted = {}
  /\ Goes("starting", "stopping")
  /\ stopCh' = "closed"
  /\ UNCHANGED <<healthVars, daemons, HealthEnabled, unstarted, run, workCh, counters>>

AllStarted ==
  /\ unstarted = {}
  /\ Goes("starting", "blocked")
  /\ UNCHANGED <<healthVars, daemons, HealthEnabled, unstarted, run, stopCh, workCh, counters>>

CloseStopCh ==
  /\ cancelled
  /\ Goes("blocked", "stopping")
  /\ stopCh' = "closed"
  /\ UNCHANGED <<healthVars, daemons, HealthEnabled, unstarted, run, workCh, counters>>

(* The deferred calls of InitControllers, last things first: workCh is      *)
(* closed, and then stopCh, which is closed already; that is a panic.       *)
CloseWorkCh ==
  /\ Goes("stopping", "deferred")
  /\ workCh' = "closed"
  /\ UNCHANGED <<healthVars, daemons, HealthEnabled, unstarted, run, stopCh, counters>>

CloseStopChAgain ==
  /\ stopCh = "closed"
  /\ Goes("deferred", "down")
  /\ UNCHANGED <<healthVars, daemons, HealthEnabled, unstarted, run, stopCh, workCh, counters>>

FirstGoroutine ==
  \/ CheckLldpDaemon \/ CheckNetLinkDaemon \/ InitControllers
  \/ \E c \in Controller : StartController(c)
  \/ AllStarted \/ CloseStopCh \/ CloseWorkCh \/ CloseStopChAgain

-----------------------------------------------------------------------------
(* The controllers. *)
Moves(c, from, to) ==
  /\ Alive
  /\ run[c] = from
  /\ run' = [run EXCEPT ![c] = to]
  /\ UNCHANGED <<healthVars, daemons, HealthEnabled, phase, unstarted, stopCh, workCh, counters>>

(* The timer is ready at once.  The worker asks the API server for its      *)
(* NodeTopology until it answers; a watcher lists its objects, and spins    *)
(* until it has them.                                                       *)
Prepare(c) == (c = Timer \/ api) /\ Moves(c, "begun", "ready")

Send(c) == c \in Sender /\ workCh = "open" /\ Moves(c, "ready", "sending")

Receive(c) == run[Worker] = "ready" /\ workCh = "open" /\ Moves(c, "sending", "ready")

(* The controller comes to look at stopCh, which a sender blocked on workCh *)
(* and one that is not ready do not.                                        *)
Stop(c) == stopCh = "closed" /\ Moves(c, "ready", "stopped")

(* A send on a closed channel is a panic, and so is the close for a sender  *)
(* that is blocked.                                                         *)
SendPanics(c) ==
  /\ Alive
  /\ c \in Sender
  /\ run[c] \in {"ready", "sending"}
  /\ workCh = "closed"
  /\ phase' = "down"
  /\ UNCHANGED <<healthVars, daemons, HealthEnabled, unstarted, run, stopCh, workCh, counters>>

(* A controller ends the process while they run.                            *)
Crash ==
  /\ phase \in {"starting", "blocked", "stopping", "deferred"}
  /\ crashes < MaxCrashes
  /\ crashes' = crashes + 1
  /\ phase' = "down"
  /\ UNCHANGED <<healthVars, daemons, HealthEnabled, unstarted, run, stopCh, workCh, cancels>>

HealthChecks(step) ==
  Alive /\ step /\ UNCHANGED <<daemons, HealthEnabled, processVars, counters>>

(* The container is restarted; the status file, if it is on a volume, is    *)
(* what the old process left.                                               *)
Restart ==
  /\ Goes("down", "lldpd")
  /\ cancelled' = FALSE
  /\ condition' = "none"
  /\ checker' = "off" /\ checked' = FALSE /\ reporter' = "over"
  /\ unstarted' = {}
  /\ run' = [c \in Controller |-> "off"]
  /\ stopCh' = "open" /\ workCh' = "open"
  /\ UNCHANGED <<api, file, writeFailures, daemons, HealthEnabled, counters>>

Environment ==
  \/ ApiChange /\ UNCHANGED <<daemons, HealthEnabled, processVars, counters>>
  \/ \E d \in Daemon : DaemonChange(d)
  \/ Cancel

Next ==
  \/ Environment
  \/ FirstGoroutine
  \/ \E c \in Controller : Prepare(c) \/ Send(c) \/ Receive(c) \/ Stop(c) \/ SendPanics(c)
  \/ Crash
  \/ HealthChecks(Checker) \/ HealthChecks(Reporter)
  \/ Restart

(* Go runs every goroutine; nothing makes an informer whose stopCh is       *)
(* closed go on.  The container is restarted.                               *)
Fairness ==
  /\ WF_vars(FirstGoroutine)
  /\ \A c \in Controller : WF_vars(stopCh = "open" /\ Prepare(c))
  /\ WF_vars(HealthChecks(Checker)) /\ WF_vars(HealthChecks(Reporter))
  /\ WF_vars(Restart)

Spec == Init /\ [][Next]_vars /\ Fairness

-----------------------------------------------------------------------------
Phases ==
  {"lldpd", "netlinkd", "init", "starting", "blocked", "stopping", "deferred", "down"}

TypeOK ==
  /\ HealthTypeOK
  /\ daemons \subseteq Daemon
  /\ HealthEnabled \in MayEnable
  /\ phase \in Phases
  /\ unstarted \subseteq {c \in Controller : run[c] = "off"}
  /\ run \in [Controller -> {"off", "begun", "ready", "sending", "stopped"}]
  /\ stopCh \in {"open", "closed"} /\ workCh \in {"open", "closed"}
  /\ cancels \in 0..MaxCancels /\ crashes \in 0..MaxCrashes

(* Whatever starts, stops, crashes or is restarted in whatever order, no    *)
(* controller is told to stop and no sender meets a closed channel but      *)
(* because the context is cancelled, and workCh is not closed before the    *)
(* controllers are told (controller.go:31-36, 91-97).                       *)
OnlyCancelCloses ==
  /\ stopCh = "closed" => cancelled
  /\ workCh = "closed" => stopCh = "closed"

(* A cancelled context ends the process, whatever its controllers are doing *)
(* or waiting for: blocked senders and spinning watchers do not keep it     *)
(* alive (controller.go:91-97).                                             *)
CancelEnds == cancelled ~> ~Alive

(* Whatever the order the controllers are started in, all of them get to    *)
(* work once the daemons and the API server answer, also after a restart:   *)
(* none waits for one that is started later.                                *)
Serving == \A c \in Controller : run[c] \in {"ready", "sending"}

EventuallyServing == <>[](api /\ daemons = Daemon) => <>[]Serving

(* "stopCh to synchronize the finalization for a graceful shutdown"         *)
(* (controller.go:30): workCh is not closed before the controllers have     *)
(* stopped.                                                                 *)
GracefulShutdown == workCh = "closed" => \A c \in Controller : run[c] = "stopped"
=============================================================================
