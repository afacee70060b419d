-------------------------- MODULE LifecycleProofs --------------------------
(***************************************************************************)
(* Theorems about the life of the process, for any controllers.             *)
(***************************************************************************)
EXTENDS Lifecycle, TLAPS

(* RunControllers is past its <-ctx.Done() only if the context is cancelled, *)
(* and closes stopCh before it returns.                                     *)
PastTheContext == phase \in {"stopping", "deferred"} => cancelled /\ stopCh = "closed"

(* No controller runs before RunControllers.                                *)
NoneBegun == phase \in {"lldpd", "netlinkd", "init"} => \A c \in Controller : run[c] = "off"

LifecycleInv == TypeOK /\ OnlyCancelCloses /\ PastTheContext /\ NoneBegun

-----------------------------------------------------------------------------
(* A condition is set to one there is, and the file follows or is damaged.  *)
LEMMA SetReadyKeeps ==
  ASSUME HealthTypeOK, NEW c \in Conditions, SetReady(c)
  PROVE  /\ condition' \in Conditions
         /\ file' \in Conditions \cup {"damaged"}
         /\ writeFailures' \in 0..MaxWriteFailures
<1>1. MaxWriteFailures \in Nat
  BY HealthAssumption
<1>2. CASE condition = c
  BY <1>2 DEF HealthTypeOK, SetReady, statusVars
<1>3. CASE condition # c
  <2>1. condition' = c /\ WriteStatus(c)
    BY <1>3 DEF SetReady
  <2> QED
    BY <1>1, <2>1 DEF HealthTypeOK, WriteStatus
<1> QED
  BY <1>2, <1>3

(* The steps of the health checks.                                          *)
LEMMA HealthKeeps ==
  ASSUME HealthTypeOK, Checker \/ Reporter
  PROVE  HealthTypeOK' /\ cancelled' = cancelled
<1>1. \A c \in {"initialized", "slow", "unreachable", "ready"} : c \in Conditions
  BY DEF Conditions
<1>2. CASE RunHealthChecks
  <2>1. SetReady("initialized")
    BY <1>2 DEF RunHealthChecks
  <2> QED
    BY <1>1, <1>2, <2>1, SetReadyKeeps DEF RunHealthChecks, HealthTypeOK
<1>3. CASE StartCheck
  BY <1>3 DEF StartCheck, HealthTypeOK, statusVars
<1>4. CASE Checked
  BY <1>4 DEF Checked, HealthTypeOK, statusVars
<1>5. CASE ReportCheck
  <2>1. PICK c \in {"ready", "unreachable"} : SetReady(c)
    BY <1>5 DEF ReportCheck
  <2> QED
    BY <1>1, <1>5, <2>1, SetReadyKeeps DEF ReportCheck, HealthTypeOK
<1>6. CASE ReporterWakes
  BY <1>6 DEF ReporterWakes, HealthTypeOK, statusVars
<1>7. CASE ReportSlow
  <2>1. SetReady("slow")
    BY <1>7 DEF ReportSlow
  <2> QED
    BY <1>1, <1>7, <2>1, SetReadyKeeps DEF ReportSlow, HealthTypeOK
<1> QED
  BY <1>2, <1>3, <1>4, <1>5, <1>6, <1>7 DEF Checker, Reporter

(* The moves of a started controller.                                       *)
LEMMA MovesKeep ==
  ASSUME LifecycleInv, NEW c \in Controller,
         NEW from \in {"begun", "ready", "sending"}, NEW to \in {"ready", "sending", "stopped"},
         Moves(c, from, to)
  PROVE  LifecycleInv'
<1>1. /\ run[c] # "off" /\ run' = [run EXCEPT ![c] = to]
      /\ UNCHANGED <<healthVars, daemons, HealthEnabled, phase, unstarted, stopCh, workCh, counters>>
  BY DEF Moves
<1>2. HealthTypeOK'
  BY <1>1 DEF LifecycleInv, TypeOK, HealthTypeOK, healthVars, statusVars, checkVars
<1>3. /\ run' \in [Controller -> {"off", "begun", "ready", "sending", "stopped"}]
      /\ unstarted' \subseteq {d \in Controller : run'[d] = "off"}
  BY <1>1 DEF LifecycleInv, TypeOK
<1>4. TypeOK'
  BY <1>1, <1>2, <1>3 DEF LifecycleInv, TypeOK, counters
<1> QED
  BY <1>1, <1>4 DEF LifecycleInv, OnlyCancelCloses, PastTheContext, NoneBegun, healthVars

(* The process begins with the start-up checks, and all channels open.      *)
LEMMA LifecycleInvInit == Init => LifecycleInv
<1> SUFFICES ASSUME Init PROVE LifecycleInv
  OBVIOUS
<1>1. HealthTypeOK
  <2>1. writeFailures \in 0..MaxWriteFailures
    BY HealthAssumption DEF Init, HealthInit
  <2>2. /\ api \in BOOLEAN /\ cancelled \in BOOLEAN /\ checked \in BOOLEAN
        /\ condition = "none" /\ file = "none" /\ checker = "off" /\ reporter = "over"
    BY DEF Init, HealthInit
  <2> QED
    BY <2>1, <2>2 DEF HealthTypeOK, Conditions
<1>2. run = [c \in Controller |-> "off"] /\ cancels \in 0..MaxCancels /\ crashes \in 0..MaxCrashes
  BY LifecycleAssumption DEF Init
<1>3. TypeOK
  BY <1>1, <1>2 DEF Init, TypeOK, Phases
<1> QED
  BY <1>2, <1>3 DEF Init, LifecycleInv, OnlyCancelCloses, PastTheContext, NoneBegun

(* Every step keeps the invariant.                                          *)
LEMMA LifecycleInvNext == LifecycleInv /\ [Next]_vars => LifecycleInv'
<1> SUFFICES ASSUME LifecycleInv, [Next]_vars PROVE LifecycleInv'
  OBVIOUS
<1> USE DEF LifecycleInv, counters
<1>1. ASSUME UNCHANGED healthVars
      PROVE  HealthTypeOK' /\ cancelled' = cancelled
  BY <1>1 DEF TypeOK, HealthTypeOK, healthVars, statusVars, checkVars
<1>2. CASE ApiChange /\ UNCHANGED <<daemons, HealthEnabled, processVars, counters>>
  <2>1. HealthTypeOK' /\ cancelled' = cancelled
    BY <1>2 DEF ApiChange, TypeOK, HealthTypeOK, statusVars, checkVars
  <2> QED
    BY <1>2, <2>1 DEF processVars, TypeOK, OnlyCancelCloses, PastTheContext, NoneBegun
<1>3. ASSUME NEW d \in Daemon, DaemonChange(d)
      PROVE  LifecycleInv'
  <2>1. daemons' \subseteq Daemon
    BY <1>3 DEF DaemonChange, TypeOK
  <2> QED
    BY <1>1, <1>3, <2>1 DEF DaemonChange, processVars, TypeOK, OnlyCancelCloses, PastTheContext, NoneBegun
<1>4. CASE Cancel
  <2>1. HealthTypeOK' /\ cancelled'
    BY <1>4 DEF Cancel, TypeOK, HealthTypeOK, statusVars, checkVars
  <2>2. cancels' \in 0..MaxCancels
    BY <1>4, LifecycleAssumption DEF Cancel, TypeOK
  <2> QED
    BY <1>4, <2>1, <2>2 DEF Cancel, processVars, TypeOK, OnlyCancelCloses, PastTheContext, NoneBegun
<1>5. CASE CheckLldpDaemon \/ CheckNetLinkDaemon
  BY <1>1, <1>5 DEF CheckLldpDaemon, CheckNetLinkDaemon, Goes, TypeOK, Phases, OnlyCancelCloses,
                    PastTheContext, NoneBegun
<1>6. CASE InitControllers
  <2>1. HealthTypeOK' /\ cancelled' = cancelled
    BY <1>6 DEF InitControllers, TypeOK, HealthTypeOK, statusVars
  <2>2. unstarted' \subseteq {c \in Controller : run'[c] = "off"}
    BY <1>6 DEF InitControllers, Goes, NoneBegun
  <2> QED
    BY <1>6, <2>1, <2>2 DEF InitControllers, Goes, TypeOK, Phases, OnlyCancelCloses, PastTheContext, NoneBegun
<1>7. ASSUME NEW c \in Controller, StartController(c)
      PROVE  LifecycleInv'
  <2>1. /\ run' \in [Controller -> {"off", "begun", "ready", "sending", "stopped"}]
        /\ unstarted' \subseteq {d \in Controller : run'[d] = "off"}
    BY <1>7 DEF StartController, TypeOK
  <2> QED
    BY <1>1, <1>7, <2>1 DEF StartController, TypeOK, OnlyCancelCloses, PastTheContext, NoneBegun
<1>8. CASE AllStarted
  BY <1>1, <1>8 DEF AllStarted, Goes, TypeOK, Phases, OnlyCancelCloses, PastTheContext, NoneBegun
<1>9. CASE CloseStopCh
  BY <1>1, <1>9 DEF CloseStopCh, Goes, TypeOK, Phases, OnlyCancelCloses, PastTheContext, NoneBegun
<1>10. CASE CloseWorkCh
  BY <1>1, <1>10 DEF CloseWorkCh, Goes, TypeOK, Phases, OnlyCancelCloses, PastTheContext, NoneBegun
<1>11. CASE CloseStopChAgain
  BY <1>1, <1>11 DEF CloseStopChAgain, Goes, TypeOK, Phases, OnlyCancelCloses, PastTheContext, NoneBegun
<1>12. ASSUME NEW c \in Controller, Prepare(c) \/ Send(c) \/ Receive(c) \/ Stop(c)
       PROVE  LifecycleInv'
  <2>1. PICK from \in {"begun", "ready", "sending"}, to \in {"ready", "sending", "stopped"} :
          Moves(c, from, to)
    BY <1>12 DEF Prepare, Send, Receive, Stop
  <2> QED
    BY <2>1, MovesKeep
<1>13. ASSUME NEW c \in Controller, SendPanics(c)
       PROVE  LifecycleInv'
  BY <1>1, <1>13 DEF SendPanics, TypeOK, Phases, OnlyCancelCloses, PastTheContext, NoneBegun
<1>14. CASE Crash
  <2>1. crashes' \in 0..MaxCrashes
    BY <1>14, LifecycleAssumption DEF Crash, TypeOK
  <2> QED
    BY <1>1, <1>14, <2>1 DEF Crash, TypeOK, Phases, OnlyCancelCloses, PastTheContext, NoneBegun
<1>15. CASE HealthChecks(Checker) \/ HealthChecks(Reporter)
  <2>1. HealthTypeOK' /\ cancelled' = cancelled
    BY <1>15, HealthKeeps DEF HealthChecks, TypeOK
  <2> QED
    BY <1>15, <2>1 DEF HealthChecks, processVars, TypeOK, OnlyCancelCloses, PastTheContext, NoneBegun
<1>16. CASE Restart
  <2>1. HealthTypeOK'
    BY <1>16 DEF Restart, TypeOK, HealthTypeOK, Conditions
  <2> QED
    BY <1>16, <2>1 DEF Restart, Goes, TypeOK, Phases, OnlyCancelCloses, PastTheContext, NoneBegun
<1>17. CASE UNCHANGED vars
  BY <1>1, <1>17 DEF vars, processVars, TypeOK, OnlyCancelCloses, PastTheContext, NoneBegun
<1> QED
  BY <1>2, <1>3, <1>4, <1>5, <1>6, <1>7, <1>8, <1>9, <1>10, <1>11, <1>12, <1>13, <1>14, <1>15,
     <1>16, <1>17 DEF Next, Environment, FirstGoroutine

(* Whatever the controllers, the daemons and the API server do, and however *)
(* often the process crashes, its channels are closed only after the        *)
(* context was cancelled, stopCh first.                                     *)
THEOREM OnlyCancelClosesThem == Spec => []OnlyCancelCloses
<1>1. LifecycleInv => OnlyCancelCloses
  BY DEF LifecycleInv
<1> QED
  BY <1>1, LifecycleInvInit, LifecycleInvNext, PTL DEF Spec

(* A controller is started once, from the state it is in when the process   *)
(* begins; the conditions and the file are those there are.                 *)
THEOREM LifecycleTypeCorrect == Spec => []TypeOK
<1>1. LifecycleInv => TypeOK
  BY DEF LifecycleInv
<1> QED
  BY <1>1, LifecycleInvInit, LifecycleInvNext, PTL DEF Spec
=============================================================================
