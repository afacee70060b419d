------------------------------- MODULE Health -------------------------------
(***************************************************************************)
(* The health checks of either binary: a goroutine (the checker) asks the   *)
(* API server every ten seconds how it is, and sets a readiness condition,  *)
(* which is written to a status file.  For each round it starts another     *)
(* goroutine (the reporter) that two seconds later finds out whether the    *)
(* check has come back, and if not reports that on its own.                 *)
(*                                                                          *)
(* The checker is started by Lifecycle, if HealthEnabled is set.  The       *)
(* conditions are named for their reasons.                                  *)
(***************************************************************************)
EXTENDS Naturals

CONSTANT MaxWriteFailures   \* bound on the writes of the file that fail

ASSUME HealthAssumption == MaxWriteFailures \in Nat

VARIABLES
  api,            \* the API server answers
  cancelled,      \* the context of the calls is cancelled: see Lifecycle
  condition,      \* Readiness["KubeAPIServer"]
  file,           \* what the status file says
  checker,        \* where RunHealthChecks is
  checked,        \* the round's check is done: k8sCheckDone has its value
  reporter,       \* where the round's reporter is
  writeFailures

statusVars == <<condition, file, writeFailures>>
checkVars == <<checker, checked, reporter>>
healthVars == <<api, cancelled, statusVars, checkVars>>

Conditions == {"none", "initialized", "slow", "unreachable", "ready"}

HealthInit ==
  /\ api \in BOOLEAN
  /\ cancelled = FALSE
  /\ condition = "none"
  /\ file = "none"
  /\ checker = "off"
  /\ checked = FALSE
  /\ reporter = "over"
  /\ writeFailures = 0

(* A write that fails leaves the file as it was, or cut off.                *)
WriteStatus(c) ==
  \/ file' = c /\ UNCHANGED writeFailures
  \/ /\ writeFailures < MaxWriteFailures
     /\ writeFailures' = writeFailures + 1
     /\ file' \in {file, "damaged"}

(* Only a change is written, and a write that fails is not repeated.        *)
SetReady(c) ==
  IF condition = c THEN UNCHANGED statusVars
  ELSE condition' = c /\ WriteStatus(c)

-----------------------------------------------------------------------------
(* The API server comes and goes.                                           *)
ApiChange ==
  /\ api' = ~api
  /\ UNCHANGED <<cancelled, statusVars, checkVars>>

RunHealthChecks ==
  /\ checker = "start"
  /\ SetReady("initialized")
  /\ checker' = "round"
  /\ UNCHANGED <<api, cancelled, checked, reporter>>

(* A round begins ten seconds after the last one ended, when the last       *)
(* reporter, which sleeps for two, is over.                                 *)
StartCheck ==
  /\ checker = "round"
  /\ reporter = "over"
  /\ reporter' = "asleep"
  /\ checked' = FALSE
  /\ checker' = "asking"
  /\ UNCHANGED <<api, cancelled, statusVars>>

(* Bug: the channel has no room, and the checker waits for the reporter.    *)
CheckedUnbuffered ==
  /\ checker = "asking"
  /\ reporter = "asleep"
  /\ checked' = TRUE
  /\ checker' = IF api /\ ~cancelled THEN "answered" ELSE "failed"
  /\ UNCHANGED <<api, cancelled, statusVars, reporter>>

(* The answer of /healthz, or an error, sooner or later.                    *)
Checked ==
  /\ checker = "asking"
  /\ checked' = TRUE
  /\ checker' = IF api /\ ~cancelled THEN "answered" ELSE "failed"
  /\ UNCHANGED <<api, cancelled, statusVars, reporter>>

(* Bug: the answer is not looked at.                                        *)
ReportCheckReady ==
  /\ checker \in {"answered", "failed"}
  /\ SetReady("ready")
  /\ checker' = "round"
  /\ UNCHANGED <<api, cancelled, checked, reporter>>

ReportCheck ==
  /\ checker \in {"answered", "failed"}
  /\ SetReady(IF checker = "answered" THEN "ready" ELSE "unreachable")
  /\ checker' = "round"
  /\ UNCHANGED <<api, cancelled, checked, reporter>>

(* Bug: the reporter does not look whether the check is done.               *)
ReporterWakesBlind ==
  /\ reporter = "asleep"
  /\ reporter' = "reporting"
  /\ UNCHANGED <<api, cancelled, statusVars, checker, checked>>

(* Two seconds later: is the check done?                                    *)
ReporterWakes ==
  /\ reporter = "asleep"
  /\ reporter' = IF checked THEN "over" ELSE "reporting"
  /\ UNCHANGED <<api, cancelled, statusVars, checker, checked>>

(* By the time the reporter reports, the check may have come back.          *)
ReportSlow ==
  /\ reporter = "reporting"
  /\ SetReady("slow")
  /\ reporter' = "over"
  /\ UNCHANGED <<api, cancelled, checker, checked>>

Checker == RunHealthChecks \/ StartCheck \/ Checked \/ ReportCheck

Reporter == ReporterWakes \/ ReportSlow

-----------------------------------------------------------------------------
HealthTypeOK ==
  /\ api \in BOOLEAN
  /\ cancelled \in BOOLEAN
  /\ condition \in Conditions
  /\ file \in Conditions \cup {"damaged"}
  /\ checker \in {"off", "start", "round", "asking", "answered", "failed"}
  /\ checked \in BOOLEAN
  /\ reporter \in {"over", "asleep", "reporting"}
  /\ writeFailures \in 0..MaxWriteFailures

Checking == checker # "off"

(* However slow its answers, and although the reporter may report a check   *)
(* slow after that check has succeeded (health.go:25-34), an API server     *)
(* that is there is found ready again and again: the checker never waits    *)
(* for a reporter.                                                          *)
ReadyAgain == <>[](api /\ Checking) => []<>(condition = "ready")

(* There are no false alarms: an API server that answers before the         *)
(* reporters wake ends up being ready for good.                             *)
Prompt == [][reporter = "asleep" /\ reporter' # reporter => checked]_healthVars

ReadyForGood == <>[](api /\ Checking) /\ <>Prompt => <>[](condition = "ready")

(* An API server that is gone for good is not shown as ready, nor does the  *)
(* file go on saying so, which may be left from an earlier process, unless  *)
(* a write has failed.                                                      *)
FailureShows ==
  <>[](~api /\ Checking) =>
    <>[](condition # "ready" /\ (writeFailures = 0 => file # "ready"))

(* "writeStatus writes out the status" (status.go:108): a failed write is   *)
(* made up for.                                                             *)
FileReadyAgain == <>[](api /\ Checking) => []<>(file = "ready")
=============================================================================
