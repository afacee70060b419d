------------------------------ MODULE WorkLoop ------------------------------
(***************************************************************************)
(* The channel workCh of either binary: the threads of the watchers and the *)
(* timer send on it, the main loop receives.  It has no buffer, and Go      *)
(* keeps the senders blocked on it in a queue.  Every watcher sends from    *)
(* within process (ObjectWatcher's Process and Receive); what the main loop *)
(* does with a message is in FscAgent and FscController.                    *)
(*                                                                          *)
(* The timer is a goroutine that waits on a channel timeout with room for   *)
(* one value, and starts a goroutine that sleeps and then sends a value.    *)
(*                                                                          *)
(* All of them are goroutines of one process, which may end at any point    *)
(* and is started again by its container.                                   *)
(***************************************************************************)
EXTENDS Naturals, Sequences, FiniteSets

CONSTANTS
  Watcher,      \* the watchers, with one thread each
  Timer         \* the timer controller

ASSUME SenderAssumption == Timer \notin Watcher

Sender == Watcher \cup {Timer}

VARIABLES
  sendq,        \* the senders blocked on workCh, the longest first
  sender,       \* what each of them does
  timeout,      \* the number of values in the channel timeout
  sleepers,     \* the goroutines that sleep before they send on timeout
  main,         \* what the main loop does
  serving       \* whose message the main loop works on, or the last one

vars == <<sendq, sender, timeout, sleepers, main, serving>>

Init ==
  /\ sendq = <<>>
  /\ sender = [s \in Sender |-> "busy"]
  /\ timeout = 0
  /\ sleepers = 1
  /\ main = "boot"
  /\ serving = Timer

Running == main # "down"

(* A sleep of five seconds ends; the goroutine sends if there is room.      *)
TimerExpires ==
  /\ Running
  /\ sleepers > 0
  /\ timeout < 1
  /\ timeout' = timeout + 1
  /\ sleepers' = sleepers - 1
  /\ UNCHANGED <<sendq, sender, main, serving>>

(* Bug: a sender does not wait for its last message to be received.         *)
BlockAgain(s) ==
  /\ Running
  /\ sender' = [sender EXCEPT ![s] = "sending"]
  /\ sendq' = Append(sendq, s)

(* Bug: the last sender to block is the first to be served.                 *)
BlockFirst(s) ==
  /\ Running
  /\ sender[s] = "busy"
  /\ sender' = [sender EXCEPT ![s] = "sending"]
  /\ sendq' = <<s>> \o sendq

Block(s) ==
  /\ Running
  /\ sender[s] = "busy"
  /\ sender' = [sender EXCEPT ![s] = "sending"]
  /\ sendq' = Append(sendq, s)

(* Bug: the timer does not wait for the timeout.                            *)
TimerSendUnasked ==
  /\ timeout' = timeout - 1
  /\ sleepers' = sleepers + 1
  /\ Block(Timer)
  /\ UNCHANGED <<main, serving>>

(* Bug: no further sleep is started.                                        *)
TimerSendOnce ==
  /\ timeout > 0
  /\ timeout' = timeout - 1
  /\ Block(Timer)
  /\ UNCHANGED <<sleepers, main, serving>>

(* The timer: the next sleep begins before the message is sent.             *)
TimerSend ==
  /\ timeout > 0
  /\ timeout' = timeout - 1
  /\ sleepers' = sleepers + 1
  /\ Block(Timer)
  /\ UNCHANGED <<main, serving>>

(* A watcher sends the message of an object that changed.                   *)
WatcherSend(s) ==
  /\ Block(s)
  /\ UNCHANGED <<timeout, sleepers, main, serving>>

(* The API server answers the main loop's first call; until it does, the    *)
(* agent's main loop tries again, and receives nothing.                     *)
BootDone ==
  /\ main = "boot"
  /\ main' = "select"
  /\ UNCHANGED <<sendq, sender, timeout, sleepers, serving>>

Receive ==
  /\ main = "select"
  /\ sendq # <<>>
  /\ serving' = Head(sendq)
  /\ sendq' = Tail(sendq)
  /\ sender' = [sender EXCEPT ![Head(sendq)] = "busy"]
  /\ main' = "work"
  /\ UNCHANGED <<timeout, sleepers>>

WorkDone ==
  /\ main = "work"
  /\ main' = "select"
  /\ UNCHANGED <<sendq, sender, timeout, sleepers, serving>>

(* The process ends, of itself or not, and its container is restarted.      *)
Crash ==
  /\ Running
  /\ main' = "down"
  /\ UNCHANGED <<sendq, sender, timeout, sleepers, serving>>

Restart ==
  /\ main = "down"
  /\ sendq' = <<>>
  /\ sender' = [s \in Sender |-> "busy"]
  /\ timeout' = 0
  /\ sleepers' = 1
  /\ main' = "boot"
  /\ serving' = Timer

Next ==
  \/ TimerExpires \/ TimerSend
  \/ \E s \in Watcher : WatcherSend(s)
  \/ BootDone \/ Receive \/ WorkDone
  \/ Crash \/ Restart

(* Go runs the timer's goroutines and the main loop, whose calls return;    *)
(* the API server is there in the end, and the container is restarted.  No  *)
(* watcher has to send anything, and the process need not crash.            *)
Fairness ==
  /\ WF_vars(TimerExpires) /\ WF_vars(TimerSend)
  /\ WF_vars(BootDone) /\ WF_vars(Receive) /\ WF_vars(WorkDone)
  /\ WF_vars(Restart)

Spec == Init /\ [][Next]_vars /\ Fairness

-----------------------------------------------------------------------------
TypeOK ==
  /\ sendq \in Seq(Sender)
  /\ sender \in [Sender -> {"busy", "sending"}]
  /\ timeout \in Nat
  /\ sleepers \in Nat
  /\ main \in {"boot", "select", "work", "down"}
  /\ serving \in Sender

(* Ticks do not pile up while the main loop is busy or booting, however     *)
(* long that takes: there is always exactly one tick to come, asleep or in  *)
(* the channel, besides the one the timer is blocked on                     *)
(* (timer_controller.go:34-53).                                             *)
OneTickToCome == timeout + sleepers = 1

(* The senders blocked on the channel are those in its queue, each once: no *)
(* message is lost, and none is served twice.                               *)
SendersQueued ==
  /\ \A s \in Sender : sender[s] = "sending" <=> \E i \in 1..Len(sendq) : sendq[i] = s
  /\ \A i, j \in 1..Len(sendq) : sendq[i] = sendq[j] => i = j

(* Every watcher that blocks on the channel is served, although the timer   *)
(* and the other watchers keep sending, or ends with the process.  FscAgent *)
(* and FscController assume it.                                             *)
EverySenderServed == \A s \in Sender : sender[s] = "sending" ~> sender[s] = "busy"

(* The timer is never starved by the watchers: a process that stays up      *)
(* keeps doing its periodic work.                                           *)
AlwaysTicks == <>[]Running => []<>(main = "work" /\ serving = Timer)
=============================================================================
