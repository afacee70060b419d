--------------------------- MODULE WorkLoopProofs ---------------------------
(***************************************************************************)
(* Theorems about the channel workCh, for any set of watchers.              *)
(***************************************************************************)
EXTENDS WorkLoop, TLAPS

LoopInv == TypeOK /\ OneTickToCome /\ SendersQueued

-----------------------------------------------------------------------------
(* A sender that is not blocked joins the queue.                            *)
LEMMA BlockKeeps ==
  ASSUME TypeOK, SendersQueued, NEW s \in Sender, Block(s), main' = main
  PROVE  /\ sendq' \in Seq(Sender)
         /\ sender' \in [Sender -> {"busy", "sending"}]
         /\ SendersQueued'
<1>1. /\ sendq \in Seq(Sender)
      /\ sender \in [Sender -> {"busy", "sending"}]
      /\ sender[s] = "busy"
      /\ sender' = [sender EXCEPT ![s] = "sending"]
      /\ sendq' = Append(sendq, s)
  BY DEF TypeOK, Block
<1>2. /\ sendq' \in Seq(Sender)
      /\ Len(sendq') = Len(sendq) + 1
      /\ Len(sendq) \in Nat
      /\ \A i \in 1..Len(sendq) : sendq'[i] = sendq[i]
      /\ sendq'[Len(sendq) + 1] = s
  BY <1>1
<1>3. \A i \in 1..Len(sendq) : sendq[i] # s
  BY <1>1 DEF SendersQueued
<1>4. ASSUME NEW u \in Sender
      PROVE  sender'[u] = "sending" <=> \E i \in 1..Len(sendq') : sendq'[i] = u
  <2>1. CASE u = s
    BY <1>1, <1>2, <2>1
  <2>2. CASE u # s
    <3>1. sender'[u] = sender[u]
      BY <1>1, <2>2
    <3>2. (\E i \in 1..Len(sendq') : sendq'[i] = u) <=> (\E i \in 1..Len(sendq) : sendq[i] = u)
      BY <1>2, <2>2
    <3> QED
      BY <3>1, <3>2 DEF SendersQueued
  <2> QED
    BY <2>1, <2>2
<1>5. ASSUME NEW i \in 1..Len(sendq'), NEW j \in 1..Len(sendq'), sendq'[i] = sendq'[j]
      PROVE  i = j
  BY <1>2, <1>3, <1>5 DEF SendersQueued
<1> QED
  BY <1>1, <1>2, <1>4, <1>5 DEF SendersQueued

(* The longest blocked sender is served, and leaves the queue.              *)
LEMMA ReceiveKeeps ==
  ASSUME TypeOK, SendersQueued, Receive
  PROVE  /\ sendq' \in Seq(Sender)
         /\ sender' \in [Sender -> {"busy", "sending"}]
         /\ serving' \in Sender
         /\ SendersQueued'
<1> DEFINE h == Head(sendq)
<1>1. /\ sendq \in Seq(Sender)
      /\ sendq # <<>>
      /\ sender \in [Sender -> {"busy", "sending"}]
      /\ serving' = h
      /\ sendq' = Tail(sendq)
      /\ sender' = [sender EXCEPT ![h] = "busy"]
  BY DEF TypeOK, Receive
<1>2. /\ h \in Sender
      /\ h = sendq[1]
      /\ Len(sendq) \in Nat \ {0}
      /\ sendq' \in Seq(Sender)
      /\ Len(sendq') = Len(sendq) - 1
      /\ \A i \in 1..Len(sendq') : i + 1 \in 1..Len(sendq) /\ sendq'[i] = sendq[i + 1]
  BY <1>1
<1>3. \A i \in 1..Len(sendq') : sendq'[i] # h
  BY <1>2 DEF SendersQueued
<1>4. ASSUME NEW u \in Sender
      PROVE  sender'[u] = "sending" <=> \E i \in 1..Len(sendq') : sendq'[i] = u
  <2>1. CASE u = h
    BY <1>1, <1>3, <2>1
  <2>2. CASE u # h
    <3>1. sender'[u] = sender[u]
      BY <1>1, <2>2
    <3>2. ASSUME NEW i \in 1..Len(sendq), sendq[i] = u
          PROVE  \E j \in 1..Len(sendq') : sendq'[j] = u
      <4>1. i - 1 \in 1..Len(sendq') /\ sendq'[i - 1] = sendq[i]
        BY <1>2, <2>2, <3>2
      <4> QED
        BY <3>2, <4>1
    <3>3. ASSUME NEW i \in 1..Len(sendq'), sendq'[i] = u
          PROVE  \E j \in 1..Len(sendq) : sendq[j] = u
      BY <1>2, <3>3
    <3> QED
      BY <3>1, <3>2, <3>3 DEF SendersQueued
  <2> QED
    BY <2>1, <2>2
<1>5. ASSUME NEW i \in 1..Len(sendq'), NEW j \in 1..Len(sendq'), sendq'[i] = sendq'[j]
      PROVE  i = j
  <2>1. sendq[i + 1] = sendq[j + 1] /\ i + 1 \in 1..Len(sendq) /\ j + 1 \in 1..Len(sendq)
    BY <1>2, <1>5
  <2>2. i + 1 = j + 1
    BY <2>1 DEF SendersQueued
  <2> QED
    BY <1>2, <2>2
<1> QED
  BY <1>1, <1>2, <1>4, <1>5 DEF SendersQueued

-----------------------------------------------------------------------------
LEMMA LoopInvInit == Init => LoopInv
BY DEF Init, LoopInv, TypeOK, OneTickToCome, SendersQueued, Sender

LEMMA LoopInvNext == LoopInv /\ [Next]_vars => LoopInv'
<1> SUFFICES ASSUME LoopInv, [Next]_vars
             PROVE  LoopInv'
  OBVIOUS
<1>0. TypeOK /\ OneTickToCome /\ SendersQueued /\ timeout \in Nat /\ sleepers \in Nat
  BY DEF LoopInv, TypeOK
<1>1. CASE TimerExpires
  BY <1>0, <1>1 DEF TimerExpires, LoopInv, TypeOK, OneTickToCome, SendersQueued
<1>2. CASE TimerSend
  <2>1. Timer \in Sender /\ Block(Timer) /\ main' = main /\ serving' = serving
    BY <1>2 DEF TimerSend, Sender
  <2>2. timeout' = timeout - 1 /\ sleepers' = sleepers + 1 /\ timeout > 0
    BY <1>2 DEF TimerSend
  <2> QED
    BY <1>0, <2>1, <2>2, BlockKeeps DEF LoopInv, TypeOK, OneTickToCome
<1>3. ASSUME NEW s \in Watcher, WatcherSend(s)
      PROVE  LoopInv'
  <2>1. s \in Sender /\ Block(s) /\ UNCHANGED <<timeout, sleepers, main, serving>>
    BY <1>3 DEF WatcherSend, Sender
  <2> QED
    BY <1>0, <2>1, BlockKeeps DEF LoopInv, TypeOK, OneTickToCome
<1>4. CASE BootDone \/ WorkDone \/ Crash
  BY <1>0, <1>4 DEF BootDone, WorkDone, Crash, LoopInv, TypeOK, OneTickToCome, SendersQueued
<1>5. CASE Receive
  <2>1. main' = "work" /\ UNCHANGED <<timeout, sleepers>>
    BY <1>5 DEF Receive
  <2> QED
    BY <1>0, <1>5, <2>1, ReceiveKeeps DEF LoopInv, TypeOK, OneTickToCome
<1>6. CASE Restart
  BY <1>6 DEF Restart, LoopInv, TypeOK, OneTickToCome, SendersQueued, Sender
<1>7. CASE UNCHANGED vars
  BY <1>0, <1>7 DEF vars, LoopInv, TypeOK, OneTickToCome, SendersQueued
<1> QED
  BY <1>1, <1>2, <1>3, <1>4, <1>5, <1>6, <1>7 DEF Next

(* The inductive invariant.                                                 *)
THEOREM LoopInvariant == Spec => []LoopInv
BY LoopInvInit, LoopInvNext, PTL DEF Spec

(* The types of the variables.                                              *)
THEOREM LoopTypeCorrect == Spec => []TypeOK
<1>1. LoopInv => TypeOK
  BY DEF LoopInv
<1> QED
  BY <1>1, LoopInvariant, PTL

(* Ticks neither pile up nor die out (timer_controller.go:34-53).           *)
THEOREM TicksBounded == Spec => []OneTickToCome
<1>1. LoopInv => OneTickToCome
  BY DEF LoopInv
<1> QED
  BY <1>1, LoopInvariant, PTL

(* Every blocked sender is in the queue of workCh, once.                    *)
THEOREM SendersAreQueued == Spec => []SendersQueued
<1>1. LoopInv => SendersQueued
  BY DEF LoopInv
<1> QED
  BY <1>1, LoopInvariant, PTL
=============================================================================
