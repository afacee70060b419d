------------------------ MODULE ObjectWatcherSafety ------------------------
(***************************************************************************)
(* What a watcher brings to the main loop, on top of the discipline of its  *)
(* queue: the mirror never goes back, implements Replica but for catching   *)
(* up, and misses no change.                                                *)
(***************************************************************************)
EXTENDS ObjectWatcherProofs

(* Revisions only travel forward: from the API server to the indexer, into  *)
(* a message, to the mirror; and a message is never of an invalid object.   *)
(* A message can be older than the indexer, but, its key being held by no   *)
(* other thread, never older than the mirror.                               *)
Sending(t) ==
  /\ mirror[cur[t]] <= msg[t]
  /\ msg[t] <= indexer[cur[t]]
  /\ KindOf(cur[t], msg[t]) # "invalid"

Revisions ==
  /\ \A k \in Key : mirror[k] <= indexer[k] /\ indexer[k] <= Len(log[k])
  /\ \A t \in Thread : pc[t] = "send" => Sending(t)

Inv == TypedDiscipline /\ Revisions

LEMMA InitRevisions == Init => Revisions
BY DEF Init, Revisions

(* A revision keeps its contents.                                           *)
LEMMA KindOfKept ==
  ASSUME TypeOK, NEW j \in Key, NEW kd \in Kinds, ApiWrite(j, kd),
         NEW k \in Key, NEW r \in Nat, r <= Len(log[k])
  PROVE  KindOf(k, r)' = KindOf(k, r) /\ r <= Len(log'[k])
<1>1. log[k] \in Seq(Kinds) /\ log[j] \in Seq(Kinds)
  BY DEF TypeOK
<1>2. log' = [log EXCEPT ![j] = Append(log[j], kd)]
  BY DEF ApiWrite
<1>3. CASE k = j
  <2>1. log'[k] = Append(log[k], kd)
    BY <1>2, <1>3 DEF TypeOK
  <2>2. Len(log'[k]) = Len(log[k]) + 1 /\ \A i \in 1..Len(log[k]) : log'[k][i] = log[k][i]
    BY <1>1, <2>1
  <2>3. Len(log[k]) \in Nat
    BY <1>1
  <2>4. CASE r = 0
    BY <2>2, <2>3, <2>4 DEF KindOf
  <2>5. CASE r # 0
    <3>1. r \in 1..Len(log[k])
      BY <2>3, <2>5
    <3>2. log'[k][r] = log[k][r]
      BY <2>2, <3>1
    <3> QED BY <2>2, <2>3, <2>5, <3>2 DEF KindOf
  <2> QED BY <2>4, <2>5
<1>4. CASE k # j
  <2>1. log'[k] = log[k]
    BY <1>2, <1>4 DEF TypeOK
  <2> QED BY <2>1 DEF KindOf
<1> QED BY <1>3, <1>4

(* The steps that move no revision and start no message.                    *)
LEMMA RevisionsKept ==
  ASSUME Revisions, UNCHANGED <<log, indexer, mirror, msg>>,
         \A t \in Thread : pc'[t] = "send" => pc[t] = "send" /\ cur'[t] = cur[t]
  PROVE  Revisions'
BY DEF Revisions, Sending, KindOf

LEMMA NextRevisions ==
  ASSUME Inv, [Next]_vars
  PROVE  Revisions'
<1>0. TypeOK /\ Holding /\ NoSharedKey /\ Revisions
  BY DEF Inv, TypedDiscipline, Discipline
<1>a. \A t \in Thread : pc[t] \in Busy => cur[t] \in Key
  BY <1>0 DEF Holding
<1>1. ASSUME NEW j \in Key, NEW kd \in Kinds, ApiWrite(j, kd)
      PROVE  Revisions'
  <2>1. UNCHANGED <<indexer, mirror, msg, pc, cur>>
    BY <1>1 DEF ApiWrite, informerVars, threadVars
  <2>2. \A k \in Key : indexer[k] <= Len(log'[k])
    BY <1>0, <1>1, KindOfKept DEF Revisions, TypeOK
  <2>3. ASSUME NEW t \in Thread, pc[t] = "send"
        PROVE  Sending(t)'
    <3>1. cur[t] \in Key /\ msg[t] \in Nat /\ Sending(t)
      BY <1>0, <1>a, <2>3 DEF TypeOK, Revisions, Busy
    <3>2. indexer[cur[t]] \in Nat /\ indexer[cur[t]] <= Len(log[cur[t]])
      BY <1>0, <3>1 DEF TypeOK, Revisions
    <3>3. Len(log[cur[t]]) \in Nat
      BY <1>0, <3>1 DEF TypeOK
    <3>4. msg[t] <= Len(log[cur[t]])
      BY <3>1, <3>2, <3>3 DEF Sending
    <3>5. KindOf(cur[t], msg[t])' = KindOf(cur[t], msg[t])
      <4> DEFINE c == cur[t]
      <4> DEFINE m == msg[t]
      <4>1. KindOf(c, m)' = (IF m' = 0 THEN "absent" ELSE log'[c'][m'])
        BY DEF KindOf
      <4>2. c' = c /\ m' = m
        BY <2>1
      <4>3. c \in Key /\ m \in Nat /\ m <= Len(log[c])
        BY <3>1, <3>4
      <4>4. (IF m = 0 THEN "absent" ELSE log'[c][m]) = (IF m = 0 THEN "absent" ELSE log[c][m])
        <5> HIDE DEF c, m
        <5>1. KindOf(c, m) = (IF m = 0 THEN "absent" ELSE log[c][m])
          BY DEF KindOf
        <5> QED BY <1>0, <1>1, <4>3, KindOfKept DEF KindOf
      <4> QED BY <4>1, <4>2, <4>4 DEF KindOf
    <3> QED BY <2>1, <3>1, <3>5 DEF Sending
  <2> QED BY <1>0, <2>1, <2>2, <2>3 DEF Revisions
<1>2. ASSUME NEW k \in Key, NEW r \in 1..Len(log[k]), Deliver(k, r)
      PROVE  Revisions'
  <2>1. UNCHANGED <<log, mirror, msg, pc, cur>> /\ indexer' = [indexer EXCEPT ![k] = r]
    BY <1>2 DEF Deliver, threadVars
  <2>2. r \in Nat /\ indexer[k] < r /\ r <= Len(log[k])
    <3>1. Len(log[k]) \in Nat
      BY <1>0 DEF TypeOK
    <3> QED BY <1>2, <3>1 DEF Deliver
  <2>3. \A j \in Key : indexer[j] <= indexer'[j] /\ indexer'[j] <= Len(log[j])
    BY <1>0, <2>1, <2>2 DEF TypeOK, Revisions
  <2>4. \A j \in Key : mirror[j] \in Nat /\ indexer[j] \in Nat /\ indexer'[j] \in Nat
    BY <1>0, <2>1, <2>2 DEF TypeOK
  <2>5. \A j \in Key : mirror'[j] <= indexer'[j] /\ indexer'[j] <= Len(log'[j])
    BY <1>0, <2>1, <2>3, <2>4 DEF Revisions
  <2>6. ASSUME NEW t \in Thread, pc[t] = "send"
        PROVE  Sending(t)'
    <3>1. cur[t] \in Key /\ msg[t] \in Nat /\ Sending(t)
      BY <1>0, <1>a, <2>6 DEF TypeOK, Revisions, Busy
    <3>2. msg[t] <= indexer'[cur[t]]
      BY <2>3, <2>4, <3>1 DEF Sending
    <3> QED BY <2>1, <3>1, <3>2 DEF Sending, KindOf
  <2> QED BY <2>1, <2>5, <2>6 DEF Revisions
<1>3. CASE Notify
  BY <1>0, <1>3, RevisionsKept DEF Notify, threadVars
<1>4. ASSUME NEW k \in Key, RetryDue(k)
      PROVE  Revisions'
  BY <1>0, <1>4, RevisionsKept DEF RetryDue, informerVars, threadVars
<1>5. ASSUME NEW t \in Thread, NEW p \in {"idle", "process", "processed", "failed", "handled"},
             pc' = [pc EXCEPT ![t] = p],
             \A u \in Thread : u # t => cur'[u] = cur[u],
             UNCHANGED <<log, indexer, mirror, msg>>
      PROVE  Revisions'
  BY <1>0, <1>5, RevisionsKept DEF TypeOK
<1>6. ASSUME NEW t \in Thread, StartThread(t)
      PROVE  Revisions'
  BY <1>5, <1>6 DEF StartThread, informerVars
<1>7. ASSUME NEW t \in Thread, NEW k \in Key, GetItem(t, k)
      PROVE  Revisions'
  BY <1>0, <1>5, <1>7 DEF GetItem, informerVars, TypeOK
<1>8. ASSUME NEW t \in Thread, ProcessFails(t)
      PROVE  Revisions'
  BY <1>5, <1>8 DEF ProcessFails, informerVars
<1>9. ASSUME NEW t \in Thread, ProcessInvalid(t)
      PROVE  Revisions'
  BY <1>5, <1>9 DEF ProcessInvalid, informerVars
<1>10. ASSUME NEW t \in Thread, Process(t)
       PROVE  Revisions'
  <2>1. UNCHANGED <<log, indexer, mirror, cur>>
    BY <1>10 DEF Process, informerVars
  <2>2. msg' = [msg EXCEPT ![t] = indexer[cur[t]]] /\ pc' = [pc EXCEPT ![t] = "send"]
    BY <1>10 DEF Process
  <2>3. cur[t] \in Key
    BY <1>10, <1>a DEF Process, Busy
  <2>4. Sending(t)'
    <3>1. msg'[t] = indexer[cur[t]]
      BY <1>0, <2>2 DEF TypeOK
    <3>2. mirror[cur[t]] <= indexer[cur[t]] /\ indexer[cur[t]] \in Nat
      BY <1>0, <2>3 DEF TypeOK, Revisions
    <3>3. KindOf(cur[t], indexer[cur[t]]) # "invalid"
      BY <1>10 DEF Process
    <3> QED BY <2>1, <3>1, <3>2, <3>3 DEF Sending, KindOf
  <2>5. ASSUME NEW u \in Thread, u # t, pc'[u] = "send"
        PROVE  Sending(u)'
    <3>1. pc[u] = "send" /\ msg'[u] = msg[u]
      BY <1>0, <2>2, <2>5 DEF TypeOK
    <3> QED BY <1>0, <2>1, <3>1 DEF Revisions, Sending, KindOf
  <2> QED BY <1>0, <2>1, <2>4, <2>5 DEF Revisions
<1>11. ASSUME NEW t \in Thread, Receive(t)
       PROVE  Revisions'
  <2>1. UNCHANGED <<log, indexer, msg, cur>>
    BY <1>11 DEF Receive, informerVars
  <2>2. /\ mirror' = [mirror EXCEPT ![cur[t]] = msg[t]]
        /\ pc[t] = "send" /\ pc' = [pc EXCEPT ![t] = "processed"]
    BY <1>11 DEF Receive
  <2>3. cur[t] \in Key /\ Sending(t) /\ cur[t] # None
    BY <1>0, <1>a, <2>2, WatcherAssumption DEF Busy, Revisions
  <2>4. \A k \in Key : mirror'[k] <= indexer[k]
    BY <1>0, <2>2, <2>3 DEF TypeOK, Revisions, Sending
  <2>5. ASSUME NEW u \in Thread, pc'[u] = "send"
        PROVE  Sending(u)'
    <3>1. u # t /\ pc[u] = "send"
      BY <1>0, <2>2, <2>5 DEF TypeOK
    <3>2. cur[u] # cur[t] /\ cur[u] \in Key
      BY <1>0, <1>a, <2>3, <3>1 DEF NoSharedKey, Busy
    <3>3. mirror'[cur[u]] = mirror[cur[u]]
      BY <1>0, <2>2, <3>2 DEF TypeOK
    <3> QED BY <1>0, <2>1, <3>1, <3>3 DEF Revisions, Sending, KindOf
  <2> QED BY <1>0, <2>1, <2>4, <2>5 DEF Revisions
<1>12. ASSUME NEW t \in Thread, Forget(t)
       PROVE  Revisions'
  BY <1>5, <1>12 DEF Forget, informerVars
<1>13. ASSUME NEW t \in Thread, Requeue(t)
       PROVE  Revisions'
  BY <1>5, <1>13 DEF Requeue, informerVars
<1>14. ASSUME NEW t \in Thread, Drop(t)
       PROVE  Revisions'
  BY <1>5, <1>14 DEF Drop, informerVars
<1>15. ASSUME NEW t \in Thread, Done(t)
       PROVE  Revisions'
  BY <1>0, <1>5, <1>15 DEF Done, informerVars, TypeOK
<1>16. CASE UNCHANGED vars
  BY <1>0, <1>16, RevisionsKept DEF vars
<1> QED
  BY <1>1, <1>2, <1>3, <1>4, <1>6, <1>7, <1>8, <1>9, <1>10, <1>11, <1>12, <1>13, <1>14, <1>15, <1>16
  DEF Next, Informer, ThreadStep

LEMMA Invariance == Spec => []Inv
<1>1. Init => Inv
  BY InitType, InitDiscipline, InitRevisions DEF Inv, TypedDiscipline
<1>2. Inv /\ [Next]_vars => Inv'
  BY NextDiscipline, NextRevisions DEF Inv
<1> QED BY <1>1, <1>2, PTL DEF Spec

-----------------------------------------------------------------------------
(* What a step does to the mirror: nothing, or what Receive does.           *)
LEMMA MirrorStep ==
  ASSUME Inv, Next
  PROVE  \/ mirror' = mirror
         \/ \E t \in Thread : Receive(t) /\ cur[t] \in Key /\ Sending(t)
<1>1. \A t \in Thread : Receive(t) => cur[t] \in Key /\ Sending(t)
  BY DEF Receive, Inv, TypedDiscipline, Discipline, Holding, Busy, Revisions
<1> QED
  BY <1>1 DEF Next, Informer, ThreadStep, ApiWrite, Deliver, Notify, RetryDue, StartThread, GetItem,
     ProcessFails, ProcessInvalid, Process, Forget, Requeue, Drop, Done

(* The main loop is never shown an older revision of an object than the one *)
(* it has, although messages, retries and new revisions race, and whatever  *)
(* the number of worker threads.                                            *)
THEOREM MirrorNeverBackwards == Spec => NeverBackwards
<1>1. ASSUME Inv, [Next]_vars
      PROVE  [\A k \in Key : mirror'[k] >= mirror[k]]_vars
  <2>0. TypeOK
    BY <1>1 DEF Inv, TypedDiscipline
  <2>1. CASE UNCHANGED vars
    BY <2>1
  <2>2. CASE mirror' = mirror
    BY <2>0, <2>2 DEF TypeOK
  <2>3. ASSUME NEW t \in Thread, Receive(t), cur[t] \in Key, Sending(t)
        PROVE  \A k \in Key : mirror'[k] >= mirror[k]
    <3>1. mirror' = [mirror EXCEPT ![cur[t]] = msg[t]]
      BY <2>3 DEF Receive
    <3> QED BY <2>0, <2>3, <3>1 DEF TypeOK, Sending
  <2> QED BY <1>1, <2>1, <2>2, <2>3, MirrorStep
<1> QED BY <1>1, Invariance, PTL DEF Spec, NeverBackwards

(* The watcher implements the safety part of Replica: every write to the    *)
(* mirror shows a later, valid revision that the API server has held.       *)
THEOREM SafelyReplicates == Spec => Abstract!SafeSpec
<1>1. Init => Abstract!Init
  <2> SUFFICES ASSUME Init PROVE Abstract!Init
    OBVIOUS
  <2>1. log \in [Key -> Seq(Kinds)]
    BY InitType DEF TypeOK
  <2> QED BY <2>1 DEF Init, Abstract!Init
<1>2. ASSUME Inv, [Next]_vars
      PROVE  [Abstract!Next]_<<log, mirror>>
  <2>0. TypeOK
    BY <1>2 DEF Inv, TypedDiscipline
  <2>1. CASE UNCHANGED vars
    BY <2>1 DEF vars
  <2>2. ASSUME NEW t \in Thread, Receive(t), cur[t] \in Key, Sending(t)
        PROVE  [Abstract!Next]_<<log, mirror>>
    <3> DEFINE k == cur[t]
    <3> DEFINE r == msg[t]
    <3>1. mirror' = [mirror EXCEPT ![k] = r] /\ log' = log
      BY <2>2 DEF Receive
    <3>2. mirror[k] \in Nat /\ r \in Nat /\ indexer[k] \in Nat /\ Len(log[k]) \in Nat
      BY <2>0, <2>2 DEF TypeOK
    <3>3. mirror[k] <= r /\ r <= indexer[k] /\ indexer[k] <= Len(log[k])
      BY <1>2, <2>2 DEF Inv, Revisions, Sending
    <3>4. CASE r = mirror[k]
      <4>1. mirror' = mirror
        BY <2>0, <3>1, <3>4 DEF TypeOK
      <4> QED BY <3>1, <4>1
    <3>5. CASE r # mirror[k]
      <4>1. mirror[k] < r /\ r # 0 /\ r \in 1..Len(log[k])
        BY <3>2, <3>3, <3>5
      <4>2. log[k][r] # "invalid"
        BY <2>2, <4>1 DEF Sending, KindOf
      <4>3. Abstract!Show(k, r)
        BY <3>1, <4>1, <4>2 DEF Abstract!Show
      <4> QED BY <2>2, <4>1, <4>3 DEF Abstract!Next
    <3> QED BY <3>4, <3>5
  <2>3. ASSUME NEW k \in Key, NEW kd \in Kinds, ApiWrite(k, kd)
        PROVE  Abstract!Next
    BY <2>3 DEF ApiWrite, Abstract!Next, Abstract!Write
  <2>4. CASE Next /\ ~ \E k \in Key, kd \in Kinds : ApiWrite(k, kd)
    <3>1. log' = log
      BY <2>4 DEF Next, Informer, ThreadStep, Deliver, Notify, RetryDue, StartThread, GetItem,
         ProcessFails, ProcessInvalid, Process, Receive, Forget, Requeue, Drop, Done
    <3>2. mirror' = mirror \/ \E t \in Thread : Receive(t) /\ cur[t] \in Key /\ Sending(t)
      BY <1>2, <2>4, MirrorStep
    <3> QED BY <2>2, <3>1, <3>2
  <2> QED BY <1>2, <2>1, <2>3, <2>4
<1> QED BY <1>1, <1>2, Invariance, PTL DEF Spec, Abstract!SafeSpec, Abstract!replicaVars

-----------------------------------------------------------------------------
(* Every failure of a key that is counted as a retry is one of the failures *)
(* of GetByKey, and a thread that is about to handle one has not counted it *)
(* yet: a key is only dropped when there were more than MaxRetries.         *)
Counted ==
  /\ \A k \in Key : requeues[k] <= errors
  /\ \A t \in Thread : pc[t] = "failed" => requeues[cur[t]] < errors

Accounted == Counted /\ NoLostUpdate

LEMMA InitAccounted == Init => Accounted
<1> SUFFICES ASSUME Init PROVE Accounted
  OBVIOUS
<1>1. Counted
  BY DEF Init, Counted
<1>2. NoLostUpdate
  BY DEF Init, NoLostUpdate, UpToDate, Outgoing
<1> QED BY <1>1, <1>2 DEF Accounted

LEMMA NextCounted ==
  ASSUME Inv, Counted, [Next]_vars
  PROVE  Counted'
<1>0. TypeOK /\ Holding /\ NoSharedKey
  BY DEF Inv, TypedDiscipline, Discipline
<1>a. \A t \in Thread : pc[t] \in Busy => cur[t] \in Key /\ cur[t] # None
  BY <1>0, WatcherAssumption DEF Holding
<1>1. ASSUME UNCHANGED <<requeues, errors>>,
             \A t \in Thread : pc'[t] = "failed" => pc[t] = "failed" /\ cur'[t] = cur[t]
      PROVE  Counted'
  BY <1>1 DEF Counted
<1>2. ASSUME NEW k \in Key, NEW kd \in Kinds, ApiWrite(k, kd)
      PROVE  Counted'
  BY <1>1, <1>2 DEF ApiWrite, threadVars
<1>3. ASSUME NEW k \in Key, NEW r \in 1..Len(log[k]), Deliver(k, r)
      PROVE  Counted'
  BY <1>1, <1>3 DEF Deliver, threadVars
<1>4. CASE Notify
  BY <1>1, <1>4 DEF Notify, threadVars
<1>5. ASSUME NEW k \in Key, RetryDue(k)
      PROVE  Counted'
  BY <1>1, <1>5 DEF RetryDue, threadVars
<1>6. ASSUME NEW t \in Thread, NEW p \in {"idle", "process", "send", "processed", "handled"},
             pc' = [pc EXCEPT ![t] = p],
             \A u \in Thread : u # t => cur'[u] = cur[u],
             UNCHANGED <<requeues, errors>>
      PROVE  Counted'
  BY <1>0, <1>1, <1>6 DEF TypeOK
<1>7. ASSUME NEW t \in Thread, StartThread(t)
      PROVE  Counted'
  BY <1>6, <1>7 DEF StartThread
<1>8. ASSUME NEW t \in Thread, NEW k \in Key, GetItem(t, k)
      PROVE  Counted'
  BY <1>0, <1>6, <1>8 DEF GetItem, TypeOK
<1>9. ASSUME NEW t \in Thread, ProcessFails(t)
      PROVE  Counted'
  <2>1. errors' = errors + 1 /\ UNCHANGED <<requeues, cur>> /\ pc' = [pc EXCEPT ![t] = "failed"]
    BY <1>9 DEF ProcessFails
  <2>2. \A k \in Key : requeues[k] <= errors /\ requeues[k] \in Nat /\ errors \in Nat
    BY <1>0 DEF Counted, TypeOK
  <2>3. \A k \in Key : requeues[k] < errors'
    BY <2>1, <2>2
  <2>4. \A u \in Thread : pc'[u] = "failed" => cur[u] \in Key
    BY <1>0, <1>9, <1>a, <2>1 DEF TypeOK, Busy, ProcessFails
  <2> QED BY <2>1, <2>2, <2>3, <2>4 DEF Counted
<1>10. ASSUME NEW t \in Thread, ProcessInvalid(t) \/ Process(t) \/ Receive(t)
       PROVE  Counted'
  BY <1>6, <1>10 DEF ProcessInvalid, Process, Receive
<1>11. ASSUME NEW t \in Thread, NEW n \in Nat, n <= errors,
              cur[t] \in Key, cur[t] # None,
              requeues' = [requeues EXCEPT ![cur[t]] = n],
              pc' = [pc EXCEPT ![t] = "handled"],
              UNCHANGED <<cur, errors>>
       PROVE  Counted'
  <2>1. \A k \in Key : requeues'[k] <= errors
    BY <1>0, <1>11 DEF Counted, TypeOK
  <2>2. ASSUME NEW u \in Thread, pc'[u] = "failed"
        PROVE  requeues'[cur[u]] < errors
    <3>1. u # t /\ pc[u] = "failed"
      BY <1>0, <1>11, <2>2 DEF TypeOK
    <3>2. cur[u] # cur[t] /\ cur[u] \in Key
      BY <1>0, <1>11, <1>a, <3>1 DEF NoSharedKey, Busy
    <3> QED BY <1>0, <1>11, <3>1, <3>2 DEF Counted, TypeOK
  <2> QED BY <1>11, <2>1, <2>2 DEF Counted
<1>12. ASSUME NEW t \in Thread, Forget(t)
       PROVE  Counted'
  <2>1. cur[t] \in Key /\ cur[t] # None /\ 0 <= errors
    BY <1>0, <1>12, <1>a DEF Forget, Busy, TypeOK
  <2> QED BY <1>11, <1>12, <2>1 DEF Forget
<1>13. ASSUME NEW t \in Thread, Requeue(t)
       PROVE  Counted'
  <2>1. cur[t] \in Key /\ cur[t] # None /\ pc[t] = "failed"
    BY <1>13, <1>a DEF Requeue, Busy
  <2>2. requeues[cur[t]] + 1 \in Nat /\ requeues[cur[t]] + 1 <= errors
    BY <1>0, <2>1 DEF Counted, TypeOK
  <2> QED BY <1>11, <1>13, <2>1, <2>2 DEF Requeue
<1>14. ASSUME NEW t \in Thread, Drop(t)
       PROVE  Counted'
  <2>1. cur[t] \in Key /\ cur[t] # None /\ 0 <= errors
    BY <1>0, <1>14, <1>a DEF Drop, Busy, TypeOK
  <2> QED BY <1>11, <1>14, <2>1 DEF Drop
<1>15. ASSUME NEW t \in Thread, Done(t)
       PROVE  Counted'
  BY <1>0, <1>6, <1>15 DEF Done, TypeOK
<1>16. CASE UNCHANGED vars
  BY <1>1, <1>16 DEF vars
<1> QED
  BY <1>2, <1>3, <1>4, <1>5, <1>7, <1>8, <1>9, <1>10, <1>12, <1>13, <1>14, <1>15, <1>16
  DEF Next, Informer, ThreadStep

(* Key k is not lost: NoLostUpdate for one key.                             *)
Kept(k) == Underway(k) \/ UpToDate(k)

(* A step that leaves the key, its revision and its messages alone.         *)
LEMMA KeptAside ==
  ASSUME NEW k \in Key, Kept(k), Underway(k) => Underway(k)',
         KindOf(k, indexer[k])' = KindOf(k, indexer[k]),
         indexer'[k] = indexer[k], mirror'[k] = mirror[k],
         \A t \in Thread : cur'[t] = k /\ pc'[t] = "send" <=> cur[t] = k /\ pc[t] = "send",
         \A t \in Thread : cur[t] = k /\ pc[t] = "send" => msg'[t] = msg[t]
  PROVE  Kept(k)'
<1>1. Outgoing(k)' = Outgoing(k)
  BY DEF Outgoing
<1> QED BY <1>1 DEF Kept, UpToDate

(* A step of thread t that neither is nor becomes blocked on the channel.   *)
LEMMA KeptByThread ==
  ASSUME TypeOK, NEW k \in Key, Kept(k), NEW t \in Thread,
         NEW p \in {"idle", "process", "processed", "failed", "handled"},
         pc[t] # "send", pc' = [pc EXCEPT ![t] = p],
         \A u \in Thread : u # t => cur'[u] = cur[u],
         UNCHANGED <<log, indexer, mirror, msg>>,
         Underway(k) => Underway(k)'
  PROVE  Kept(k)'
BY KeptAside DEF TypeOK, KindOf

LEMMA NextKept ==
  ASSUME Inv, Counted, [Next]_vars, errors' <= MaxRetries,
         NEW k \in Key, Kept(k)
  PROVE  Kept(k)'
<1>0. TypeOK /\ Holding /\ NoSharedKey /\ Revisions
  BY DEF Inv, TypedDiscipline, Discipline
<1>a. \A t \in Thread : pc[t] \in Busy => cur[t] \in Key /\ cur[t] # None
  BY <1>0, WatcherAssumption DEF Holding
<1>1. ASSUME NEW j \in Key, NEW kd \in Kinds, ApiWrite(j, kd)
      PROVE  Kept(k)'
  <2>1. indexer[k] \in Nat /\ indexer[k] <= Len(log[k])
    BY <1>0 DEF TypeOK, Revisions
  <2>2. UNCHANGED <<queueVars, notifying, waiting, indexer, mirror, msg, pc, cur>>
    BY <1>1 DEF ApiWrite, informerVars, threadVars
  <2>3. KindOf(k, indexer[k])' = KindOf(k, indexer[k])
    <3> DEFINE r == indexer[k]
    <3>1. (IF r = 0 THEN "absent" ELSE log'[k][r]) = (IF r = 0 THEN "absent" ELSE log[k][r])
      <4>1. r \in Nat /\ r <= Len(log[k])
        BY <2>1
      <4> HIDE DEF r
      <4> QED BY <1>0, <1>1, <4>1, KindOfKept DEF KindOf
    <3> QED BY <2>2, <3>1 DEF KindOf
  <2>4. Underway(k) => Underway(k)'
    BY <2>2 DEF Underway, queueVars
  <2> QED BY <2>2, <2>3, <2>4, KeptAside
<1>2. ASSUME NEW j \in Key, NEW r \in 1..Len(log[j]), Deliver(j, r)
      PROVE  Kept(k)'
  <2>1. CASE j = k
    BY <1>2, <2>1 DEF Deliver, Kept, Underway
  <2>2. CASE j # k
    <3>1. UNCHANGED <<queueVars, log, waiting, mirror, msg, pc, cur>> /\ indexer'[k] = indexer[k]
      BY <1>0, <1>2, <2>2 DEF Deliver, threadVars, TypeOK
    <3>2. notifying # k
      BY <1>2, WatcherAssumption DEF Deliver
    <3>3. Underway(k) => Underway(k)'
      BY <3>1, <3>2 DEF Underway, queueVars
    <3> QED BY <3>1, <3>3, KeptAside DEF KindOf
  <2> QED BY <2>1, <2>2
<1>3. CASE Notify
  <2>1. dirty' = dirty \cup {notifying}
    BY <1>3 DEF Notify, QueueAdd, queueVars
  <2>2. UNCHANGED <<log, indexer, waiting, mirror, msg, pc, cur>>
    BY <1>3 DEF Notify, threadVars
  <2>3. Underway(k) => Underway(k)'
    BY <2>1, <2>2 DEF Underway
  <2> QED BY <2>2, <2>3, KeptAside DEF KindOf
<1>4. ASSUME NEW j \in Key, RetryDue(j)
      PROVE  Kept(k)'
  <2>1. dirty' = dirty \cup {j} /\ waiting' = waiting \ {j}
    BY <1>4 DEF RetryDue, QueueAdd, queueVars
  <2>2. UNCHANGED <<log, indexer, notifying, mirror, msg, pc, cur>>
    BY <1>4 DEF RetryDue, informerVars, threadVars
  <2>3. Underway(k) => Underway(k)'
    BY <2>1, <2>2 DEF Underway
  <2> QED BY <2>2, <2>3, KeptAside DEF KindOf
<1>5. ASSUME NEW t \in Thread, StartThread(t)
      PROVE  Kept(k)'
  <2>1. UNCHANGED <<dirty, waiting, notifying, cur>> /\ pc[t] = "start" /\ pc' = [pc EXCEPT ![t] = "idle"]
    BY <1>5 DEF StartThread, queueVars, informerVars
  <2>2. Underway(k) => Underway(k)'
    BY <1>0, <2>1 DEF Underway, TypeOK
  <2> QED BY <1>0, <1>5, <2>1, <2>2, KeptByThread DEF StartThread, informerVars
<1>6. ASSUME NEW t \in Thread, NEW j \in Key, GetItem(t, j)
      PROVE  Kept(k)'
  <2>1. /\ dirty' = dirty \ {j} /\ UNCHANGED <<waiting, notifying>>
        /\ pc[t] = "idle" /\ pc' = [pc EXCEPT ![t] = "process"] /\ cur' = [cur EXCEPT ![t] = j]
    BY <1>6 DEF GetItem, QueueGet, informerVars
  <2>2. pc'[t] = "process" /\ cur'[t] = j
    BY <1>0, <2>1 DEF TypeOK
  <2>3. Underway(k) => Underway(k)'
    BY <1>0, <2>1, <2>2 DEF Underway, TypeOK
  <2> QED BY <1>0, <1>6, <2>1, <2>3, KeptByThread DEF GetItem, informerVars, TypeOK
<1>7. ASSUME NEW t \in Thread, ProcessFails(t)
      PROVE  Kept(k)'
  <2>1. /\ UNCHANGED <<dirty, waiting, notifying, cur>>
        /\ pc[t] = "process" /\ pc' = [pc EXCEPT ![t] = "failed"]
    BY <1>7 DEF ProcessFails, queueVars, informerVars
  <2>2. Underway(k) => Underway(k)'
    BY <1>0, <2>1 DEF Underway, TypeOK
  <2> QED BY <1>0, <1>7, <2>1, <2>2, KeptByThread DEF ProcessFails, informerVars
<1>8. ASSUME NEW t \in Thread, ProcessInvalid(t)
      PROVE  Kept(k)'
  <2>1. /\ UNCHANGED <<dirty, waiting, notifying, cur, log, indexer, mirror, msg>>
        /\ pc[t] = "process" /\ pc' = [pc EXCEPT ![t] = "processed"]
        /\ KindOf(cur[t], indexer[cur[t]]) = "invalid"
    BY <1>8 DEF ProcessInvalid, queueVars, informerVars
  <2>2. CASE cur[t] = k
    BY <2>1, <2>2 DEF Kept, UpToDate, KindOf
  <2>3. CASE cur[t] # k
    <3>1. Underway(k) => Underway(k)'
      BY <1>0, <2>1, <2>3 DEF Underway, TypeOK
    <3> QED BY <1>0, <2>1, <3>1, KeptByThread
  <2> QED BY <2>2, <2>3
<1>9. ASSUME NEW t \in Thread, Process(t)
      PROVE  Kept(k)'
  <2>1. /\ UNCHANGED <<dirty, waiting, notifying, cur, log, indexer, mirror>>
        /\ pc[t] = "process" /\ pc' = [pc EXCEPT ![t] = "send"]
        /\ msg' = [msg EXCEPT ![t] = indexer[cur[t]]]
    BY <1>9 DEF Process, queueVars, informerVars
  <2>2. pc'[t] = "send" /\ msg'[t] = indexer[cur[t]]
    BY <1>0, <2>1 DEF TypeOK
  <2>3. CASE cur[t] = k
    <3>1. indexer'[k] \in Outgoing(k)'
      BY <2>1, <2>2, <2>3 DEF Outgoing
    <3> QED BY <3>1 DEF Kept, UpToDate
  <2>4. CASE cur[t] # k
    <3>1. Underway(k) => Underway(k)'
      BY <1>0, <2>1, <2>4 DEF Underway, TypeOK
    <3>2. \A u \in Thread : u # t => pc'[u] = pc[u] /\ msg'[u] = msg[u]
      BY <1>0, <2>1 DEF TypeOK
    <3> QED BY <2>1, <2>4, <3>1, <3>2, KeptAside DEF KindOf
  <2> QED BY <2>3, <2>4
<1>10. ASSUME NEW t \in Thread, Receive(t)
       PROVE  Kept(k)'
  <2>1. /\ UNCHANGED <<dirty, waiting, notifying, cur, log, indexer, msg>>
        /\ pc[t] = "send" /\ pc' = [pc EXCEPT ![t] = "processed"]
        /\ mirror' = [mirror EXCEPT ![cur[t]] = msg[t]]
    BY <1>10 DEF Receive, queueVars, informerVars
  <2>2. cur[t] \in Key /\ cur[t] # None
    BY <1>a, <2>1 DEF Busy
  <2>3. pc'[t] = "processed" /\ \A u \in Thread : u # t => pc'[u] = pc[u]
    BY <1>0, <2>1 DEF TypeOK
  <2>4. Underway(k) => Underway(k)'
    BY <2>1, <2>3 DEF Underway
  <2>5. CASE cur[t] = k
    <3>1. \A u \in Thread : u # t => cur[u] # k
      BY <1>0, <2>2, <2>5 DEF NoSharedKey
    <3>2. Outgoing(k) = {msg[t]}
      BY <2>1, <2>5, <3>1 DEF Outgoing
    <3>3. Outgoing(k)' = {}
      BY <2>1, <2>3, <3>1 DEF Outgoing
    <3>4. mirror'[k] = msg[t]
      BY <1>0, <2>1, <2>5 DEF TypeOK
    <3>5. CASE Underway(k)
      BY <2>4, <3>5 DEF Kept
    <3>6. CASE KindOf(k, indexer[k]) = "invalid"
      BY <2>1, <3>6 DEF Kept, UpToDate, KindOf
    <3>7. CASE indexer[k] = msg[t]
      BY <2>1, <3>3, <3>4, <3>7 DEF Kept, UpToDate
    <3> QED BY <3>2, <3>5, <3>6, <3>7 DEF Kept, UpToDate
  <2>6. CASE cur[t] # k
    <3>1. mirror'[k] = mirror[k]
      BY <1>0, <2>1, <2>2, <2>6 DEF TypeOK
    <3> QED BY <2>1, <2>3, <2>4, <2>6, <3>1, KeptAside DEF KindOf
  <2> QED BY <2>5, <2>6
<1>11. ASSUME NEW t \in Thread, Forget(t)
       PROVE  Kept(k)'
  <2>1. /\ UNCHANGED <<dirty, waiting, notifying, cur>>
        /\ pc[t] = "processed" /\ pc' = [pc EXCEPT ![t] = "handled"]
    BY <1>11 DEF Forget, queueVars, informerVars
  <2>2. Underway(k) => Underway(k)'
    BY <1>0, <2>1 DEF Underway, TypeOK
  <2> QED BY <1>0, <1>11, <2>1, <2>2, KeptByThread DEF Forget, informerVars
<1>12. ASSUME NEW t \in Thread, Requeue(t)
       PROVE  Kept(k)'
  <2>1. /\ UNCHANGED <<dirty, notifying, cur>> /\ waiting' = waiting \cup {cur[t]}
        /\ pc[t] = "failed" /\ pc' = [pc EXCEPT ![t] = "handled"]
    BY <1>12 DEF Requeue, queueVars, informerVars
  <2>2. Underway(k) => Underway(k)'
    BY <1>0, <2>1 DEF Underway, TypeOK
  <2> QED BY <1>0, <1>12, <2>1, <2>2, KeptByThread DEF Requeue, informerVars
<1>13. ASSUME NEW t \in Thread, Drop(t)
       PROVE  FALSE
  <2>1. pc[t] = "failed" /\ requeues[cur[t]] >= MaxRetries /\ errors' = errors
    BY <1>13 DEF Drop
  <2>2. cur[t] \in Key /\ requeues[cur[t]] < errors
    BY <1>a, <2>1 DEF Busy, Counted
  <2>3. requeues[cur[t]] \in Nat /\ errors \in Nat
    BY <1>0, <2>2 DEF TypeOK
  <2> QED BY <2>1, <2>2, <2>3 DEF MaxRetries
<1>14. ASSUME NEW t \in Thread, Done(t)
       PROVE  Kept(k)'
  <2>1. /\ UNCHANGED <<dirty, waiting, notifying>>
        /\ pc[t] = "handled" /\ pc' = [pc EXCEPT ![t] = "idle"] /\ cur' = [cur EXCEPT ![t] = None]
    BY <1>14 DEF Done, QueueDone, informerVars
  <2>2. Underway(k) => Underway(k)'
    BY <1>0, <2>1 DEF Underway, TypeOK
  <2> QED BY <1>0, <1>14, <2>1, <2>2, KeptByThread DEF Done, informerVars, TypeOK
<1>15. CASE UNCHANGED vars
  BY <1>15 DEF vars, Kept, Underway, UpToDate, Outgoing, KindOf
<1> QED
  BY <1>1, <1>2, <1>3, <1>4, <1>5, <1>6, <1>7, <1>8, <1>9, <1>10, <1>11, <1>12, <1>13, <1>14, <1>15
  DEF Next, Informer, ThreadStep

(* Failures are counted up.                                                 *)
LEMMA ErrorsGrow ==
  ASSUME TypeOK, [Next]_vars
  PROVE  errors <= errors' /\ errors' \in Nat
<1>1. errors \in Nat /\ (errors' = errors \/ errors' = errors + 1)
  BY DEF TypeOK, Next, Informer, ThreadStep, ApiWrite, Deliver, Notify, RetryDue, StartThread, GetItem,
     ProcessFails, ProcessInvalid, Process, Receive, Forget, Requeue, Drop, Done, vars
<1> QED BY <1>1

(* No update is lost: as long as GetByKey has not failed more often than    *)
(* handleErr retries, every change of the indexer is in the mirror or under *)
(* way to it, for any number of objects and of worker threads.              *)
THEOREM NoUpdateLost == Spec => []NoLostUpdate
<1>1. ASSUME Inv, Accounted, [Next]_vars
      PROVE  Accounted'
  <2>1. Counted'
    BY <1>1, NextCounted DEF Accounted
  <2>2. NoLostUpdate'
    <3> SUFFICES ASSUME errors' <= MaxRetries, NEW k \in Key
                 PROVE  Kept(k)'
      BY DEF NoLostUpdate, Kept
    <3>1. errors <= MaxRetries
      <4>1. errors \in Nat /\ errors' \in Nat /\ errors <= errors'
        BY <1>1, ErrorsGrow DEF Inv, TypedDiscipline, TypeOK
      <4> QED BY <4>1 DEF MaxRetries
    <3>2. Kept(k)
      BY <1>1, <3>1 DEF Accounted, NoLostUpdate, Kept
    <3> QED BY <1>1, <3>2, NextKept DEF Accounted
  <2> QED BY <2>1, <2>2 DEF Accounted
<1>2. Init => Accounted
  BY InitAccounted
<1>3. Accounted => NoLostUpdate
  BY DEF Accounted
<1> QED BY <1>1, <1>2, <1>3, Invariance, PTL DEF Spec
=============================================================================
