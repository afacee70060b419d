------------------------ MODULE ObjectWatcherProofs ------------------------
(***************************************************************************)
(* Theorems about ObjectWatcher, for any set of keys and of worker threads  *)
(* and any bounds.                                                          *)
(***************************************************************************)
EXTENDS ObjectWatcher, TLAPS

(* What the operations of the work queue preserve.                          *)

(* Appending to a queue a key that is not on it.                            *)
LEMMA AppendNew ==
  ASSUME NEW q \in Seq(Key), NEW k \in Key,
         \A i, j \in 1..Len(q) : q[i] = q[j] => i = j,
         ~ \E i \in 1..Len(q) : q[i] = k
  PROVE  LET r == Append(q, k) IN
         /\ \A i, j \in 1..Len(r) : r[i] = r[j] => i = j
         /\ \A x \in Key : (\E i \in 1..Len(r) : r[i] = x)
                             <=> (x = k \/ \E i \in 1..Len(q) : q[i] = x)
<1> DEFINE r == Append(q, k)
<1>1. /\ r \in Seq(Key)
      /\ Len(r) = Len(q) + 1
      /\ \A i \in 1..Len(q) : r[i] = q[i]
      /\ r[Len(q) + 1] = k
  OBVIOUS
<1>2. Len(q) \in Nat
  OBVIOUS
<1> HIDE DEF r
<1>3. \A i, j \in 1..Len(r) : r[i] = r[j] => i = j
  BY <1>1, <1>2
<1>4. ASSUME NEW x \in Key
      PROVE  (\E i \in 1..Len(r) : r[i] = x) <=> (x = k \/ \E i \in 1..Len(q) : q[i] = x)
  <2>1. ASSUME NEW i \in 1..Len(r), r[i] = x
        PROVE  x = k \/ \E j \in 1..Len(q) : q[j] = x
    <3>1. CASE i = Len(q) + 1
      BY <1>1, <2>1, <3>1
    <3>2. CASE i # Len(q) + 1
      <4>1. i \in 1..Len(q)
        BY <1>1, <1>2, <3>2
      <4> QED BY <1>1, <2>1, <4>1
    <3> QED BY <3>1, <3>2
  <2>2. ASSUME x = k
        PROVE  \E i \in 1..Len(r) : r[i] = x
    <3>1. Len(q) + 1 \in 1..Len(r)
      BY <1>1, <1>2
    <3> QED BY <1>1, <2>2, <3>1
  <2>3. ASSUME NEW i \in 1..Len(q), q[i] = x
        PROVE  \E j \in 1..Len(r) : r[j] = x
    <3>1. i \in 1..Len(r)
      BY <1>1, <1>2
    <3> QED BY <1>1, <2>3, <3>1
  <2> QED BY <2>1, <2>2, <2>3
<1> QED BY <1>3, <1>4 DEF r

(* Taking the first key of a queue on which no key is twice.                *)
LEMMA TailWithoutHead ==
  ASSUME NEW q \in Seq(Key), q # <<>>,
         \A i, j \in 1..Len(q) : q[i] = q[j] => i = j
  PROVE  LET r == Tail(q) IN
         /\ \A i, j \in 1..Len(r) : r[i] = r[j] => i = j
         /\ \A x \in Key : (\E i \in 1..Len(r) : r[i] = x)
                             <=> (x # Head(q) /\ \E i \in 1..Len(q) : q[i] = x)
<1> DEFINE r == Tail(q)
<1>1. /\ r \in Seq(Key)
      /\ Len(r) = Len(q) - 1
      /\ \A i \in 1..Len(r) : r[i] = q[i + 1]
      /\ Head(q) = q[1]
      /\ Len(q) \in Nat
      /\ Len(q) >= 1
  OBVIOUS
<1> HIDE DEF r
<1>2. \A i, j \in 1..Len(r) : r[i] = r[j] => i = j
  <2> SUFFICES ASSUME NEW i \in 1..Len(r), NEW j \in 1..Len(r), r[i] = r[j]
               PROVE  i = j
    OBVIOUS
  <2>1. i + 1 \in 1..Len(q) /\ j + 1 \in 1..Len(q)
    BY <1>1
  <2>2. q[i + 1] = q[j + 1]
    BY <1>1
  <2>3. i + 1 = j + 1
    BY <2>1, <2>2
  <2> QED BY <2>3
<1>3. ASSUME NEW x \in Key
      PROVE  (\E i \in 1..Len(r) : r[i] = x) <=> (x # Head(q) /\ \E i \in 1..Len(q) : q[i] = x)
  <2>1. ASSUME NEW i \in 1..Len(r), r[i] = x
        PROVE  x # Head(q) /\ \E j \in 1..Len(q) : q[j] = x
    <3>1. i + 1 \in 1..Len(q) /\ 1 \in 1..Len(q) /\ i + 1 # 1
      BY <1>1
    <3>2. q[i + 1] = x
      BY <1>1, <2>1
    <3> QED BY <1>1, <3>1, <3>2
  <2>2. ASSUME x # Head(q), NEW i \in 1..Len(q), q[i] = x
        PROVE  \E j \in 1..Len(r) : r[j] = x
    <3>1. i # 1
      BY <1>1, <2>2
    <3>2. i - 1 \in 1..Len(r) /\ (i - 1) + 1 = i
      BY <1>1, <3>1
    <3>3. r[i - 1] = x
      BY <1>1, <2>2, <3>2
    <3> QED BY <3>2, <3>3
  <2> QED BY <2>1, <2>2
<1> QED BY <1>2, <1>3 DEF r

(* The three operations keep the queue's types and its discipline.          *)
LEMMA QueueAddOK ==
  ASSUME QueueTypeOK, QueueOK, NEW k \in Key, QueueAdd(k)
  PROVE  QueueTypeOK' /\ QueueOK'
<1>1. CASE k \in dirty
  BY <1>1 DEF QueueAdd, QueueTypeOK, QueueOK, queueVars
<1>2. CASE k \notin dirty
  <2>1. dirty' = dirty \cup {k} /\ processing' = processing
    BY <1>2 DEF QueueAdd
  <2>2. CASE k \in processing
    <3>1. queue' = queue
      BY <1>2, <2>2 DEF QueueAdd
    <3> QED BY <2>1, <2>2, <3>1 DEF QueueTypeOK, QueueOK
  <2>3. CASE k \notin processing
    <3>1. queue' = Append(queue, k)
      BY <1>2, <2>3 DEF QueueAdd
    <3>2. QueueTypeOK'
      BY <2>1, <3>1 DEF QueueTypeOK
    <3>3. ~ \E i \in 1..Len(queue) : queue[i] = k
      BY <1>2 DEF QueueOK
    <3>4. /\ \A i, j \in 1..Len(queue') : queue'[i] = queue'[j] => i = j
          /\ \A x \in Key : (\E i \in 1..Len(queue') : queue'[i] = x)
                              <=> (x = k \/ \E i \in 1..Len(queue) : queue[i] = x)
      BY <3>1, <3>3, AppendNew DEF QueueTypeOK, QueueOK
    <3>5. QueueOK'
      BY <2>1, <2>3, <3>4 DEF QueueOK
    <3> QED BY <3>2, <3>5
  <2> QED BY <2>2, <2>3
<1> QED BY <1>1, <1>2

LEMMA QueueGetOK ==
  ASSUME QueueTypeOK, QueueOK, NEW k \in Key, QueueGet(k)
  PROVE  QueueTypeOK' /\ QueueOK' /\ k \in dirty /\ k \notin processing
<1>1. queue # <<>> /\ k = Head(queue) /\ queue' = Tail(queue)
  BY DEF QueueGet
<1>2. dirty' = dirty \ {k} /\ processing' = processing \cup {k}
  BY DEF QueueGet
<1>3. QueueTypeOK'
  BY <1>1, <1>2 DEF QueueTypeOK
<1>4. k \in dirty /\ k \notin processing
  <2>1. 1 \in 1..Len(queue) /\ queue[1] = k
    BY <1>1 DEF QueueTypeOK
  <2> QED BY <2>1 DEF QueueOK
<1>5. /\ \A i, j \in 1..Len(queue') : queue'[i] = queue'[j] => i = j
      /\ \A x \in Key : (\E i \in 1..Len(queue') : queue'[i] = x)
                          <=> (x # k /\ \E i \in 1..Len(queue) : queue[i] = x)
  BY <1>1, TailWithoutHead DEF QueueTypeOK, QueueOK
<1>6. QueueOK'
  BY <1>2, <1>5 DEF QueueOK
<1> QED BY <1>3, <1>4, <1>6

LEMMA QueueDoneOK ==
  ASSUME QueueTypeOK, QueueOK, NEW k \in Key, k \in processing, QueueDone(k)
  PROVE  QueueTypeOK' /\ QueueOK'
<1>1. processing' = processing \ {k} /\ dirty' = dirty
  BY DEF QueueDone
<1>2. CASE k \in dirty
  <2>1. queue' = Append(queue, k)
    BY <1>2 DEF QueueDone
  <2>2. QueueTypeOK'
    BY <1>1, <2>1 DEF QueueTypeOK
  <2>3. ~ \E i \in 1..Len(queue) : queue[i] = k
    BY DEF QueueOK
  <2>4. /\ \A i, j \in 1..Len(queue') : queue'[i] = queue'[j] => i = j
        /\ \A x \in Key : (\E i \in 1..Len(queue') : queue'[i] = x)
                            <=> (x = k \/ \E i \in 1..Len(queue) : queue[i] = x)
    BY <2>1, <2>3, AppendNew DEF QueueTypeOK, QueueOK
  <2>5. QueueOK'
    BY <1>1, <1>2, <2>4 DEF QueueOK
  <2> QED BY <2>2, <2>5
<1>3. CASE k \notin dirty
  <2>1. queue' = queue
    BY <1>3 DEF QueueDone
  <2> QED BY <1>1, <1>3, <2>1 DEF QueueTypeOK, QueueOK
<1> QED BY <1>2, <1>3

-----------------------------------------------------------------------------
(* The step of a proof that no action does what vars do not.                *)
LEMMA StutterType ==
  ASSUME TypeOK, UNCHANGED vars
  PROVE  TypeOK'
BY DEF TypeOK, QueueTypeOK, vars

LEMMA InitType == Init => TypeOK
<1> SUFFICES ASSUME Init PROVE TypeOK
  OBVIOUS
<1>1. QueueTypeOK
  BY DEF Init, QueueInit, QueueTypeOK
<1>2. log \in [Key -> Seq(Kinds)]
  <2>1. \A kd \in Kinds : <<kd>> \in Seq(Kinds)
    OBVIOUS
  <2>2. <<>> \in Seq(Kinds)
    OBVIOUS
  <2>3. {<<>>} \cup {<<kd>> : kd \in Kinds \ {"absent"}} \subseteq Seq(Kinds)
    BY <2>1, <2>2
  <2>4. log \in [Key -> {<<>>} \cup {<<kd>> : kd \in Kinds \ {"absent"}}]
    BY DEF Init
  <2> QED BY <2>3, <2>4
<1> QED BY <1>1, <1>2 DEF Init, TypeOK

-----------------------------------------------------------------------------
(* The discipline of the work queue and of the threads that take keys from  *)
(* it: a thread that works holds a key, which is marked as being processed, *)
(* and the queue is what QueueOK says.  NoSharedKey alone is not inductive: *)
(* that Get never returns a key another thread holds needs both.            *)
Busy == {"process", "send", "processed", "failed", "handled"}

Holding ==
  \A t \in Thread :
    IF pc[t] \in Busy THEN cur[t] \in Key /\ cur[t] \in processing ELSE cur[t] = None

Discipline == QueueOK /\ Holding /\ NoSharedKey

TypedDiscipline == TypeOK /\ Discipline

LEMMA InitDiscipline == Init => Discipline
<1> SUFFICES ASSUME Init PROVE Discipline
  OBVIOUS
<1>1. QueueOK
  BY DEF Init, QueueInit, QueueOK
<1>2. Holding /\ NoSharedKey
  BY DEF Init, Holding, NoSharedKey, Busy
<1> QED BY <1>1, <1>2 DEF Discipline

(* The steps that leave the queue and the threads alone.                    *)
LEMMA DisciplineKept ==
  ASSUME Discipline, UNCHANGED <<queueVars, pc, cur>>
  PROVE  Discipline'
BY DEF Discipline, QueueOK, Holding, NoSharedKey, queueVars

(* A thread that goes on with the key it holds.                             *)
LEMMA DisciplineGoesOn ==
  ASSUME TypedDiscipline, NEW t \in Thread, NEW p \in Busy,
         pc[t] \in Busy, pc' = [pc EXCEPT ![t] = p],
         UNCHANGED <<queueVars, cur>>
  PROVE  Discipline'
<1>1. QueueOK'
  BY DEF TypedDiscipline, Discipline, QueueOK, queueVars
<1>2. Holding'
  BY DEF TypedDiscipline, Discipline, TypeOK, Holding, queueVars
<1>3. NoSharedKey'
  BY DEF TypedDiscipline, Discipline, NoSharedKey
<1> QED BY <1>1, <1>2, <1>3 DEF Discipline

LEMMA NextDiscipline ==
  ASSUME TypedDiscipline, [Next]_vars
  PROVE  TypedDiscipline'
<1> USE DEF TypedDiscipline
<1>0. QueueTypeOK /\ QueueOK
  BY DEF TypeOK, Discipline
<1>1. ASSUME NEW k \in Key, NEW kd \in Kinds, ApiWrite(k, kd)
      PROVE  TypedDiscipline'
  <2>1. log' \in [Key -> Seq(Kinds)]
    BY <1>1 DEF ApiWrite, TypeOK
  <2>2. TypeOK'
    BY <1>1, <2>1 DEF ApiWrite, TypeOK, QueueTypeOK, queueVars, informerVars, threadVars
  <2>3. Discipline'
    BY <1>1, DisciplineKept DEF ApiWrite, threadVars
  <2> QED BY <2>2, <2>3
<1>2. ASSUME NEW k \in Key, NEW r \in 1..Len(log[k]), Deliver(k, r)
      PROVE  TypedDiscipline'
  <2>1. TypeOK'
    BY <1>2 DEF Deliver, TypeOK, QueueTypeOK, queueVars, threadVars
  <2>2. Discipline'
    BY <1>2, DisciplineKept DEF Deliver, threadVars
  <2> QED BY <2>1, <2>2
<1>3. ASSUME NEW k \in Key, QueueAdd(k), UNCHANGED <<pc, cur>>
      PROVE  QueueTypeOK' /\ Discipline'
  <2>1. QueueTypeOK' /\ QueueOK'
    BY <1>0, <1>3, QueueAddOK
  <2>2. processing' = processing
    BY <1>3 DEF QueueAdd, queueVars
  <2>3. Holding' /\ NoSharedKey'
    BY <1>3, <2>2 DEF Discipline, Holding, NoSharedKey
  <2> QED BY <2>1, <2>3 DEF Discipline
<1>4. CASE Notify
  <2>1. notifying \in Key
    BY <1>4 DEF Notify, TypeOK
  <2>2. QueueTypeOK' /\ Discipline'
    BY <1>3, <1>4, <2>1 DEF Notify, threadVars
  <2>3. TypeOK'
    BY <1>4, <2>2 DEF Notify, TypeOK, threadVars
  <2> QED BY <2>2, <2>3
<1>5. ASSUME NEW k \in Key, RetryDue(k)
      PROVE  TypedDiscipline'
  <2>1. QueueTypeOK' /\ Discipline'
    BY <1>3, <1>5 DEF RetryDue, threadVars
  <2>2. TypeOK'
    BY <1>5, <2>1 DEF RetryDue, TypeOK, informerVars, threadVars
  <2> QED BY <2>1, <2>2
<1>6. ASSUME NEW t \in Thread, StartThread(t)
      PROVE  TypedDiscipline'
  <2>1. TypeOK'
    BY <1>6 DEF StartThread, TypeOK, QueueTypeOK, queueVars, informerVars
  <2>2. QueueOK'
    BY <1>6 DEF StartThread, Discipline, QueueOK, queueVars
  <2>3. Holding'
    BY <1>6 DEF StartThread, Discipline, Holding, TypeOK, Busy, queueVars
  <2>4. NoSharedKey'
    BY <1>6 DEF StartThread, Discipline, NoSharedKey
  <2> QED BY <2>1, <2>2, <2>3, <2>4 DEF Discipline
<1>7. ASSUME NEW t \in Thread, NEW k \in Key, GetItem(t, k)
      PROVE  TypedDiscipline'
  <2>1. QueueTypeOK' /\ QueueOK' /\ k \notin processing
    BY <1>0, <1>7, QueueGetOK DEF GetItem
  <2>2. processing' = processing \cup {k}
    BY <1>7 DEF GetItem, QueueGet
  <2>3. TypeOK'
    BY <1>7, <2>1 DEF GetItem, TypeOK, informerVars
  <2>4. \A u \in Thread : cur[u] # k
    BY <2>1, WatcherAssumption DEF Discipline, Holding
  <2>5. Holding'
    BY <1>7, <2>2 DEF GetItem, Discipline, Holding, TypeOK, Busy
  <2>6. NoSharedKey'
    BY <1>7, <2>4 DEF GetItem, Discipline, NoSharedKey, TypeOK
  <2> QED BY <2>1, <2>3, <2>5, <2>6 DEF Discipline
<1>8. ASSUME NEW t \in Thread, ProcessFails(t)
      PROVE  TypedDiscipline'
  <2>1. TypeOK'
    BY <1>8 DEF ProcessFails, TypeOK, QueueTypeOK, queueVars, informerVars
  <2>2. Discipline'
    BY <1>8, DisciplineGoesOn DEF ProcessFails, Busy
  <2> QED BY <2>1, <2>2
<1>9. ASSUME NEW t \in Thread, ProcessInvalid(t)
      PROVE  TypedDiscipline'
  <2>1. TypeOK'
    BY <1>9 DEF ProcessInvalid, TypeOK, QueueTypeOK, queueVars, informerVars
  <2>2. Discipline'
    BY <1>9, DisciplineGoesOn DEF ProcessInvalid, Busy
  <2> QED BY <2>1, <2>2
<1>10. ASSUME NEW t \in Thread, Process(t)
       PROVE  TypedDiscipline'
  <2>1. cur[t] \in Key
    BY <1>10 DEF Process, Discipline, Holding, Busy
  <2>2. TypeOK'
    BY <1>10, <2>1 DEF Process, TypeOK, QueueTypeOK, queueVars, informerVars
  <2>3. Discipline'
    BY <1>10, DisciplineGoesOn DEF Process, Busy
  <2> QED BY <2>2, <2>3
<1>11. ASSUME NEW t \in Thread, Receive(t)
       PROVE  TypedDiscipline'
  <2>1. TypeOK'
    BY <1>11 DEF Receive, TypeOK, QueueTypeOK, queueVars, informerVars
  <2>2. Discipline'
    BY <1>11, DisciplineGoesOn DEF Receive, Busy
  <2> QED BY <2>1, <2>2
<1>12. ASSUME NEW t \in Thread, Forget(t)
       PROVE  TypedDiscipline'
  <2>1. TypeOK'
    BY <1>12 DEF Forget, TypeOK, QueueTypeOK, queueVars, informerVars
  <2>2. Discipline'
    BY <1>12, DisciplineGoesOn DEF Forget, Busy
  <2> QED BY <2>1, <2>2
<1>13. ASSUME NEW t \in Thread, Requeue(t)
       PROVE  TypedDiscipline'
  <2>1. cur[t] \in Key
    BY <1>13 DEF Requeue, Discipline, Holding, Busy
  <2>2. TypeOK'
    BY <1>13, <2>1 DEF Requeue, TypeOK, QueueTypeOK, queueVars, informerVars
  <2>3. Discipline'
    BY <1>13, DisciplineGoesOn DEF Requeue, Busy
  <2> QED BY <2>2, <2>3
<1>14. ASSUME NEW t \in Thread, Drop(t)
       PROVE  TypedDiscipline'
  <2>1. TypeOK'
    BY <1>14 DEF Drop, TypeOK, QueueTypeOK, queueVars, informerVars
  <2>2. Discipline'
    BY <1>14, DisciplineGoesOn DEF Drop, Busy
  <2> QED BY <2>1, <2>2
<1>15. ASSUME NEW t \in Thread, Done(t)
       PROVE  TypedDiscipline'
  <2>1. cur[t] \in Key /\ cur[t] \in processing /\ cur[t] # None
    BY <1>15, WatcherAssumption DEF Done, Discipline, Holding, Busy
  <2>2. QueueTypeOK' /\ QueueOK'
    BY <1>0, <1>15, <2>1, QueueDoneOK DEF Done
  <2>3. processing' = processing \ {cur[t]}
    BY <1>15 DEF Done, QueueDone
  <2>4. TypeOK'
    BY <1>15, <2>2 DEF Done, TypeOK, informerVars
  <2>5. \A u \in Thread : u # t => cur[u] # cur[t]
    BY <2>1 DEF Discipline, NoSharedKey
  <2>6. Holding'
    BY <1>15, <2>3, <2>5 DEF Done, Discipline, Holding, TypeOK, Busy
  <2>7. NoSharedKey'
    BY <1>15 DEF Done, Discipline, NoSharedKey, TypeOK
  <2> QED BY <2>2, <2>4, <2>6, <2>7 DEF Discipline
<1>16. CASE UNCHANGED vars
  <2>1. TypeOK'
    BY <1>16, StutterType
  <2>2. Discipline'
    BY <1>16, DisciplineKept DEF vars, queueVars
  <2> QED BY <2>1, <2>2
<1> QED
  BY <1>1, <1>2, <1>4, <1>5, <1>6, <1>7, <1>8, <1>9, <1>10, <1>11, <1>12, <1>13, <1>14, <1>15, <1>16
  DEF Next, Informer, ThreadStep

(* Type correctness, and the discipline it is proved with.                  *)
THEOREM DisciplineInvariant == Spec => []TypedDiscipline
<1>1. Init => TypedDiscipline
  BY InitType, InitDiscipline DEF TypedDiscipline
<1>2. TypedDiscipline /\ [Next]_vars => TypedDiscipline'
  BY NextDiscipline
<1> QED BY <1>1, <1>2, PTL DEF Spec

THEOREM TypeCorrect == Spec => []TypeOK
<1>1. TypedDiscipline => TypeOK
  BY DEF TypedDiscipline
<1> QED BY <1>1, DisciplineInvariant, PTL

(* No two worker threads of a watcher ever process the same object          *)
(* (multus_controller.go:224), however many threads it is started with.     *)
THEOREM KeysNotShared == Spec => []NoSharedKey
<1>1. TypedDiscipline => NoSharedKey
  BY DEF TypedDiscipline, Discipline
<1> QED BY <1>1, DisciplineInvariant, PTL
=============================================================================
