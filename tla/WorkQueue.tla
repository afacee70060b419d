----------------------------- MODULE WorkQueue -----------------------------
(***************************************************************************)
(* The work queue of k8s.io/client-go/util/workqueue, as the five object    *)
(* watchers of the two binaries use it.  It is not under src/: the three    *)
(* operations below are the ones the watchers call.                         *)
(*                                                                          *)
(*   queue       the keys waiting for a worker, in order                    *)
(*   dirty       the keys that need processing                              *)
(*   processing  the keys some worker holds between Get and Done            *)
(***************************************************************************)
EXTENDS Naturals, Sequences

CONSTANT Key          \* the keys "namespace/name" of the watched objects

VARIABLES queue, dirty, processing

queueVars == <<queue, dirty, processing>>

QueueTypeOK ==
  /\ queue \in Seq(Key)
  /\ dirty \in SUBSET Key
  /\ processing \in SUBSET Key

QueueInit ==
  /\ queue = <<>>
  /\ dirty = {}
  /\ processing = {}

(* Bug: a key that is being processed is queued like any other.             *)
QueueAddWhileProcessing(k) ==
  IF k \in dirty
  THEN UNCHANGED queueVars
  ELSE /\ dirty' = dirty \cup {k}
       /\ queue' = Append(queue, k)
       /\ UNCHANGED processing

(* queue.Add(k): a dirty key is not added again; a key being processed is   *)
(* only marked dirty, and Done puts it back.                                *)
QueueAdd(k) ==
  IF k \in dirty
  THEN UNCHANGED queueVars
  ELSE /\ dirty' = dirty \cup {k}
       /\ queue' = IF k \in processing THEN queue ELSE Append(queue, k)
       /\ UNCHANGED processing

(* Bug: Get does not mark the key as being processed.                       *)
QueueGetUnmarked(k) ==
  /\ queue # <<>>
  /\ k = Head(queue)
  /\ queue' = Tail(queue)
  /\ dirty' = dirty \ {k}
  /\ UNCHANGED processing

(* queue.Get() returning k.                                                 *)
QueueGet(k) ==
  /\ queue # <<>>
  /\ k = Head(queue)
  /\ queue' = Tail(queue)
  /\ dirty' = dirty \ {k}
  /\ processing' = processing \cup {k}

(* Bug: Done does not put a key back that became dirty meanwhile.           *)
QueueDoneForgetsDirty(k) ==
  /\ processing' = processing \ {k}
  /\ UNCHANGED <<queue, dirty>>

(* queue.Done(k).                                                           *)
QueueDone(k) ==
  /\ processing' = processing \ {k}
  /\ queue' = IF k \in dirty THEN Append(queue, k) ELSE queue
  /\ UNCHANGED dirty

(* What the watchers rely on: the queued keys are exactly the dirty ones    *)
(* nobody holds, and no key is queued twice.                                *)
QueueOK ==
  /\ \A k \in Key : k \in dirty \ processing <=> \E i \in 1..Len(queue) : queue[i] = k
  /\ \A i, j \in 1..Len(queue) : queue[i] = queue[j] => i = j
=============================================================================
