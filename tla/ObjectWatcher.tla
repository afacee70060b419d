--------------------------- MODULE ObjectWatcher ---------------------------
(***************************************************************************)
(* One object watcher of fsc-agent or fsc-controller: the node, the node    *)
(* topology, the workload, the network-attachment-definition (multus) and   *)
(* the configmap controllers share this code but for the type they watch.   *)
(*                                                                          *)
(* An informer keeps an indexer in step with the API server and puts the    *)
(* key of every changed object on a work queue.  Worker threads take a key, *)
(* read the object from the indexer, and send it over the unbuffered workCh *)
(* to the process's main loop, which keeps a map of its own: the mirror.    *)
(*                                                                          *)
(* The contents of an object are abstracted to its revision: log[k] lists   *)
(* what the API server has held under key k, and every copy of the object   *)
(* (in the indexer, in a message, in the mirror) is an index into log[k].   *)
(* Index 0 stands for "never seen", which the code does not tell from       *)
(* "deleted".                                                               *)
(***************************************************************************)
EXTENDS WorkQueue

CONSTANTS
  Thread,      \* the worker threads: workerthreads = 1 in every watcher
  Kinds,       \* what an object can be: see Kind below
  None,        \* no key
  MaxRev,      \* bound on the revisions of one object
  MaxErrors    \* bound on the failures of indexer.GetByKey

(* A deleted object is "absent"; an object parseConfig (multus) or          *)
(* sriovParseConfig (configmap) cannot parse is "invalid".                  *)
Kind == {"absent", "valid", "invalid"}

MaxRetries == 5

ASSUME WatcherAssumption ==
  /\ None \notin Key
  /\ Kinds \subseteq Kind
  /\ MaxRev \in Nat
  /\ MaxErrors \in Nat

VARIABLES
  log,        \* the API server: the history of every object
  indexer,    \* c.indexer: the revision the informer's store holds
  unlisted,   \* the keys of the informer's initial list it has not popped
  notifying,  \* the key whose event handler the informer is about to call
  waiting,    \* keys waiting in AddRateLimited
  requeues,   \* queue.NumRequeues(key)
  pc,         \* what each worker thread does
  cur,        \* the key each worker thread holds
  msg,        \* the revision each worker thread is sending
  mirror,     \* the main loop's map: the revision it holds
  errors      \* the number of failures of GetByKey so far

informerVars == <<indexer, unlisted, notifying>>
threadVars == <<pc, cur, msg>>
vars == <<queue, dirty, processing, log, indexer, unlisted, notifying, waiting,
          requeues, pc, cur, msg, mirror, errors>>

KindOf(k, r) == IF r = 0 THEN "absent" ELSE log[k][r]

-----------------------------------------------------------------------------
(* The initial list of the informer is whatever the API server holds.       *)
Init ==
  /\ QueueInit
  /\ log \in [Key -> {<<>>} \cup {<<kd>> : kd \in Kinds \ {"absent"}}]
  /\ indexer = [k \in Key |-> 0]
  /\ unlisted = {k \in Key : log[k] # <<>>}
  /\ notifying = None
  /\ waiting = {}
  /\ requeues = [k \in Key |-> 0]
  /\ pc = [t \in Thread |-> "start"]
  /\ cur = [t \in Thread |-> None]
  /\ msg = [t \in Thread |-> 0]
  /\ mirror = [k \in Key |-> 0]
  /\ errors = 0

(* The environment: an object is created, changed or deleted.               *)
ApiWrite(k, kd) ==
  /\ Len(log[k]) < MaxRev
  /\ kd = "absent" => KindOf(k, Len(log[k])) # "absent"
  /\ log' = [log EXCEPT ![k] = Append(@, kd)]
  /\ UNCHANGED <<queueVars, informerVars, waiting, requeues, threadVars, mirror, errors>>

(* The informer pops a delta: the indexer moves to a later revision (the    *)
(* next one of the watch, or any later one when the informer lists again).  *)
Deliver(k, r) ==
  /\ notifying = None
  /\ indexer[k] < r
  /\ indexer' = [indexer EXCEPT ![k] = r]
  /\ unlisted' = unlisted \ {k}
  /\ notifying' = k
  /\ UNCHANGED <<queueVars, log, waiting, requeues, threadVars, mirror, errors>>

(* AddFunc, UpdateFunc or DeleteFunc: all three put the key on the queue.   *)
Notify ==
  /\ notifying # None
  /\ QueueAdd(notifying)
  /\ notifying' = None
  /\ UNCHANGED <<log, indexer, unlisted, waiting, requeues, threadVars, mirror, errors>>

(* AddRateLimited's delay is over.                                          *)
RetryDue(k) ==
  /\ k \in waiting
  /\ QueueAdd(k)
  /\ waiting' = waiting \ {k}
  /\ UNCHANGED <<log, informerVars, requeues, threadVars, mirror, errors>>

-----------------------------------------------------------------------------
(* Run starts the worker threads once HasSynced: the initial list popped.   *)
StartThread(t) ==
  /\ pc[t] = "start"
  /\ unlisted = {}
  /\ pc' = [pc EXCEPT ![t] = "idle"]
  /\ UNCHANGED <<queueVars, log, informerVars, waiting, requeues, cur, msg, mirror, errors>>

(* processNextItem: queue.Get.                                              *)
GetItem(t, k) ==
  /\ pc[t] = "idle"
  /\ QueueGet(k)
  /\ pc' = [pc EXCEPT ![t] = "process"]
  /\ cur' = [cur EXCEPT ![t] = k]
  /\ UNCHANGED <<log, informerVars, waiting, requeues, msg, mirror, errors>>

(* process: GetByKey fails and the error is returned.                       *)
ProcessFails(t) ==
  /\ pc[t] = "process"
  /\ errors < MaxErrors
  /\ errors' = errors + 1
  /\ pc' = [pc EXCEPT ![t] = "failed"]
  /\ UNCHANGED <<queueVars, log, informerVars, waiting, requeues, cur, msg, mirror>>

(* process: the object does not parse; that is logged and no error.         *)
ProcessInvalid(t) ==
  /\ pc[t] = "process"
  /\ KindOf(cur[t], indexer[cur[t]]) = "invalid"
  /\ pc' = [pc EXCEPT ![t] = "processed"]
  /\ UNCHANGED <<queueVars, log, informerVars, waiting, requeues, cur, msg, mirror, errors>>

(* Bug: an object that does not parse is sent all the same.                 *)
ProcessUnparsed(t) ==
  /\ pc[t] = "process"
  /\ msg' = [msg EXCEPT ![t] = indexer[cur[t]]]
  /\ pc' = [pc EXCEPT ![t] = "send"]
  /\ UNCHANGED <<queueVars, log, informerVars, waiting, requeues, cur, mirror, errors>>

(* process: build the Update or the Delete message and block on workCh.     *)
Process(t) ==
  /\ pc[t] = "process"
  /\ KindOf(cur[t], indexer[cur[t]]) # "invalid"
  /\ msg' = [msg EXCEPT ![t] = indexer[cur[t]]]
  /\ pc' = [pc EXCEPT ![t] = "send"]
  /\ UNCHANGED <<queueVars, log, informerVars, waiting, requeues, cur, mirror, errors>>

(* The main loop receives the message and updates its map.                  *)
Receive(t) ==
  /\ pc[t] = "send"
  /\ mirror' = [mirror EXCEPT ![cur[t]] = msg[t]]
  /\ pc' = [pc EXCEPT ![t] = "processed"]
  /\ UNCHANGED <<queueVars, log, informerVars, waiting, requeues, cur, msg, errors>>

(* Bug: a success takes one failure back instead of forgetting them all.    *)
ForgetOne(t) ==
  /\ pc[t] = "processed"
  /\ requeues' = [requeues EXCEPT ![cur[t]] = @ - 1]
  /\ pc' = [pc EXCEPT ![t] = "handled"]
  /\ UNCHANGED <<queueVars, log, informerVars, waiting, cur, msg, mirror, errors>>

(* handleErr(nil, key): forget the key's failures.                          *)
Forget(t) ==
  /\ pc[t] = "processed"
  /\ requeues' = [requeues EXCEPT ![cur[t]] = 0]
  /\ pc' = [pc EXCEPT ![t] = "handled"]
  /\ UNCHANGED <<queueVars, log, informerVars, waiting, cur, msg, mirror, errors>>

(* handleErr(err, key) with retries left: queue the key again, later.       *)
Requeue(t) ==
  /\ pc[t] = "failed"
  /\ requeues[cur[t]] < MaxRetries
  /\ requeues' = [requeues EXCEPT ![cur[t]] = @ + 1]
  /\ waiting' = waiting \cup {cur[t]}
  /\ pc' = [pc EXCEPT ![t] = "handled"]
  /\ UNCHANGED <<queueVars, log, informerVars, cur, msg, mirror, errors>>

(* Bug: one retry less than promised.                                       *)
DropEarly(t) ==
  /\ pc[t] = "failed"
  /\ requeues[cur[t]] >= MaxRetries - 1
  /\ requeues' = [requeues EXCEPT ![cur[t]] = 0]
  /\ pc' = [pc EXCEPT ![t] = "handled"]
  /\ UNCHANGED <<queueVars, log, informerVars, waiting, cur, msg, mirror, errors>>

(* handleErr(err, key) without: the key is dropped.                         *)
Drop(t) ==
  /\ pc[t] = "failed"
  /\ requeues[cur[t]] >= MaxRetries
  /\ requeues' = [requeues EXCEPT ![cur[t]] = 0]
  /\ pc' = [pc EXCEPT ![t] = "handled"]
  /\ UNCHANGED <<queueVars, log, informerVars, waiting, cur, msg, mirror, errors>>

(* The deferred queue.Done(key).                                            *)
Done(t) ==
  /\ pc[t] = "handled"
  /\ QueueDone(cur[t])
  /\ pc' = [pc EXCEPT ![t] = "idle"]
  /\ cur' = [cur EXCEPT ![t] = None]
  /\ UNCHANGED <<log, informerVars, waiting, requeues, msg, mirror, errors>>

-----------------------------------------------------------------------------
Informer == Notify \/ \E k \in Key : \E r \in 1..Len(log[k]) : Deliver(k, r)

ThreadStep(t) ==
  \/ StartThread(t)
  \/ \E k \in Key : GetItem(t, k)
  \/ ProcessInvalid(t) \/ Process(t) \/ Receive(t)
  \/ Forget(t) \/ Requeue(t) \/ Drop(t) \/ Done(t)

Next ==
  \/ \E k \in Key, kd \in Kinds : ApiWrite(k, kd)
  \/ Informer
  \/ \E k \in Key : RetryDue(k)
  \/ \E t \in Thread : ThreadStep(t) \/ ProcessFails(t)

(* The goroutines of the informer, of the delayed queue and of the workers  *)
(* run; the main loop serves the channel (WorkLoop.tla).  Nothing forces    *)
(* the cluster to change or GetByKey to fail.                               *)
Fairness ==
  /\ WF_vars(Informer)
  /\ \A k \in Key : WF_vars(RetryDue(k))
  /\ \A t \in Thread : WF_vars(ThreadStep(t))

Spec == Init /\ [][Next]_vars /\ Fairness

-----------------------------------------------------------------------------
TypeOK ==
  /\ QueueTypeOK
  /\ log \in [Key -> Seq(Kinds)]
  /\ indexer \in [Key -> Nat]
  /\ unlisted \in SUBSET Key
  /\ notifying \in Key \cup {None}
  /\ waiting \in SUBSET Key
  /\ requeues \in [Key -> Nat]
  /\ pc \in [Thread -> {"start", "idle", "process", "send", "processed", "failed", "handled"}]
  /\ cur \in [Thread -> Key \cup {None}]
  /\ msg \in [Thread -> Nat]
  /\ mirror \in [Key -> Nat]
  /\ errors \in Nat

(* "two objects with the same key are never processed in parallel"          *)
(* (multus_controller.go:224): for any number of worker threads, no two of  *)
(* them hold the same key, although the informer and the delayed queue add  *)
(* keys again while they are being processed.                               *)
NoSharedKey ==
  \A t, u \in Thread : t # u /\ cur[t] # None => cur[t] # cur[u]

(* The revision the mirror shows, or will show once the message a thread is *)
(* blocked on is received, is the indexer's: or the key is still to be      *)
(* processed, that is on the queue, about to be queued, waiting for a       *)
(* retry, or held by a thread that has not read the indexer yet.            *)
Underway(k) ==
  \/ k \in dirty \cup waiting
  \/ notifying = k
  \/ \E t \in Thread : cur[t] = k /\ pc[t] \in {"process", "failed"}

Outgoing(k) ==
  {msg[t] : t \in {u \in Thread : cur[u] = k /\ pc[u] = "send"}}

UpToDate(k) ==
  \/ KindOf(k, indexer[k]) = "invalid"
  \/ indexer[k] \in Outgoing(k)
  \/ mirror[k] = indexer[k] /\ Outgoing(k) = {}

(* No change of the indexer is lost between the informer's goroutine, the   *)
(* queue, the retries and the workers, until GetByKey has failed more often *)
(* than handleErr retries ("up to 5 times", node_controller.go:172).        *)
NoLostUpdate ==
  errors <= MaxRetries => \A k \in Key : Underway(k) \/ UpToDate(k)

(* The main loop never goes back to an earlier revision of an object.       *)
NeverBackwards == [][\A k \in Key : mirror'[k] >= mirror[k]]_vars

(* Once the cluster stops changing, the mirror shows what the API server    *)
(* holds, unless that object does not parse, or GetByKey has failed more    *)
(* often than handleErr retries.                                            *)
Converged ==
  \A k \in Key : \/ mirror[k] = Len(log[k])
                 \/ KindOf(k, Len(log[k])) = "invalid"

Converges == [](errors <= MaxRetries) => <>[]Converged

(* The watcher keeps the promise of Replica: its safety part whatever       *)
(* fails, its liveness as long as no key is dropped.                        *)
Abstract == INSTANCE Replica WITH Key <- Key, Kinds <- Kinds, log <- log, mirror <- mirror

ImplementsReplica == Abstract!SafeSpec /\ ([](errors <= MaxRetries) => Abstract!Live)
=============================================================================
