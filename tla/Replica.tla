------------------------------ MODULE Replica ------------------------------
(***************************************************************************)
(* What an object watcher promises to the main loop it feeds: a map that    *)
(* follows the API server.  The map may skip revisions, never goes back to  *)
(* an earlier one, never shows one that was never there or that cannot be   *)
(* parsed, and catches up with the latest one.                              *)
(***************************************************************************)
EXTENDS Naturals, Sequences

CONSTANTS Key, Kinds

VARIABLES
  log,      \* the revisions the API server has held, per key
  mirror    \* the revision the map shows, per key

replicaVars == <<log, mirror>>

Init ==
  /\ log \in [Key -> Seq(Kinds)]
  /\ mirror = [k \in Key |-> 0]

Write(k, kd) ==
  /\ log' = [log EXCEPT ![k] = Append(@, kd)]
  /\ UNCHANGED mirror

Show(k, r) ==
  /\ mirror[k] < r
  /\ log[k][r] # "invalid"
  /\ mirror' = [mirror EXCEPT ![k] = r]
  /\ UNCHANGED log

CatchUp(k) == log[k] # <<>> /\ Show(k, Len(log[k]))

Next ==
  \/ \E k \in Key, kd \in Kinds : Write(k, kd)
  \/ \E k \in Key : \E r \in 1..Len(log[k]) : Show(k, r)

SafeSpec == Init /\ [][Next]_replicaVars

Live == \A k \in Key : WF_replicaVars(CatchUp(k))

Spec == SafeSpec /\ Live
=============================================================================
