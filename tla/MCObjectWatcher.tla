-------------------------- MODULE MCObjectWatcher --------------------------
(***************************************************************************)
(* Instances of ObjectWatcher for TLC.                                      *)
(***************************************************************************)
EXTENDS ObjectWatcher, TLC

(* Plain objects: nodes, node topologies, workloads.                        *)
PlainKinds == {"absent", "valid"}

Symmetry == Permutations(Key) \cup Permutations(Thread)
=============================================================================
