---------------------------- MODULE MCWorkLoop ----------------------------
(***************************************************************************)
(* An instance of WorkLoop for TLC: fsc-controller, with its three watchers *)
(* (fsc-agent has two).                                                     *)
(***************************************************************************)
EXTENDS WorkLoop
=============================================================================
