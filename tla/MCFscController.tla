-------------------------- MODULE MCFscController --------------------------
(***************************************************************************)
(* Instances of FscController for TLC.                                      *)
(***************************************************************************)
EXTENDS FscController

(* The port of an endpoint is identified by a name, or by a word of the     *)
(* switch's own, which may be any: that it is the type's name is the case   *)
(* that matters (workload.go:35).                                           *)
At(dev, ep, vlan) == [dev |-> dev, ep |-> ep, id |-> "port", type |-> "ifname", vlan |-> vlan]
AtLocal(dev, ep, vlan) == [dev |-> dev, ep |-> ep, id |-> "local", type |-> "local", vlan |-> vlan]

NoStatus == [running |-> <<>>, devices |-> <<>>]

(* One endpoint with one vlan, one with two, and two devices.               *)
OneVlan == <<At("leaf1", "eth0", 100)>>
TwoVlans == <<At("leaf1", "eth0", 200), At("leaf1", "eth0", 100)>>
TwoDevices == <<At("leaf2", "eth1", 100), At("leaf1", "eth0", 100), At("leaf1", "eth1", 200)>>

LocalPort == <<AtLocal("leaf1", "eth0", 100), AtLocal("leaf1", "eth0", 200)>>

(* Two devices, one of them with two endpoints, one of these with two vlans.*)
Mixed ==
  <<At("leaf2", "eth1", 100), At("leaf1", "eth0", 100), At("leaf1", "eth0", 200), At("leaf1", "eth1", 200)>>

OtherVlan == <<At("leaf2", "eth1", 200)>>

EitherVlan == {<<>>, OneVlan, OtherVlan}
FewTopologies == {<<>>, OneVlan, TwoDevices}
AllTopologies == {<<>>, OneVlan, TwoVlans, TwoDevices}
NoneOrTwo == {<<>>, TwoDevices}
MixedOrLocal == {<<>>, Mixed, LocalPort}
OddTopologies == AllTopologies \cup {LocalPort}
OneTopology == {<<>>, OneVlan}

OneSpec == {<<100>>}
TwoSpecs == {<<100>>, <<200, 100>>}
ThreeSpecs == TwoSpecs \cup {<<100, 200, 100>>}
RepeatingSpecs == {<<100>>, <<200, 100, 200>>}

(* The nodes differ in nothing but their topologies.                        *)
Symmetry == Permutations(Node)
=============================================================================
