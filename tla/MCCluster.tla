----------------------------- MODULE MCCluster -----------------------------
(***************************************************************************)
(* An instance of Cluster for TLC: one host, whose vlans come, go and move  *)
(* together, as the verdict of an agent's pass needs it (device.go:97).     *)
(***************************************************************************)
EXTENDS Cluster, TLC

Link(name, parent, master) ==
  [name |-> name, attr |-> 1, parent |-> parent, master |-> master, vfs |-> {}]
Port(dev) == [dev |-> dev, port |-> 1]
World(links, nbrz, nads) == [links |-> links, nbrs |-> nbrz, nads |-> nads, resources |-> Empty]

(* Two interfaces bonded, a sub-interface, and an attachment to it.         *)
Bond == {Link(Phys("eth0"), 0, 10), Link(Phys("eth1"), 0, 10)}
Vlan == {Link(Sub("bond0", 100), 10, 0)}
Cables == Phys("eth0") :> Port("leaf1") @@ Phys("eth1") :> Port("leaf2")
Crossed == Phys("eth0") :> Port("leaf2") @@ Phys("eth1") :> Port("leaf1")
Attached ==
  "ns1/a" :> [Type |-> "ipvlan", itf |-> "bond0", vlan |-> 100, resource |-> NoResource]

(* As it should be; without its attachment; cabled the other way round;     *)
(* without its sub-interface.                                               *)
Detached == World(Bond \cup Vlan, Cables, Empty)
Base == World(Bond \cup Vlan, Cables, Attached)
HostWorlds ==
  {Base, Detached, World(Bond \cup Vlan, Crossed, Attached), World(Bond, Cables, Attached)}
FirstWorlds == {Base, Detached}
OneHost == {HostWorlds}

OneSpec == {<<100>>}
NoStatus == [running |-> <<>>, devices |-> <<>>]
=============================================================================
