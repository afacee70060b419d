---------------------------- MODULE MCFscAgent ----------------------------
(***************************************************************************)
(* Instances of FscAgent for TLC: small worlds around the agent.            *)
(***************************************************************************)
EXTENDS FscAgent, TLC

Link(name, attr, parent, master, vfs) ==
  [name |-> name, attr |-> attr, parent |-> parent, master |-> master, vfs |-> vfs]

Attachment(type, itf, vlan, resource) == [Type |-> type, itf |-> itf, vlan |-> vlan, resource |-> resource]
Ipvlan(itf, vlan) == Attachment("ipvlan", itf, vlan, NoResource)
Macvlan(itf, vlan) == Attachment("macvlan", itf, vlan, NoResource)
Sriov(resource) == Attachment("sriov", NoItf, NoVlan, resource)
Bare(type) == Attachment(type, NoItf, NoVlan, NoResource)

World(links, nbrz, nads, resources) ==
  [links |-> links, nbrs |-> nbrz, nads |-> nads, resources |-> resources]

Port(dev, port) == [dev |-> dev, port |-> port]

(* Two interfaces bonded (the bond has index 10) with two sub-interfaces;   *)
(* vlan 100 belongs to attachments of two namespaces.                       *)
Slave(itf, master) == Link(Phys(itf), 1, 0, master, {})
SubLink(vlan, attr) == Link(Sub("bond0", vlan), attr, 10, 0, {})
BondLinks == {Slave("eth0", 10), Slave("eth1", 10), SubLink(100, 1), SubLink(200, 1)}
BondNbrs == Phys("eth0") :> Port("leaf1", 1) @@ Phys("eth1") :> Port("leaf2", 1)
BondNads ==
  "ns1/a" :> Ipvlan("bond0", 100) @@ "ns2/a" :> Macvlan("bond0", 100) @@ "ns1/b" :> Ipvlan("bond0", 200)

BondWorld(links, nbrz, nads) == World(links, nbrz, nads, Empty)

BondBase == BondWorld(BondLinks, BondNbrs, BondNads)
BondWorlds ==
  {BondBase,
   \* an interface leaves the bond
   BondWorld({Slave("eth0", 10), Slave("eth1", 0), SubLink(100, 1), SubLink(200, 1)}, BondNbrs, BondNads),
   \* a sub-interface is removed, the other one changes its MTU
   BondWorld({Slave("eth0", 10), Slave("eth1", 10), SubLink(100, 2)}, BondNbrs, BondNads),
   \* a cable moves to another switch, another one is unplugged
   BondWorld(BondLinks, Phys("eth0") :> Port("leaf2", 2), BondNads),
   \* an attachment takes a different vlan, one changes its type, one is spoilt
   BondWorld(BondLinks, BondNbrs,
             "ns1/a" :> Ipvlan("bond0", 200) @@ "ns2/a" :> Bare("other") @@ "ns1/b" :> Bare("invalid")),
   \* one is deleted, one loses its vlan, one its resource
   BondWorld(BondLinks, BondNbrs, "ns1/a" :> Macvlan("bond0", NoVlan) @@ "ns1/b" :> Sriov(NoResource))}
BondInitial == {BondBase}

(* A physical function with virtual functions.                              *)
PF(vfs, attr) == Link(Phys("eth2"), attr, 0, 0, vfs)
SriovNbrs == Phys("eth2") :> Port("leaf1", 1)
SriovNads == "ns1/c" :> Sriov("res")
SriovWorld(links) == World(links, SriovNbrs, SriovNads, "res" :> "eth2")

SriovBase == SriovWorld({PF({0, 100}, 1)})
SriovWorlds ==
  {SriovBase,
   SriovWorld({PF({0, 100, 200}, 1)}),
   SriovWorld({PF({200}, 1)}),
   SriovWorld({PF({100}, 2)}),
   World({PF({100}, 1), Link(Phys("eth3"), 1, 0, 0, {300})},
         SriovNbrs @@ Phys("eth3") :> Port("leaf2", 1), SriovNads, "res" :> "eth3")}
SriovInitial == {SriovBase}

(* At most one vlan on one interface to show.                               *)
SingleWorlds ==
  {SriovBase,
   SriovWorld({PF({0}, 1)}),
   SriovWorld({PF({200}, 1)}),
   SriovWorld({PF({200}, 2)}),
   World({PF({100}, 1)}, Phys("eth2") :> Port("leaf2", 1), SriovNads, "res" :> "eth2"),
   World({PF({100}, 1)}, SriovNbrs, Empty, "res" :> "eth2")}

(* Worlds for the disagreements: a second vlan is attached, a virtual       *)
(* function gets a vlan, the MTU or the port of an endpoint changes, the    *)
(* last vlan goes away.                                                     *)
OneAttached == BondWorld(BondLinks, BondNbrs, "ns1/a" :> Ipvlan("bond0", 100))
OneAttachedOnly == {OneAttached}
AttachWorlds == {OneAttached, BondWorld(BondLinks, BondNbrs, "ns1/a" :> Ipvlan("bond0", 100) @@ "ns1/b" :> Ipvlan("bond0", 200))}
VfWorlds == {SriovBase, SriovWorld({PF({0, 100, 200}, 1)})}
RefreshWorlds ==
  {SriovBase, SriovWorld({PF({0, 100}, 2)}),
   World({PF({0, 100}, 1)}, Phys("eth2") :> Port("leaf1", 2), SriovNads, "res" :> "eth2")}
GoneWorlds == {SriovBase, SriovWorld({PF({0}, 1)})}

BondAndSriov == {BondWorlds, SriovWorlds}
BondAndSriovInitial == BondInitial \cup SriovInitial

ASSUME BondAndSriovParents == ParentsKept(UNION BondAndSriov)

(* The bond is made anew, and has another index.                            *)
NewBondLinks ==
  {Slave("eth0", 11), Slave("eth1", 11), Link(Sub("bond0", 100), 1, 11, 0, {})}
ParentWorlds == {OneAttached, BondWorld(NewBondLinks, BondNbrs, "ns1/a" :> Ipvlan("bond0", 100))}
ParentHost == {ParentWorlds}

SingleHost == {SingleWorlds}
AttachHost == {AttachWorlds}
VfHost == {VfWorlds}
RefreshHost == {RefreshWorlds}
GoneHost == {GoneWorlds}

ASSUME SingleToShow == Hosts = SingleHost => OneToShow
=============================================================================
