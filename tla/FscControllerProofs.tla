------------------------ MODULE FscControllerProofs ------------------------
(***************************************************************************)
(* Theorems about the main loop of fsc-controller, for any workloads,       *)
(* nodes, specifications and topologies.                                    *)
(***************************************************************************)
EXTENDS FscController, FiniteSetTheorems, NaturalsInduction, TLAPS

(* What the workloads are, on the API server, on their way and in the maps. *)
Known == Specs \cup {Absent}
Copy == [vlans : Specs \cup {<<>>}, named : BOOLEAN, fresh : BOOLEAN]

ApiOK ==
  /\ api = [w \in Workload |-> api[w]]
  /\ \A w \in Workload : api[w].exists \in BOOLEAN /\ (api[w].exists => api[w].vlans \in Specs)

PendingOK ==
  /\ pending \in [Workload -> Seq(Known)]
  /\ \A w \in Workload : Len(pending[w]) <= MaxLag

TopoOK == topo \in [Node -> Topologies] /\ NodeTopology \in [Node -> Topologies]

CopiesOK ==
  /\ WorkLoad \in [DOMAIN WorkLoad -> Copy]
  /\ DOMAIN WorkLoad \subseteq Workload
  /\ \A w \in DOMAIN WorkLoad : IF WorkLoad[w].named THEN WorkLoad[w].vlans \in Specs
                                ELSE WorkLoad[w].vlans = <<>> /\ ~WorkLoad[w].fresh

(* The last revision a watcher has to bring is the current one.             *)
LastIsCurrent ==
  \A w \in Workload : pending[w] # <<>> => pending[w][Len(pending[w])] = Seen(api[w])

(* A workload that is still to compare is compared as it was when its       *)
(* status was constructed.                                                  *)
StatusOfCopy ==
  /\ pc \in {"idle", "compare"}
  /\ pc = "idle" => todo = {}
  /\ todo \subseteq DOMAIN WorkLoad /\ todo \subseteq DOMAIN new
  /\ DOMAIN new \subseteq Workload /\ DOMAIN WorkLoadStatus \subseteq Workload
  /\ \A w \in todo : new[w].running \in {<<>>, WorkLoad[w].vlans}

ControllerInv ==
  /\ ApiOK /\ PendingOK /\ TopoOK /\ CopiesOK
  /\ LastIsCurrent /\ FreshIsCurrent /\ StatusOfCopy /\ ConstructsWanted

-----------------------------------------------------------------------------
(* The revisions under way are never more than MaxLag.                      *)
LEMMA BehindKeeps ==
  ASSUME NEW seq \in Seq(Known), Len(seq) <= MaxLag, NEW v \in Known
  PROVE  /\ Append(Behind(seq), v) \in Seq(Known)
         /\ Len(Append(Behind(seq), v)) <= MaxLag
         /\ Append(Behind(seq), v) # <<>>
         /\ Append(Behind(seq), v)[Len(Append(Behind(seq), v))] = v
<1>1. MaxLag \in Nat \ {0}
  BY ControllerAssumption
<1>2. Behind(seq) \in Seq(Known) /\ Len(Behind(seq)) < MaxLag
  <2>1. CASE Len(seq) < MaxLag
    BY <2>1 DEF Behind
  <2>2. CASE ~(Len(seq) < MaxLag)
    <3>1. Len(seq) \in Nat /\ Len(seq) = MaxLag
      BY <1>1, <2>2
    <3> QED
      BY <1>1, <3>1 DEF Behind, Front
  <2> QED
    BY <2>1, <2>2
<1> QED
  BY <1>1, <1>2

(* A new revision of a workload leaves the last revision under way current. *)
LEMMA RevisionKeeps ==
  ASSUME ApiOK, PendingOK, LastIsCurrent, NEW w \in Workload, NEW object,
         object.exists \in BOOLEAN, object.exists => object.vlans \in Specs,
         NewRevision(w, object)
  PROVE  /\ ApiOK' /\ PendingOK' /\ LastIsCurrent'
         /\ api'[w] = object
         /\ \A v \in Workload : v # w => api'[v] = api[v]
<1>1. Seen(object) \in Known
  BY DEF Seen, Known
<1>2. /\ api'[w] = object
      /\ \A v \in Workload : v # w => api'[v] = api[v]
      /\ api' = [v \in Workload |-> api'[v]]
  BY DEF NewRevision, ApiOK
<1>3. ApiOK'
  BY <1>2 DEF ApiOK
<1> DEFINE longer == Append(Behind(pending[w]), Seen(object))
<1>4. pending[w] \in Seq(Known) /\ Len(pending[w]) <= MaxLag
  BY DEF PendingOK
<1>5. /\ longer \in Seq(Known) /\ Len(longer) <= MaxLag
      /\ longer # <<>> /\ longer[Len(longer)] = Seen(object)
  BY <1>1, <1>4, BehindKeeps
<1>6. pending' = [pending EXCEPT ![w] = longer]
  BY DEF NewRevision
<1> HIDE DEF longer
<1>7. PendingOK'
  BY <1>5, <1>6 DEF PendingOK
<1>8. LastIsCurrent'
  <2> SUFFICES ASSUME NEW v \in Workload, pending'[v] # <<>>
               PROVE  pending'[v][Len(pending'[v])] = Seen(api'[v])
    BY DEF LastIsCurrent, Seen
  <2>1. CASE v = w
    BY <1>2, <1>5, <1>6, <2>1 DEF PendingOK
  <2>2. CASE v # w
    BY <1>2, <1>6, <2>2 DEF PendingOK, LastIsCurrent, Seen
  <2> QED
    BY <2>1, <2>2
<1> QED
  BY <1>2, <1>3, <1>7, <1>8

(* When a workload has a new revision, the copy of it is no longer fresh,   *)
(* and the other copies are as they were.                                   *)
LEMMA OutdatedKeeps ==
  ASSUME CopiesOK, FreshIsCurrent, StatusOfCopy, NEW w \in Workload,
         WorkLoad' = Outdated(w), \A v \in Workload : v # w => api'[v] = api[v],
         UNCHANGED <<WorkLoadStatus, new, pc, todo>>
  PROVE  /\ CopiesOK' /\ FreshIsCurrent' /\ StatusOfCopy'
         /\ \A v \in DOMAIN WorkLoad : WorkLoad'[v].vlans = WorkLoad[v].vlans
<1>1. DOMAIN WorkLoad' = DOMAIN WorkLoad
  BY DEF Outdated
<1>2. ASSUME NEW v \in DOMAIN WorkLoad
      PROVE  /\ WorkLoad'[v] \in Copy
             /\ WorkLoad'[v].vlans = WorkLoad[v].vlans
             /\ WorkLoad'[v].named = WorkLoad[v].named
             /\ v = w => ~WorkLoad'[v].fresh
             /\ v # w => WorkLoad'[v] = WorkLoad[v]
             /\ ~WorkLoad[v].fresh => ~WorkLoad'[v].fresh
  <2>1. CASE v = w
    <3>1. WorkLoad'[v] = [WorkLoad[v] EXCEPT !.fresh = FALSE]
      BY <2>1 DEF Outdated
    <3>2. WorkLoad[v] \in Copy
      BY DEF CopiesOK
    <3>3. /\ WorkLoad'[v] \in Copy
          /\ WorkLoad'[v].vlans = WorkLoad[v].vlans
          /\ WorkLoad'[v].named = WorkLoad[v].named
          /\ ~WorkLoad'[v].fresh
      BY <3>1, <3>2 DEF Copy
    <3> QED
      BY <2>1, <3>3
  <2>2. CASE v # w
    BY <2>2 DEF Outdated, CopiesOK
  <2> QED
    BY <2>1, <2>2
<1>3. WorkLoad' \in [DOMAIN WorkLoad' -> Copy]
  <2>1. WorkLoad' = [v \in DOMAIN WorkLoad' |-> WorkLoad'[v]]
    BY DEF Outdated, CopiesOK
  <2> QED
    BY <1>1, <1>2, <2>1
<1>4. CopiesOK'
  BY <1>1, <1>2, <1>3 DEF CopiesOK
<1>5. FreshIsCurrent'
  BY <1>1, <1>2 DEF FreshIsCurrent, CopiesOK
<1>6. StatusOfCopy'
  BY <1>1, <1>2 DEF StatusOfCopy
<1> QED
  BY <1>2, <1>4, <1>5, <1>6

-----------------------------------------------------------------------------
(* The construction of a status.  Its loops are recursive functions on      *)
(* 0..n: that there are such functions, and what they gather, is proved by  *)
(* induction on the numbers up to which they are computed.                  *)
LEMMA SetOfNumbers ==
  ASSUME NEW S, 0 \in S, \A n \in Nat : n \in S => n + 1 \in S
  PROVE  \A n \in Nat : n \in S
<1> DEFINE T == Nat \ S
<1>1. SUFFICES ASSUME T # {} PROVE FALSE
  OBVIOUS
<1>2. PICK x \in T : \A y \in T : ~(<<y, x>> \in OpToRel(<, Nat))
  BY <1>1, WFMin, NatLessThanWellFounded
<1>3. x \in Nat /\ x # 0
  OBVIOUS
<1>4. x - 1 \in Nat /\ x - 1 < x /\ (x - 1) + 1 = x
  BY <1>3
<1>5. <<x - 1, x>> \in OpToRel(<, Nat)
  BY <1>3, <1>4 DEF OpToRel
<1> QED
  BY <1>2, <1>3, <1>4, <1>5

(* What the loops compute, index by index.                                  *)
TopologyLoop(add, built, vlan, nt) ==
  /\ add = [i \in 0..Len(nt) |-> IF i = 0 THEN built ELSE AddIfMatch(add[i - 1], vlan, nt[i])]
  /\ AddTopology(built, vlan, nt) = add[Len(nt)]

VlanLoop(add, built, vlan, nodes) ==
  /\ add = [i \in 0..Len(nodes) |->
             IF i = 0 THEN built ELSE AddTopology(add[i - 1], vlan, NodeTopology[nodes[i]])]
  /\ AddVlan(built, vlan, nodes) = add[Len(nodes)]

VlansLoop(add, vlans, order) ==
  /\ add = [i \in 0..Len(vlans) |->
             IF i = 0 THEN Nothing ELSE AddVlan(add[i - 1], vlans[i], order[i])]
  /\ AddVlans(vlans, order) = add[Len(vlans)]

(* What the loop over a topology computes, index by index.                  *)
LEMMA AddTopologyLoop ==
  ASSUME NEW built, NEW vlan, NEW nt, Len(nt) \in Nat
  PROVE  \E add : TopologyLoop(add, built, vlan, nt)
<1> DEFINE Body(d, i) == AddIfMatch(d, vlan, nt[i])
           Computed(g, n) == g = [i \in 0..n |-> IF i = 0 THEN built ELSE Body(g[i - 1], i)]
           S == {n \in Nat : \E g : Computed(g, n)}
           add == CHOOSE g : Computed(g, Len(nt))
<1>1. AddTopology(built, vlan, nt) = add[Len(nt)]
  BY DEF AddTopology
<1> HIDE DEF Body
<1>2. 0 \in S
  <2>1. Computed([i \in 0..0 |-> built], 0)
    OBVIOUS
  <2> QED
    BY <2>1
<1>3. ASSUME NEW n \in Nat, n \in S
      PROVE  n + 1 \in S
  <2>1. PICK g : Computed(g, n)
    BY <1>3
  <2> DEFINE h == [i \in 0..(n + 1) |-> IF i = n + 1 THEN Body(g[n], n + 1) ELSE g[i]]
  <2>2. ASSUME NEW i \in 0..(n + 1)
        PROVE  h[i] = IF i = 0 THEN built ELSE Body(h[i - 1], i)
    <3>1. CASE i = n + 1
      BY <3>1
    <3>2. CASE i \in 0..n
      BY <2>1, <3>2
    <3> QED
      BY <3>1, <3>2
  <2> HIDE DEF h
  <2>3. h = [i \in 0..(n + 1) |-> h[i]]
    BY DEF h
  <2>4. Computed(h, n + 1)
    BY <2>2, <2>3
  <2> QED
    BY <2>4
<1> HIDE DEF S
<1>4. Len(nt) \in S
  BY <1>2, <1>3, SetOfNumbers
<1>5. Computed(add, Len(nt))
  BY <1>4 DEF S
<1> QED
  BY <1>1, <1>5 DEF Body, TopologyLoop

(* What the loop over the nodes computes, node by node.                     *)
LEMMA AddVlanLoop ==
  ASSUME NEW built, NEW vlan, NEW nodes, Len(nodes) \in Nat
  PROVE  \E add : VlanLoop(add, built, vlan, nodes)
<1> DEFINE Body(d, i) == AddTopology(d, vlan, NodeTopology[nodes[i]])
           Computed(g, n) == g = [i \in 0..n |-> IF i = 0 THEN built ELSE Body(g[i - 1], i)]
           S == {n \in Nat : \E g : Computed(g, n)}
           add == CHOOSE g : Computed(g, Len(nodes))
<1>1. AddVlan(built, vlan, nodes) = add[Len(nodes)]
  BY DEF AddVlan
<1> HIDE DEF Body
<1>2. 0 \in S
  <2>1. Computed([i \in 0..0 |-> built], 0)
    OBVIOUS
  <2> QED
    BY <2>1
<1>3. ASSUME NEW n \in Nat, n \in S
      PROVE  n + 1 \in S
  <2>1. PICK g : Computed(g, n)
    BY <1>3
  <2> DEFINE h == [i \in 0..(n + 1) |-> IF i = n + 1 THEN Body(g[n], n + 1) ELSE g[i]]
  <2>2. ASSUME NEW i \in 0..(n + 1)
        PROVE  h[i] = IF i = 0 THEN built ELSE Body(h[i - 1], i)
    <3>1. CASE i = n + 1
      BY <3>1
    <3>2. CASE i \in 0..n
      BY <2>1, <3>2
    <3> QED
      BY <3>1, <3>2
  <2> HIDE DEF h
  <2>3. h = [i \in 0..(n + 1) |-> h[i]]
    BY DEF h
  <2>4. Computed(h, n + 1)
    BY <2>2, <2>3
  <2> QED
    BY <2>4
<1> HIDE DEF S
<1>4. Len(nodes) \in S
  BY <1>2, <1>3, SetOfNumbers
<1>5. Computed(add, Len(nodes))
  BY <1>4 DEF S
<1> QED
  BY <1>1, <1>5 DEF Body, VlanLoop

(* What the loop over the vlans computes, vlan by vlan.                      *)
LEMMA AddVlansLoop ==
  ASSUME NEW vlans, NEW order, Len(vlans) \in Nat
  PROVE  \E add : VlansLoop(add, vlans, order)
<1> DEFINE Body(d, i) == AddVlan(d, vlans[i], order[i])
           Computed(g, n) == g = [i \in 0..n |-> IF i = 0 THEN Nothing ELSE Body(g[i - 1], i)]
           S == {n \in Nat : \E g : Computed(g, n)}
           add == CHOOSE g : Computed(g, Len(vlans))
<1>1. AddVlans(vlans, order) = add[Len(vlans)]
  BY DEF AddVlans
<1> HIDE DEF Body
<1>2. 0 \in S
  <2>1. Computed([i \in 0..0 |-> Nothing], 0)
    OBVIOUS
  <2> QED
    BY <2>1
<1>3. ASSUME NEW n \in Nat, n \in S
      PROVE  n + 1 \in S
  <2>1. PICK g : Computed(g, n)
    BY <1>3
  <2> DEFINE h == [i \in 0..(n + 1) |-> IF i = n + 1 THEN Body(g[n], n + 1) ELSE g[i]]
  <2>2. ASSUME NEW i \in 0..(n + 1)
        PROVE  h[i] = IF i = 0 THEN Nothing ELSE Body(h[i - 1], i)
    <3>1. CASE i = n + 1
      BY <3>1
    <3>2. CASE i \in 0..n
      BY <2>1, <3>2
    <3> QED
      BY <3>1, <3>2
  <2> HIDE DEF h
  <2>3. h = [i \in 0..(n + 1) |-> h[i]]
    BY DEF h
  <2>4. Computed(h, n + 1)
    BY <2>2, <2>3
  <2> QED
    BY <2>4
<1> HIDE DEF S
<1>4. Len(vlans) \in S
  BY <1>2, <1>3, SetOfNumbers
<1>5. Computed(add, Len(vlans))
  BY <1>4 DEF S
<1> QED
  BY <1>1, <1>5 DEF Body, VlansLoop

(* What is built over some names: k has the names of devices and endpoints, *)
(* the identifiers of ports and their types, and the vlans.                 *)
Endpoints(k) == [name : k.eps, id : k.ports, vlans : Seq(k.ids)]
Devices(k) == [name : k.devs, endpoints : Seq(Endpoints(k))]
Builts(k) ==
  [devices : Seq(Devices(k)), idxNewDev : Nat, idxNewEpPerDev : UNION {[1..n -> Nat] : n \in Nat},
   panicked : BOOLEAN]

Matching(k, t) ==
  t.dev \in k.devs /\ t.ep \in k.eps /\ t.id \in k.ports /\ t.type \in k.types /\ t.vlan \in k.ids

Over(k, nt) == Len(nt) \in Nat /\ \A i \in 1..Len(nt) : Matching(k, nt[i])

(* The indices are those of the next device and of the next endpoint of     *)
(* each device.                                                             *)
EndpointsIndexed(built) ==
  /\ built.idxNewEpPerDev \in [1..Len(built.devices) -> Nat]
  /\ \A i \in 1..Len(built.devices) :
       built.idxNewEpPerDev[i] = Len(built.devices[i].endpoints) + 1

Indexed(built) == built.idxNewDev = Len(built.devices) + 1 /\ EndpointsIndexed(built)

Sound(k, built) == built \in Builts(k) /\ (~built.panicked => Indexed(built))

(* Devices show the place p; the place of a match, and the places that a    *)
(* topology has on a vlan.                                                  *)
EndpointShows(name, endpoint, p) ==
  \E j \in 1..Len(endpoint.vlans) : p = <<name, endpoint.name, endpoint.vlans[j]>>

DeviceShows(device, p) ==
  \E j \in 1..Len(device.endpoints) : EndpointShows(device.name, device.endpoints[j], p)

Shows(devices, p) == \E i \in 1..Len(devices) : DeviceShows(devices[i], p)

Place(t) == <<t.dev, t.ep, t.vlan>>

PlacesOn(nt, vlan) == {Place(nt[i]) : i \in {j \in 1..Len(nt) : nt[j].vlan = vlan}}

(* What is built after adds the places P to what was built before, or       *)
(* panics, which it does not if no type is an identifier.                   *)
Adds(k, before, after, P) ==
  /\ after \in Builts(k)
  /\ ~after.panicked =>
       /\ ~before.panicked /\ Indexed(after)
       /\ \A p : Shows(after.devices, p) <=> Shows(before.devices, p) \/ p \in P
  /\ k.types \cap k.ports = {} /\ ~before.panicked => ~after.panicked

(* One addition after the other.                                            *)
LEMMA AddsNothing ==
  ASSUME NEW k, NEW built, Sound(k, built)
  PROVE  Adds(k, built, built, {})
BY DEF Adds, Sound

LEMMA AddsMore ==
  ASSUME NEW k, NEW a, NEW b, NEW c, NEW P, NEW Q, Adds(k, a, b, P), Adds(k, b, c, Q)
  PROVE  Adds(k, a, c, P \cup Q)
<1>1. ASSUME ~c.panicked
      PROVE  \A p : Shows(c.devices, p) <=> Shows(a.devices, p) \/ p \in P \cup Q
  BY <1>1 DEF Adds
<1> QED
  BY <1>1 DEF Adds

LEMMA AddsSound ==
  ASSUME NEW k, NEW a, NEW b, NEW P, Adds(k, a, b, P)
  PROVE  Sound(k, b)
BY DEF Adds, Sound

(* What the parts of what is built are.                                     *)
LEMMA BuiltTyped ==
  ASSUME NEW k, NEW built \in Builts(k), NEW i \in 1..Len(built.devices)
  PROVE  /\ built.devices \in Seq(Devices(k)) /\ Len(built.devices) \in Nat
         /\ built.devices[i] \in Devices(k)
         /\ built.devices[i].endpoints \in Seq(Endpoints(k))
         /\ Len(built.devices[i].endpoints) \in Nat
<1>1. built.devices \in Seq(Devices(k)) /\ Len(built.devices) \in Nat
  BY DEF Builts
<1>2. built.devices[i] \in Devices(k)
  BY <1>1
<1>3. \A device \in Devices(k) : device.endpoints \in Seq(Endpoints(k))
  BY DEF Devices
<1> QED
  BY <1>1, <1>2, <1>3

LEMMA EndpointTyped ==
  ASSUME NEW k, NEW t, Matching(k, t), NEW vlans \in Seq(k.ids)
  PROVE  [name |-> t.ep, id |-> t.id, vlans |-> vlans] \in Endpoints(k)
BY DEF Endpoints, Matching

(* On sequences.                                                            *)
LEMMA SequenceOfOne ==
  ASSUME NEW S, NEW x \in S
  PROVE  <<x>> \in Seq(S) /\ <<>> \in Seq(S)
OBVIOUS

LEMMA LastReplaced ==
  ASSUME NEW S, NEW s \in Seq(S), NEW x \in S, NEW y \in S
  PROVE  [Append(s, x) EXCEPT ![Len(s) + 1] = y] = Append(s, y)
<1> DEFINE before == Append(s, x)
           after == Append(s, y)
<1>1. /\ before \in Seq(S) /\ Len(before) = Len(s) + 1 /\ after \in Seq(S) /\ Len(after) = Len(s) + 1
      /\ \A j \in 1..Len(s) : before[j] = after[j]
      /\ after[Len(s) + 1] = y /\ Len(s) \in Nat
  OBVIOUS
<1> HIDE DEF before, after
<1>2. [before EXCEPT ![Len(s) + 1] = y] \in Seq(S) /\ Len([before EXCEPT ![Len(s) + 1] = y]) = Len(s) + 1
  BY <1>1
<1>3. \A j \in 1..(Len(s) + 1) : [before EXCEPT ![Len(s) + 1] = y][j] = after[j]
  BY <1>1
<1>4. [before EXCEPT ![Len(s) + 1] = y] = after
  BY <1>1, <1>2, <1>3
<1> QED
  BY <1>4 DEF before, after

(* Another list of endpoints for device i.                                  *)
WithEndpoints(built, i, list) == [built EXCEPT !.devices[i].endpoints = list]

OnlyDevice(i, before, after) ==
  /\ Len(after.devices) = Len(before.devices) /\ after.devices[i].name = before.devices[i].name
  /\ \A j \in 1..Len(before.devices) : j # i => after.devices[j] = before.devices[j]
  /\ after.idxNewDev = before.idxNewDev /\ after.panicked = before.panicked

Replaced(k, i, before, list, after) ==
  /\ after \in Builts(k) /\ after.devices[i].endpoints = list
  /\ after.idxNewEpPerDev = before.idxNewEpPerDev /\ OnlyDevice(i, before, after)

LEMMA EndpointsReplaced ==
  ASSUME NEW k, NEW built \in Builts(k), NEW i \in 1..Len(built.devices), NEW list \in Seq(Endpoints(k))
  PROVE  Replaced(k, i, built, list, WithEndpoints(built, i, list))
<1> DEFINE after == WithEndpoints(built, i, list)
           device == [built.devices[i] EXCEPT !.endpoints = list]
           devices == [built.devices EXCEPT ![i] = device]
<1>1. built.devices \in Seq(Devices(k)) /\ Len(built.devices) \in Nat /\ built.devices[i] \in Devices(k)
  BY BuiltTyped
<1>2. after = [built EXCEPT !.devices = devices]
  BY DEF WithEndpoints
<1> HIDE DEF after
<1>3. device \in Devices(k) /\ device.name = built.devices[i].name /\ device.endpoints = list
  BY <1>1 DEF Devices
<1> HIDE DEF device
<1>4. /\ devices \in Seq(Devices(k)) /\ Len(devices) = Len(built.devices) /\ devices[i] = device
      /\ \A j \in 1..Len(built.devices) : j # i => devices[j] = built.devices[j]
  BY <1>1, <1>3
<1> HIDE DEF devices
<1>5. /\ after \in Builts(k) /\ after.devices = devices
      /\ after.idxNewEpPerDev = built.idxNewEpPerDev
      /\ after.idxNewDev = built.idxNewDev /\ after.panicked = built.panicked
  BY <1>2, <1>4 DEF Builts
<1> QED
  BY <1>3, <1>4, <1>5 DEF after, OnlyDevice, Replaced

(* A new endpoint has the vlan of its match: it is at the index of its      *)
(* device.                                                                  *)
NewEntry(t) == [name |-> t.ep, id |-> t.id, vlans |-> <<t.vlan>>]

LEMMA NewEndpointBuilds ==
  ASSUME NEW k, NEW built \in Builts(k), EndpointsIndexed(built), ~built.panicked,
         NEW i \in 1..Len(built.devices), NEW t, Matching(k, t)
  PROVE  /\ NewEndpoint(built, i, t) \in Builts(k) /\ EndpointsIndexed(NewEndpoint(built, i, t))
         /\ NewEndpoint(built, i, t).devices[i].endpoints =
              Append(built.devices[i].endpoints, NewEntry(t))
         /\ OnlyDevice(i, built, NewEndpoint(built, i, t))
<1> DEFINE list == built.devices[i].endpoints
           n == Len(list) + 1
           bare == [name |-> t.ep, id |-> t.id, vlans |-> <<>>]
           full == NewEntry(t)
           one == AppendEndpoint(built, i, t)
           two == AppendVlan(one, i, t.vlan)
           after == NewEndpoint(built, i, t)
           more == Append(list, full)
<1>1. /\ list \in Seq(Endpoints(k)) /\ Len(list) \in Nat /\ Len(built.devices) \in Nat
      /\ built.idxNewEpPerDev \in [1..Len(built.devices) -> Nat] /\ built.idxNewEpPerDev[i] = n
  BY BuiltTyped DEF EndpointsIndexed
<1>2. bare \in Endpoints(k) /\ full \in Endpoints(k)
  <2>1. <<t.vlan>> \in Seq(k.ids) /\ <<>> \in Seq(k.ids)
    BY SequenceOfOne DEF Matching
  <2> HIDE DEF bare, full
  <2>2. \A vlans \in Seq(k.ids) : [name |-> t.ep, id |-> t.id, vlans |-> vlans] \in Endpoints(k)
    BY EndpointTyped
  <2> QED
    BY <2>1, <2>2, Zenon DEF bare, full, NewEntry
<1>3. full = [bare EXCEPT !.vlans = Append(@, t.vlan)]
  BY DEF NewEntry
<1>4. one = WithEndpoints(built, i, Append(list, bare))
  BY DEF AppendEndpoint, WithEndpoints
<1> HIDE DEF bare, full, one, list
<1>5. /\ Append(list, bare) \in Seq(Endpoints(k)) /\ more \in Seq(Endpoints(k))
      /\ Len(Append(list, bare)) = n /\ Append(list, bare)[n] = bare
      /\ Len(more) = n /\ n \in Nat
  BY <1>1, <1>2
<1>6. [Append(list, bare) EXCEPT ![n] = full] = more
  BY <1>1, <1>2, LastReplaced
<1> HIDE DEF more
<1>7. /\ one \in Builts(k) /\ one.devices[i].endpoints = Append(list, bare)
      /\ one.idxNewEpPerDev = built.idxNewEpPerDev /\ OnlyDevice(i, built, one)
  <2> DEFINE replaced == WithEndpoints(built, i, Append(list, bare))
  <2>1. Replaced(k, i, built, Append(list, bare), replaced)
    BY <1>5, EndpointsReplaced, Zenon
  <2> QED
    BY <1>4, <2>1, Zenon DEF Replaced
<1>8. i \in 1..Len(one.devices)
  BY <1>7, Zenon DEF OnlyDevice
<1>9. two = [one EXCEPT !.devices[i].endpoints[n].vlans = Append(@, t.vlan)]
  <2>1. one.idxNewEpPerDev[i] = n /\ Len(one.devices[i].endpoints) = n
    BY <1>1, <1>5, <1>7
  <2>2. ~(n > n)
    BY <1>5
  <2> HIDE DEF n
  <2> QED
    BY <2>1, <2>2, Zenon DEF AppendVlan
<1>10. two = WithEndpoints(one, i, more)
  <2>1. two = [one EXCEPT !.devices[i].endpoints =
                 [one.devices[i].endpoints EXCEPT ![n] = [one.devices[i].endpoints[n] EXCEPT !.vlans = Append(@, t.vlan)]]]
    BY <1>9
  <2> HIDE DEF two, n
  <2> QED
    BY <1>3, <1>5, <1>6, <1>7, <2>1, Zenon DEF WithEndpoints
<1> HIDE DEF two
<1>11. /\ two \in Builts(k) /\ two.devices[i].endpoints = more
       /\ two.idxNewEpPerDev = one.idxNewEpPerDev /\ OnlyDevice(i, one, two)
  <2> DEFINE replaced == WithEndpoints(one, i, more)
  <2>1. one \in Builts(k)
    BY <1>7
  <2>2. Replaced(k, i, one, more, replaced)
    BY <1>5, <1>8, <2>1, EndpointsReplaced, Zenon
  <2> QED
    BY <1>10, <2>2, Zenon DEF Replaced
<1>12. after = [two EXCEPT !.idxNewEpPerDev = [two.idxNewEpPerDev EXCEPT ![i] = @ + 1]]
  BY DEF NewEndpoint, CountEndpoint, two, one
<1> HIDE DEF after
<1>13. /\ [built.idxNewEpPerDev EXCEPT ![i] = @ + 1] \in [1..Len(built.devices) -> Nat]
       /\ [built.idxNewEpPerDev EXCEPT ![i] = @ + 1][i] = n + 1
       /\ \A j \in 1..Len(built.devices) :
            j # i => [built.idxNewEpPerDev EXCEPT ![i] = @ + 1][j] = built.idxNewEpPerDev[j]
  BY <1>1, <1>5
<1> DEFINE counted == [built.idxNewEpPerDev EXCEPT ![i] = @ + 1]
<1>14. after = [two EXCEPT !.idxNewEpPerDev = counted] /\ counted \in UNION {[1..m -> Nat] : m \in Nat}
  BY <1>1, <1>7, <1>11, <1>12, <1>13
<1> HIDE DEF counted
<1>15. /\ after \in Builts(k) /\ after.devices = two.devices /\ after.idxNewEpPerDev = counted
       /\ after.idxNewDev = two.idxNewDev /\ after.panicked = two.panicked
  BY <1>11, <1>14 DEF Builts
<1>16. OnlyDevice(i, built, after)
  BY <1>7, <1>11, <1>15 DEF OnlyDevice
<1>17. EndpointsIndexed(after)
  <2>1. after.idxNewEpPerDev \in [1..Len(after.devices) -> Nat]
    BY <1>13, <1>15, <1>16 DEF OnlyDevice, counted
  <2>2. ASSUME NEW j \in 1..Len(built.devices)
        PROVE  after.idxNewEpPerDev[j] = Len(after.devices[j].endpoints) + 1
    <3>1. CASE j = i
      BY <1>5, <1>11, <1>13, <1>15, <3>1 DEF counted
    <3>2. CASE j # i
      <4>1. counted[j] = built.idxNewEpPerDev[j] /\ after.devices[j] = built.devices[j]
        BY <1>13, <1>16, <3>2 DEF OnlyDevice, counted
      <4> QED
        BY <1>15, <4>1 DEF EndpointsIndexed
    <3> QED
      BY <3>1, <3>2
  <2> QED
    BY <1>16, <2>1, <2>2 DEF EndpointsIndexed, OnlyDevice
<1> QED
  BY <1>11, <1>15, <1>16, <1>17 DEF full, list, more, after

LEMMA NewEndpointAdds ==
  ASSUME NEW k, NEW built \in Builts(k), EndpointsIndexed(built), ~built.panicked,
         NEW i \in 1..Len(built.devices), NEW t, Matching(k, t), built.devices[i].name = t.dev
  PROVE  /\ NewEndpoint(built, i, t) \in Builts(k) /\ EndpointsIndexed(NewEndpoint(built, i, t))
         /\ OnlyDevice(i, built, NewEndpoint(built, i, t))
         /\ \A p : Shows(NewEndpoint(built, i, t).devices, p) <=> Shows(built.devices, p) \/ p = Place(t)
<1> DEFINE list == built.devices[i].endpoints
           full == NewEntry(t)
           more == Append(list, full)
           after == NewEndpoint(built, i, t)
<1>1. list \in Seq(Endpoints(k)) /\ Len(list) \in Nat
  BY BuiltTyped
<1>2. \A p : EndpointShows(t.dev, full, p) <=> p = Place(t)
  <2>1. full.name = t.ep /\ Len(full.vlans) = 1 /\ full.vlans[1] = t.vlan
    BY DEF NewEntry
  <2> QED
    BY <2>1 DEF EndpointShows, Place
<1>3. /\ after \in Builts(k) /\ EndpointsIndexed(after) /\ OnlyDevice(i, built, after)
      /\ after.devices[i].endpoints = more
  BY NewEndpointBuilds, Zenon
<1> HIDE DEF full, list, after
<1>4. /\ Len(more) = Len(list) + 1 /\ more[Len(list) + 1] = full
      /\ \A j \in 1..Len(list) : more[j] = list[j]
      /\ 1..Len(more) = 1..Len(list) \cup {Len(list) + 1}
  BY <1>1
<1> HIDE DEF more
<1>5. \A p : DeviceShows(after.devices[i], p) <=> DeviceShows(built.devices[i], p) \/ p = Place(t)
  <2>1. \A p : DeviceShows(after.devices[i], p) <=>
          \E j \in 1..Len(list) \cup {Len(list) + 1} : EndpointShows(t.dev, more[j], p)
    BY <1>3, <1>4 DEF DeviceShows, OnlyDevice
  <2>2. \A p : DeviceShows(built.devices[i], p) <=> \E j \in 1..Len(list) : EndpointShows(t.dev, list[j], p)
    BY DEF DeviceShows, list
  <2> QED
    BY <1>2, <1>4, <2>1, <2>2, Zenon
<1>6. \A p : Shows(after.devices, p) <=> Shows(built.devices, p) \/ p = Place(t)
  BY <1>3, <1>5, Zenon DEF Shows, OnlyDevice
<1> QED
  BY <1>3, <1>6 DEF after

(* A new device has the endpoint of its match.                              *)
LEMMA NewDeviceAdds ==
  ASSUME NEW k, NEW built, Sound(k, built), ~built.panicked, NEW t, Matching(k, t)
  PROVE  Adds(k, built, NewDevice(built, t), {Place(t)})
<1> DEFINE i == Len(built.devices) + 1
           device == [name |-> t.dev, endpoints |-> <<>>]
           devices == Append(built.devices, device)
           counts == Put(built.idxNewEpPerDev, i, 1)
           next == [built EXCEPT !.devices = devices, !.idxNewEpPerDev = counts]
           after == NewEndpoint(next, i, t)
           result == NewDevice(built, t)
<1>1. /\ built \in Builts(k) /\ built.devices \in Seq(Devices(k)) /\ Len(built.devices) \in Nat
      /\ built.idxNewDev = i /\ built.idxNewEpPerDev \in [1..Len(built.devices) -> Nat]
      /\ EndpointsIndexed(built) /\ i \in Nat
  BY DEF Sound, Builts, Indexed, EndpointsIndexed
<1>2. device \in Devices(k) /\ device.name = t.dev /\ device.endpoints = <<>>
  BY DEF Devices, Matching
<1> HIDE DEF device
<1>3. /\ devices \in Seq(Devices(k)) /\ Len(devices) = i /\ devices[i] = device
      /\ \A j \in 1..Len(built.devices) : devices[j] = built.devices[j]
      /\ 1..i = 1..Len(built.devices) \cup {i}
  BY <1>1, <1>2
<1>4. counts \in [1..i -> Nat] /\ counts[i] = 1
      /\ \A j \in 1..Len(built.devices) : counts[j] = built.idxNewEpPerDev[j]
  BY <1>1, <1>3 DEF Put
<1>5. result = [after EXCEPT !.idxNewDev = @ + 1]
  BY <1>1, <1>3 DEF NewDevice, device
<1> HIDE DEF devices, counts, result
<1>6. counts \in UNION {[1..n -> Nat] : n \in Nat}
  BY <1>1, <1>4
<1>7. /\ next \in Builts(k) /\ next.devices = devices /\ next.idxNewEpPerDev = counts
      /\ next.idxNewDev = i /\ ~next.panicked
  <2> HIDE DEF i
  <2> QED
    BY <1>1, <1>3, <1>6 DEF Builts
<1> HIDE DEF next
<1>8. EndpointsIndexed(next)
  <2>1. ASSUME NEW j \in 1..i
        PROVE  counts[j] = Len(devices[j].endpoints) + 1
    <3>1. CASE j = i
      BY <1>2, <1>3, <1>4, <3>1
    <3>2. CASE j \in 1..Len(built.devices)
      BY <1>1, <1>3, <1>4, <3>2 DEF EndpointsIndexed
    <3> QED
      BY <1>3, <3>1, <3>2
  <2> QED
    BY <1>3, <1>4, <1>7, <2>1 DEF EndpointsIndexed
<1>9. \A p : Shows(next.devices, p) <=> Shows(built.devices, p)
  <2>1. \A p : ~DeviceShows(device, p)
    BY <1>2 DEF DeviceShows
  <2> QED
    BY <1>3, <1>7, <2>1, Zenon DEF Shows
<1>10. /\ after \in Builts(k) /\ EndpointsIndexed(after) /\ OnlyDevice(i, next, after)
       /\ \A p : Shows(after.devices, p) <=> Shows(next.devices, p) \/ p = Place(t)
  <2>1. i \in 1..Len(next.devices) /\ next.devices[i].name = t.dev
    BY <1>1, <1>2, <1>3, <1>7
  <2>2. next \in Builts(k) /\ ~next.panicked
    BY <1>7
  <2> HIDE DEF i
  <2> QED
    BY <1>8, <2>1, <2>2, NewEndpointAdds, Zenon
<1> HIDE DEF after
<1>11. after.idxNewDev = i /\ Len(after.devices) = i /\ after.panicked = next.panicked
  BY <1>3, <1>7, <1>10 DEF OnlyDevice
<1>12. /\ result \in Builts(k) /\ result.devices = after.devices /\ result.idxNewDev = i + 1
       /\ result.idxNewEpPerDev = after.idxNewEpPerDev /\ result.panicked = after.panicked
  <2>1. i + 1 \in Nat /\ result = [after EXCEPT !.idxNewDev = i + 1]
    BY <1>1, <1>5, <1>11
  <2> HIDE DEF i
  <2> QED
    BY <1>10, <2>1 DEF Builts
<1>13. Indexed(result)
  BY <1>10, <1>11, <1>12 DEF Indexed, EndpointsIndexed
<1> QED
  BY <1>7, <1>9, <1>10, <1>11, <1>12, <1>13 DEF Adds, result

(* A match adds its place.  A vlan that is added to an endpoint that is     *)
(* found is a panic: the index is one past the last endpoint.               *)
LEMMA AddMatchAdds ==
  ASSUME NEW k, NEW built, Sound(k, built), NEW t, Matching(k, t)
  PROVE  Adds(k, built, AddMatch(built, t), {Place(t)})
<1> DEFINE found == DeviceFound(built, t)
           i == TheOne(found)
           endpoints == built.devices[i].endpoints
           endpointFound == EndpointFound(built.devices[i], t)
<1>1. CASE built.panicked
  BY <1>1 DEF AddMatch, Adds, Sound
<1>2. CASE ~built.panicked /\ found = {}
  BY <1>2, NewDeviceAdds DEF AddMatch
<1>3. CASE ~built.panicked /\ found # {}
  <2>1. i \in 1..Len(built.devices) /\ built.devices[i].name = t.dev
    BY <1>3 DEF DeviceFound, TheOne
  <2>2. built \in Builts(k) /\ Indexed(built)
    BY <1>3 DEF Sound
  <2> HIDE DEF i, found
  <2>3. /\ endpoints \in Seq(Endpoints(k)) /\ Len(endpoints) \in Nat /\ EndpointsIndexed(built)
        /\ built.idxNewEpPerDev[i] = Len(endpoints) + 1
    BY <2>1, <2>2, BuiltTyped DEF Indexed, EndpointsIndexed
  <2>4. CASE endpointFound = {}
    <3> DEFINE after == NewEndpoint(built, i, t)
    <3>1. AddMatch(built, t) = after
      BY <1>3, <2>4 DEF AddMatch, i, found
    <3>2. /\ after \in Builts(k) /\ EndpointsIndexed(after) /\ OnlyDevice(i, built, after)
          /\ \A p : Shows(after.devices, p) <=> Shows(built.devices, p) \/ p = Place(t)
      BY <1>3, <2>1, <2>2, <2>3, NewEndpointAdds, Zenon
    <3> HIDE DEF after
    <3>3. Indexed(after) /\ ~after.panicked
      BY <1>3, <2>2, <3>2 DEF Indexed, OnlyDevice
    <3> QED
      BY <1>3, <3>1, <3>2, <3>3 DEF Adds
  <2>5. CASE endpointFound # {}
    <3>1. PICK j \in 1..Len(endpoints) : endpoints[j].id = t.type /\ endpoints[j].name = t.ep
      BY <2>5 DEF EndpointFound
    <3>2. endpoints[j].id \in k.ports /\ endpoints[j].vlans \in Seq(k.ids) /\ t.type \in k.types
      <4>1. endpoints[j] \in Endpoints(k)
        BY <2>3
      <4> HIDE DEF endpoints
      <4> QED
        BY <4>1 DEF Endpoints, Matching
    <3>3. CASE \E e \in endpointFound : t.vlan \notin ToSet(endpoints[e].vlans)
      <4>1. AddMatch(built, t) = AppendVlan(built, i, t.vlan)
        BY <1>3, <2>5, <3>3, Zenon DEF AddMatch, VlanIsNew, i, found
      <4>2. AppendVlan(built, i, t.vlan) = Panic(built)
        BY <2>3 DEF AppendVlan
      <4>3. Panic(built) \in Builts(k) /\ Panic(built).panicked
        BY <2>2 DEF Panic, Builts
      <4> QED
        BY <3>1, <3>2, <4>1, <4>2, <4>3 DEF Adds
    <3>4. CASE ~(\E e \in endpointFound : t.vlan \notin ToSet(endpoints[e].vlans))
      <4>1. AddMatch(built, t) = built
        BY <1>3, <2>5, <3>4, Zenon DEF AddMatch, VlanIsNew, i, found
      <4>2. t.vlan \in ToSet(endpoints[j].vlans)
        BY <3>1, <3>4 DEF EndpointFound
      <4>3. PICK m \in 1..Len(endpoints[j].vlans) : endpoints[j].vlans[m] = t.vlan
        BY <3>2, <4>2 DEF ToSet
      <4>4. EndpointShows(t.dev, endpoints[j], Place(t))
        BY <3>1, <4>3 DEF EndpointShows, Place
      <4>5. Shows(built.devices, Place(t))
        BY <2>1, <4>4 DEF Shows, DeviceShows
      <4> QED
        BY <1>3, <2>2, <4>1, <4>5 DEF Adds
    <3> QED
      BY <3>3, <3>4
  <2> QED
    BY <2>4, <2>5
<1> QED
  BY <1>1, <1>2, <1>3

(* A topology adds the places it has on the vlan.                           *)
LEMMA AddTopologyAdds ==
  ASSUME NEW k, NEW built, Sound(k, built), NEW vlan, NEW nt, Over(k, nt)
  PROVE  Adds(k, built, AddTopology(built, vlan, nt), PlacesOn(nt, vlan))
<1> DEFINE Visited(n) == {Place(nt[i]) : i \in {j \in 1..n : nt[j].vlan = vlan}}
<1>1. Len(nt) \in Nat
  BY DEF Over
<1>2. PICK add : TopologyLoop(add, built, vlan, nt)
  BY <1>1, AddTopologyLoop
<1> DEFINE S == {n \in Nat : n <= Len(nt) => Adds(k, built, add[n], Visited(n))}
<1>3. 0 \in S
  <2>1. add[0] = built /\ Visited(0) = {}
    BY <1>1, <1>2 DEF TopologyLoop
  <2> QED
    BY <2>1, AddsNothing
<1>4. ASSUME NEW n \in Nat, n \in S, n + 1 <= Len(nt)
      PROVE  Adds(k, built, add[n + 1], Visited(n + 1))
  <2> DEFINE more == IF nt[n + 1].vlan = vlan THEN {Place(nt[n + 1])} ELSE {}
  <2>1. Adds(k, built, add[n], Visited(n)) /\ n + 1 \in 1..Len(nt)
    BY <1>1, <1>4
  <2>2. add[n + 1] = AddIfMatch(add[n], vlan, nt[n + 1])
    BY <1>2, <2>1 DEF TopologyLoop
  <2>3. TheOne({AddMatch(b, nt[n + 1]) : b \in {add[n]}}) = AddMatch(add[n], nt[n + 1])
    BY DEF TheOne
  <2>4. Matching(k, nt[n + 1])
    BY <2>1 DEF Over
  <2>5. Visited(n + 1) = Visited(n) \cup more
    <3>1. {j \in 1..(n + 1) : nt[j].vlan = vlan} =
            {j \in 1..n : nt[j].vlan = vlan} \cup IF nt[n + 1].vlan = vlan THEN {n + 1} ELSE {}
      OBVIOUS
    <3> QED
      BY <3>1
  <2> HIDE DEF Visited
  <2>6. Sound(k, add[n])
    BY <2>1, AddsSound
  <2>7. Adds(k, add[n], add[n + 1], more)
    BY <2>2, <2>3, <2>4, <2>6, AddMatchAdds, AddsNothing DEF AddIfMatch
  <2> HIDE DEF more
  <2> QED
    BY <2>1, <2>5, <2>7, AddsMore
<1>5. Len(nt) \in S
  <2> HIDE DEF Visited
  <2>1. \A n \in Nat : n \in S => n + 1 \in S
    BY <1>4
  <2> HIDE DEF S
  <2> QED
    BY <1>1, <1>3, <2>1, SetOfNumbers
<1> QED
  BY <1>1, <1>2, <1>5 DEF PlacesOn, TopologyLoop

(* The topologies of the nodes visited add the places they have on the vlan.*)
LEMMA AddVlanAdds ==
  ASSUME NEW k, NEW built, Sound(k, built), NEW vlan, NEW nodes, Len(nodes) \in Nat,
         \A i \in 1..Len(nodes) : Over(k, NodeTopology[nodes[i]])
  PROVE  Adds(k, built, AddVlan(built, vlan, nodes),
              UNION {PlacesOn(NodeTopology[nodes[i]], vlan) : i \in 1..Len(nodes)})
<1> DEFINE Visited(n) == UNION {PlacesOn(NodeTopology[nodes[i]], vlan) : i \in 1..n}
<1>1. PICK add : VlanLoop(add, built, vlan, nodes)
  BY AddVlanLoop
<1> DEFINE S == {n \in Nat : n <= Len(nodes) => Adds(k, built, add[n], Visited(n))}
<1>2. 0 \in S
  <2>1. add[0] = built /\ Visited(0) = {}
    BY <1>1 DEF VlanLoop
  <2> QED
    BY <2>1, AddsNothing
<1>3. ASSUME NEW n \in Nat, n \in S, n + 1 <= Len(nodes)
      PROVE  Adds(k, built, add[n + 1], Visited(n + 1))
  <2> DEFINE more == PlacesOn(NodeTopology[nodes[n + 1]], vlan)
  <2>1. Adds(k, built, add[n], Visited(n)) /\ n + 1 \in 1..Len(nodes)
    BY <1>3
  <2>2. add[n + 1] = AddTopology(add[n], vlan, NodeTopology[nodes[n + 1]])
    BY <1>1, <2>1 DEF VlanLoop
  <2>3. Visited(n + 1) = Visited(n) \cup more
    <3>1. 1..(n + 1) = 1..n \cup {n + 1}
      OBVIOUS
    <3> QED
      BY <3>1
  <2> HIDE DEF Visited
  <2>4. Sound(k, add[n])
    BY <2>1, AddsSound
  <2>5. Adds(k, add[n], add[n + 1], more)
    BY <2>1, <2>2, <2>4, AddTopologyAdds
  <2> HIDE DEF more
  <2> QED
    BY <2>1, <2>3, <2>5, AddsMore
<1>4. Len(nodes) \in S
  <2> HIDE DEF Visited
  <2>1. \A n \in Nat : n \in S => n + 1 \in S
    BY <1>3
  <2> HIDE DEF S
  <2> QED
    BY <1>2, <2>1, SetOfNumbers
<1> QED
  BY <1>1, <1>4 DEF VlanLoop

(* An order of the nodes visits every node.                                 *)
LEMMA OrdersVisitAll ==
  ASSUME NEW nodes \in SetToSeqs(Node)
  PROVE  /\ Len(nodes) \in Nat
         /\ \A i \in 1..Len(nodes) : nodes[i] \in Node
         /\ \A n \in Node : \E i \in 1..Len(nodes) : nodes[i] = n
<1> DEFINE D == 1..Cardinality(Node)
<1>1. IsFiniteSet(Node) /\ Cardinality(Node) \in Nat
  BY ControllerAssumption, FS_CardinalityType
<1>2. nodes \in [D -> Node] /\ \A i, j \in D : i # j => nodes[i] # nodes[j]
  BY DEF SetToSeqs
<1>3. Len(nodes) = Cardinality(Node)
  BY <1>1, <1>2
<1>4. Cardinality(D) = Cardinality(Node)
  BY <1>1, FS_Interval
<1>5. nodes \in Injection(D, Node)
  <2>1. \A i, j \in D : nodes[i] = nodes[j] => i = j
    BY <1>2, Zenon
  <2> QED
    BY <1>2, <2>1 DEF Injection, IsInjective
<1>6. nodes \in Surjection(D, Node)
  BY <1>1, <1>4, <1>5, FS_Injection
<1> QED
  BY <1>1, <1>2, <1>3, <1>6 DEF Surjection

(* All the places on the vlans are added, and nothing else.                 *)
LEMMA AddVlansAdds ==
  ASSUME NEW k, \A n \in Node : Over(k, NodeTopology[n]),
         NEW vlans, Len(vlans) \in Nat, NEW order \in Orders(vlans)
  PROVE  Adds(k, Nothing, AddVlans(vlans, order),
              UNION {UNION {PlacesOn(NodeTopology[n], vlans[j]) : n \in Node} : j \in 1..Len(vlans)})
<1> DEFINE Of(j) == UNION {PlacesOn(NodeTopology[n], vlans[j]) : n \in Node}
           Visited(m) == UNION {Of(j) : j \in 1..m}
<1>1. PICK add : VlansLoop(add, vlans, order)
  BY AddVlansLoop
<1> DEFINE S == {m \in Nat : m <= Len(vlans) => Adds(k, Nothing, add[m], Visited(m))}
<1>2. 0 \in S
  <2>1. add[0] = Nothing /\ Visited(0) = {}
    BY <1>1 DEF VlansLoop
  <2>2. Sound(k, Nothing)
    <3>1. EmptyMap \in [1..0 -> Nat] /\ Len(<<>>) = 0
      BY DEF EmptyMap
    <3>2. EmptyMap \in UNION {[1..n -> Nat] : n \in Nat}
      BY <3>1
    <3>3. Nothing \in Builts(k)
      BY <3>2 DEF Nothing, Builts
    <3> QED
      BY <3>1, <3>3 DEF Sound, Nothing, Indexed, EndpointsIndexed
  <2> QED
    BY <2>1, <2>2, AddsNothing
<1>3. ASSUME NEW m \in Nat, m \in S, m + 1 <= Len(vlans)
      PROVE  Adds(k, Nothing, add[m + 1], Visited(m + 1))
  <2> DEFINE nodes == order[m + 1]
             more == UNION {PlacesOn(NodeTopology[nodes[i]], vlans[m + 1]) : i \in 1..Len(nodes)}
  <2>1. Adds(k, Nothing, add[m], Visited(m)) /\ m + 1 \in 1..Len(vlans)
    BY <1>3
  <2>2. add[m + 1] = AddVlan(add[m], vlans[m + 1], nodes)
    BY <1>1, <2>1 DEF VlansLoop
  <2>3. /\ Len(nodes) \in Nat
        /\ \A i \in 1..Len(nodes) : nodes[i] \in Node
        /\ \A n \in Node : \E i \in 1..Len(nodes) : nodes[i] = n
    <3>1. nodes \in SetToSeqs(Node)
      BY <2>1 DEF Orders
    <3> HIDE DEF nodes
    <3> QED
      BY <3>1, OrdersVisitAll
  <2> HIDE DEF nodes
  <2>4. Visited(m + 1) = Visited(m) \cup more
    <3>1. 1..(m + 1) = 1..m \cup {m + 1}
      OBVIOUS
    <3>2. more = Of(m + 1)
      BY <2>3
    <3> HIDE DEF Of, more
    <3> QED
      BY <3>1, <3>2, Zenon
  <2> HIDE DEF Visited
  <2>5. Sound(k, add[m])
    BY <2>1, AddsSound
  <2>6. Adds(k, add[m], add[m + 1], more)
    <3>1. \A i \in 1..Len(nodes) : Over(k, NodeTopology[nodes[i]])
      BY <2>3
    <3> QED
      BY <2>2, <2>3, <2>5, <3>1, AddVlanAdds
  <2> HIDE DEF more
  <2> QED
    BY <2>1, <2>4, <2>6, AddsMore
<1>4. Len(vlans) \in S
  <2> HIDE DEF Visited
  <2>1. \A m \in Nat : m \in S => m + 1 \in S
    BY <1>3
  <2> HIDE DEF S
  <2> QED
    BY <1>2, <2>1, SetOfNumbers
<1> QED
  BY <1>1, <1>4 DEF VlansLoop

(* The names there are in the topologies.                                   *)
Listings == UNION {{NodeTopology[n][i] : i \in 1..Len(NodeTopology[n])} : n \in Node}
Names ==
  [devs |-> {t.dev : t \in Listings}, eps |-> {t.ep : t \in Listings}, ports |-> {t.id : t \in Listings},
   types |-> {t.type : t \in Listings}, ids |-> {t.vlan : t \in Listings}]

LEMMA TopologiesOver ==
  ASSUME NodeTopology \in [Node -> Topologies], NEW n \in Node
  PROVE  Over(Names, NodeTopology[n])
<1>1. Len(NodeTopology[n]) \in Nat
  <2>1. NodeTopology[n] \in Seq(ToSet(NodeTopology[n]))
    BY ControllerAssumption
  <2> QED
    BY <2>1
<1>2. ASSUME NEW i \in 1..Len(NodeTopology[n])
      PROVE  NodeTopology[n][i] \in Listings
  BY DEF Listings
<1>3. \A t \in Listings : Matching(Names, t)
  BY DEF Names, Matching
<1> QED
  BY <1>1, <1>2, <1>3 DEF Over

(* In whatever order the topologies are visited, what is built for a        *)
(* specification shows the places its vlans are at, and nothing else.       *)
LEMMA BuiltOfTopologies ==
  ASSUME NodeTopology \in [Node -> Topologies], NEW vlans \in Specs \cup {<<>>},
         NEW order \in Orders(vlans)
  PROVE  Adds(Names, Nothing, AddVlans(vlans, order), Wanted(vlans, NodeTopology))
<1>1. Len(vlans) \in Nat
  <2>1. vlans \in Seq(ToSet(vlans)) \/ vlans = <<>>
    BY ControllerAssumption
  <2> QED
    BY <2>1
<1> DEFINE P == UNION {UNION {PlacesOn(NodeTopology[n], vlans[j]) : n \in Node} : j \in 1..Len(vlans)}
<1>2. Adds(Names, Nothing, AddVlans(vlans, order), P)
  BY <1>1, TopologiesOver, AddVlansAdds
<1>3. P = Wanted(vlans, NodeTopology)
  <2> DEFINE On(n) == {i \in 1..Len(NodeTopology[n]) : \E j \in 1..Len(vlans) : vlans[j] = NodeTopology[n][i].vlan}
             Of(n) == {Place(NodeTopology[n][i]) : i \in On(n)}
  <2>1. Wanted(vlans, NodeTopology) = UNION {Of(n) : n \in Node}
    BY DEF Wanted, Place
  <2>2. ASSUME NEW p, NEW n
        PROVE  p \in Of(n) <=> \E j \in 1..Len(vlans) : p \in PlacesOn(NodeTopology[n], vlans[j])
    BY Zenon DEF PlacesOn
  <2> HIDE DEF Of
  <2>3. \A p : p \in UNION {Of(n) : n \in Node} <=> \E n \in Node : p \in Of(n)
    OBVIOUS
  <2>4. \A p : p \in P <=> \E j \in 1..Len(vlans) : \E n \in Node : p \in PlacesOn(NodeTopology[n], vlans[j])
    OBVIOUS
  <2>5. \A p : p \in P <=> p \in UNION {Of(n) : n \in Node}
    BY <2>2, <2>3, <2>4, Zenon
  <2> HIDE DEF P
  <2> QED
    BY <2>1, <2>5
<1> QED
  BY <1>2, <1>3

LEMMA ConstructedShows ==
  ASSUME NodeTopology \in [Node -> Topologies], NEW vlans \in Specs \cup {<<>>},
         NEW status \in ConstructedFor(vlans)
  PROVE  Shown(status) = Wanted(vlans, NodeTopology)
<1>1. PICK order \in Orders(vlans) : status = Constructed(vlans, order) /\ ~AddVlans(vlans, order).panicked
  BY DEF ConstructedFor
<1>2. status.devices = AddVlans(vlans, order).devices
  BY <1>1 DEF Constructed
<1>3. \A p : Shows(status.devices, p) <=> p \in Wanted(vlans, NodeTopology)
  <2>1. \A p : ~Shows(Nothing.devices, p)
    BY DEF Shows, Nothing
  <2> QED
    BY <1>1, <1>2, <2>1, BuiltOfTopologies DEF Adds
<1>4. ASSUME NEW p
      PROVE  p \in Shown(status) <=> Shows(status.devices, p)
  <2> DEFINE OfEndpoint(i, j) ==
               {<<status.devices[i].name, status.devices[i].endpoints[j].name, status.devices[i].endpoints[j].vlans[k]>> :
                  k \in 1..Len(status.devices[i].endpoints[j].vlans)}
             OfDevice(i) == UNION {OfEndpoint(i, j) : j \in 1..Len(status.devices[i].endpoints)}
  <2>1. Shown(status) = UNION {OfDevice(i) : i \in 1..Len(status.devices)}
    BY DEF Shown
  <2>2. \A i, j : p \in OfEndpoint(i, j) <=> EndpointShows(status.devices[i].name, status.devices[i].endpoints[j], p)
    BY Zenon DEF EndpointShows
  <2> HIDE DEF OfEndpoint
  <2>3. ASSUME NEW i
        PROVE  p \in OfDevice(i) <=> DeviceShows(status.devices[i], p)
    <3>1. p \in OfDevice(i) <=> \E j \in 1..Len(status.devices[i].endpoints) : p \in OfEndpoint(i, j)
      OBVIOUS
    <3> QED
      BY <2>2, <3>1, Zenon DEF DeviceShows
  <2> HIDE DEF OfDevice
  <2> QED
    BY <2>1, <2>3, Zenon DEF Shows
<1> QED
  BY <1>3, <1>4

(* Nothing that is built panics if no port's identifier is a type.          *)
LEMMA NoPanic ==
  ASSUME NodeTopology \in [Node -> Topologies], NEW vlans \in Specs \cup {<<>>},
         NEW order \in Orders(vlans), PortsAreNoTypes
  PROVE  ~AddVlans(vlans, order).panicked
<1>1. Names.types \cap Names.ports = {}
  BY DEF PortsAreNoTypes, Names, Listings
<1> QED
  BY <1>1, BuiltOfTopologies DEF Adds, Nothing

(* Whatever the topologies and the order they are visited in, the running   *)
(* configuration of a status is the specification, or there is none.        *)
LEMMA ConstructedRunning ==
  ASSUME NEW vlans, NEW status \in ConstructedFor(vlans)
  PROVE  status.running \in {<<>>, vlans}
<1>1. PICK order : status = Constructed(vlans, order)
  BY DEF ConstructedFor
<1>2. status.running = IF AddVlans(vlans, order).devices = <<>> THEN <<>> ELSE vlans
  BY <1>1 DEF Constructed
<1> QED
  BY <1>2

(* The comparison keeps what a constructed status shows: the topologies and *)
(* the specifications of the copies still to compare stay as they were.     *)
LEMMA WantedStays ==
  ASSUME ConstructsWanted, todo' \subseteq todo, UNCHANGED <<NodeTopology, new>>,
         \A w \in todo' : WorkLoad'[w].vlans = WorkLoad[w].vlans
  PROVE  ConstructsWanted'
<1> SUFFICES ASSUME NEW w \in todo'
             PROVE  Shown(new'[w]) = Wanted(WorkLoad'[w].vlans, NodeTopology')
  BY DEF ConstructsWanted, Shown, Wanted
<1> QED
  BY DEF ConstructsWanted

(* What a watcher lists is current.                                         *)
LEMMA ListedKeeps ==
  ASSUME ApiOK, NEW w \in Workload
  PROVE  /\ Listed(api[w]) \in Seq(Known) /\ Len(Listed(api[w])) <= MaxLag
         /\ Listed(api[w]) # <<>> => Listed(api[w])[Len(Listed(api[w]))] = Seen(api[w])
<1>1. MaxLag \in Nat \ {0}
  BY ControllerAssumption
<1>2. CASE api[w].exists
  <2>1. /\ Listed(api[w]) = <<api[w].vlans>>
        /\ Seen(api[w]) = api[w].vlans
        /\ api[w].vlans \in Known
    BY <1>2 DEF ApiOK, Listed, Seen, Known
  <2> QED
    BY <1>1, <2>1
<1>3. CASE ~api[w].exists
  BY <1>1, <1>3 DEF Listed
<1> QED
  BY <1>2, <1>3 DEF ApiOK

-----------------------------------------------------------------------------
(* A started process has empty maps, and all revisions still to come.       *)
LEMMA ControllerInvInit == Init => ControllerInv
<1> SUFFICES ASSUME Init PROVE ControllerInv
  OBVIOUS
<1>1. ASSUME NEW w \in Workload
      PROVE  \/ api[w] = NoObject
             \/ \E s \in Specs : api[w] = Object(s, Empties)
  BY DEF Init
<1>2. ApiOK
  <2>1. api = [w \in Workload |-> api[w]]
    BY DEF Init
  <2>2. ~NoObject.exists /\ \A s : Object(s, Empties).exists /\ Object(s, Empties).vlans = s
    BY DEF NoObject, Object
  <2>3. NoObject.exists \in BOOLEAN /\ \A s : Object(s, Empties).exists \in BOOLEAN
    BY DEF NoObject, Object
  <2> QED
    BY <1>1, <2>1, <2>2, <2>3 DEF ApiOK
<1>3. pending = [w \in Workload |-> Listed(api[w])]
  BY DEF Init
<1>4. PendingOK /\ LastIsCurrent
  BY <1>2, <1>3, ListedKeeps DEF PendingOK, LastIsCurrent
<1>5. TopoOK
  BY ControllerAssumption DEF Init, TopoOK
<1>6. WorkLoad = EmptyMap /\ new = EmptyMap /\ WorkLoadStatus = EmptyMap
      /\ DOMAIN EmptyMap = {} /\ EmptyMap = [x \in {} |-> EmptyMap[x]]
  BY DEF Init, EmptyMap
<1>7. CopiesOK /\ FreshIsCurrent /\ StatusOfCopy /\ ConstructsWanted
  BY <1>6 DEF CopiesOK, FreshIsCurrent, StatusOfCopy, ConstructsWanted, Init
<1> QED
  BY <1>2, <1>4, <1>5, <1>7 DEF ControllerInv

(* Every step of the users, the agents, the watchers and the main loop      *)
(* keeps the invariant.                                                     *)
LEMMA ControllerInvNext == ControllerInv /\ [Next]_vars => ControllerInv'
<1> SUFFICES ASSUME ControllerInv, [Next]_vars PROVE ControllerInv'
  OBVIOUS
<1> USE DEF ControllerInv
<1>1. ASSUME NEW w \in Workload, NEW s \in Specs, UserWrite(w, s)
      PROVE  ControllerInv'
  <2>1. NewRevision(w, Object(s, api[w].status)) /\ WorkLoad' = Outdated(w)
    BY <1>1 DEF UserWrite
  <2>2. Object(s, api[w].status).exists \in BOOLEAN /\ Object(s, api[w].status).vlans \in Specs
    BY DEF Object
  <2>3. /\ ApiOK' /\ PendingOK' /\ LastIsCurrent'
        /\ \A v \in Workload : v # w => api'[v] = api[v]
    BY <2>1, <2>2, RevisionKeeps
  <2>4. /\ CopiesOK' /\ FreshIsCurrent' /\ StatusOfCopy'
        /\ \A v \in DOMAIN WorkLoad : WorkLoad'[v].vlans = WorkLoad[v].vlans
    BY <1>1, <2>1, <2>3, OutdatedKeeps DEF UserWrite
  <2>5. TopoOK'
    BY <1>1 DEF UserWrite, TopoOK
  <2>6. ConstructsWanted'
    BY <1>1, <2>4, WantedStays DEF UserWrite, StatusOfCopy
  <2> QED
    BY <2>3, <2>4, <2>5, <2>6
<1>2. ASSUME NEW w \in Workload, UserDelete(w)
      PROVE  ControllerInv'
  <2>1. NewRevision(w, NoObject) /\ WorkLoad' = Outdated(w)
    BY <1>2 DEF UserDelete
  <2>2. NoObject.exists \in BOOLEAN /\ ~NoObject.exists
    BY DEF NoObject
  <2>3. /\ ApiOK' /\ PendingOK' /\ LastIsCurrent'
        /\ \A v \in Workload : v # w => api'[v] = api[v]
    BY <2>1, <2>2, RevisionKeeps
  <2>4. /\ CopiesOK' /\ FreshIsCurrent' /\ StatusOfCopy'
        /\ \A v \in DOMAIN WorkLoad : WorkLoad'[v].vlans = WorkLoad[v].vlans
    BY <1>2, <2>1, <2>3, OutdatedKeeps DEF UserDelete
  <2>5. TopoOK'
    BY <1>2 DEF UserDelete, TopoOK
  <2>6. ConstructsWanted'
    BY <1>2, <2>4, WantedStays DEF UserDelete, StatusOfCopy
  <2> QED
    BY <2>3, <2>4, <2>5, <2>6
<1>3. ASSUME NEW n \in Node, NEW t \in Topologies, Publish(n, t)
      PROVE  ControllerInv'
  <2>1. TopoOK'
    BY <1>3 DEF Publish, TopoOK, workerVars
  <2>2. ConstructsWanted'
    BY <1>3, WantedStays DEF Publish, workerVars
  <2> QED
    BY <1>3, <2>1, <2>2 DEF Publish, workerVars, ApiOK, PendingOK, CopiesOK, LastIsCurrent,
                      FreshIsCurrent, StatusOfCopy, Seen
<1>4. ASSUME NEW w \in Workload, NEW i \in 1..Len(pending[w]), WorkloadMessage(w, i)
      PROVE  ControllerInv'
  <2> DEFINE copy == [vlans |-> pending[w][i], named |-> TRUE, fresh |-> i = Len(pending[w])]
             left == SubSeq(pending[w], i + 1, Len(pending[w]))
  <2>1. /\ pending[w] \in Seq(Known) /\ Len(pending[w]) \in Nat /\ i \in Nat \ {0}
        /\ i <= Len(pending[w]) /\ pending[w] # <<>>
    BY DEF PendingOK
  <2>2. /\ left \in Seq(Known) /\ Len(left) = Len(pending[w]) - i
        /\ left # <<>> => left[Len(left)] = pending[w][Len(pending[w])]
    <3>1. /\ left = [j \in 1..(Len(pending[w]) - i) |-> pending[w][i + j]]
          /\ Len(left) = Len(pending[w]) - i
          /\ left \in Seq(Known)
      BY <2>1
    <3> HIDE DEF left
    <3>2. ASSUME left # <<>>
          PROVE  left[Len(left)] = pending[w][Len(pending[w])]
      <4>1. Len(left) \in 1..(Len(pending[w]) - i) /\ i + Len(left) = Len(pending[w])
        BY <2>1, <3>1, <3>2
      <4> QED
        BY <3>1, <4>1
    <3> QED
      BY <3>1, <3>2
  <2>3. pending' = [pending EXCEPT ![w] = left] /\ UNCHANGED <<api, topo, NodeTopology>>
    BY <1>4 DEF WorkloadMessage
  <2>4. ApiOK' /\ TopoOK'
    BY <2>3 DEF ApiOK, TopoOK
  <2>5. PendingOK'
    BY <2>1, <2>2, <2>3, ControllerAssumption DEF PendingOK
  <2>6. LastIsCurrent'
    BY <2>1, <2>2, <2>3 DEF LastIsCurrent, PendingOK, Seen
  <2>7. /\ pc = "idle" /\ todo = {} /\ UNCHANGED <<WorkLoadStatus, new, pc, todo>>
        /\ ConstructsWanted'
    BY <1>4 DEF WorkloadMessage, StatusOfCopy, ConstructsWanted
  <2>8. CASE pending[w][i] = Absent
    <3>1. WorkLoad' = [v \in DOMAIN WorkLoad \ {w} |-> WorkLoad[v]]
      BY <1>4, <2>8 DEF WorkloadMessage, Delete
    <3>2. CopiesOK' /\ FreshIsCurrent'
      BY <2>3, <3>1 DEF CopiesOK, FreshIsCurrent
    <3> QED
      BY <2>4, <2>5, <2>6, <2>7, <3>2 DEF StatusOfCopy
  <2>9. CASE pending[w][i] # Absent
    <3>1. WorkLoad' = [v \in DOMAIN WorkLoad \cup {w} |-> IF v = w THEN copy ELSE WorkLoad[v]]
      BY <1>4, <2>9 DEF WorkloadMessage, Put
    <3>2. /\ copy \in Copy /\ copy.vlans \in Specs /\ copy.named
          /\ copy.vlans = pending[w][i] /\ (copy.fresh <=> i = Len(pending[w]))
      <4>1. pending[w][i] \in Specs
        BY <2>1, <2>9 DEF Known
      <4>2. (i = Len(pending[w])) \in BOOLEAN
        OBVIOUS
      <4> QED
        BY <4>1, <4>2 DEF Copy
    <3>3. copy.fresh => api[w].exists /\ api[w].vlans = copy.vlans
      BY <2>1, <2>9, <3>2 DEF LastIsCurrent, Seen
    <3> HIDE DEF copy
    <3>4. /\ DOMAIN WorkLoad' = DOMAIN WorkLoad \cup {w}
          /\ WorkLoad'[w] = copy
          /\ \A v \in DOMAIN WorkLoad : v # w => WorkLoad'[v] = WorkLoad[v]
      BY <3>1
    <3>5. WorkLoad' \in [DOMAIN WorkLoad' -> Copy]
      BY <3>1, <3>2, <3>4 DEF CopiesOK
    <3>6. CopiesOK'
      BY <3>2, <3>4, <3>5 DEF CopiesOK
    <3>7. FreshIsCurrent'
      BY <2>3, <3>3, <3>4 DEF FreshIsCurrent
    <3> QED
      BY <2>4, <2>5, <2>6, <2>7, <3>6, <3>7 DEF StatusOfCopy
  <2> QED
    BY <2>8, <2>9
<1>5. ASSUME NEW n \in Node, NodeTopologyMessage(n)
      PROVE  ControllerInv'
  <2>1. TopoOK'
    BY <1>5 DEF NodeTopologyMessage, TopoOK, apiVars
  <2>2. ConstructsWanted'
    BY <1>5 DEF NodeTopologyMessage, StatusOfCopy, ConstructsWanted
  <2> QED
    BY <1>5, <2>1, <2>2 DEF NodeTopologyMessage, apiVars, ApiOK, PendingOK, CopiesOK, LastIsCurrent,
                      FreshIsCurrent, StatusOfCopy, Seen
<1>6. CASE TimerWork
  <2>1. /\ UNCHANGED <<apiVars, workerVars>>
        /\ pc' = "compare" /\ todo' = DOMAIN WorkLoad
        /\ DOMAIN new' = DOMAIN WorkLoad
        /\ \A w \in DOMAIN WorkLoad : new'[w] \in ConstructedFor(WorkLoad[w].vlans)
    BY <1>6 DEF TimerWork
  <2>2. \A w \in DOMAIN WorkLoad : new'[w].running \in {<<>>, WorkLoad[w].vlans}
    BY <2>1, ConstructedRunning
  <2>3. StatusOfCopy'
    BY <2>1, <2>2 DEF StatusOfCopy, workerVars, CopiesOK
  <2>4. \A w \in DOMAIN WorkLoad : Shown(new'[w]) = Wanted(WorkLoad[w].vlans, NodeTopology)
    <3>1. \A w \in DOMAIN WorkLoad : WorkLoad[w].vlans \in Specs \cup {<<>>}
      BY DEF CopiesOK
    <3> QED
      BY <2>1, <3>1, ConstructedShows DEF TopoOK
  <2>5. ConstructsWanted'
    <3>1. WorkLoad' = WorkLoad /\ NodeTopology' = NodeTopology
      BY <2>1 DEF workerVars
    <3> SUFFICES ASSUME NEW w \in todo'
                 PROVE  Shown(new'[w]) = Wanted(WorkLoad'[w].vlans, NodeTopology')
      BY DEF ConstructsWanted, Shown, Wanted
    <3> QED
      BY <2>1, <2>4, <3>1
  <2> QED
    BY <2>1, <2>3, <2>5 DEF apiVars, workerVars, ApiOK, PendingOK, TopoOK, CopiesOK, LastIsCurrent,
                      FreshIsCurrent, Seen
<1>7. ASSUME NEW w \in Workload, NoUpdateRequired(w)
      PROVE  ControllerInv'
  <2>1. ConstructsWanted'
    BY <1>7, WantedStays DEF NoUpdateRequired, workerVars
  <2> QED
    BY <1>7, <2>1 DEF NoUpdateRequired, apiVars, workerVars, ApiOK, PendingOK, TopoOK, CopiesOK,
                      LastIsCurrent, FreshIsCurrent, StatusOfCopy, Seen
<1>8. ASSUME NEW w \in Workload, Update(w)
      PROVE  ControllerInv'
  <2> DEFINE object == Object(WorkLoad[w].vlans, new[w])
  <2>1. /\ w \in DOMAIN WorkLoad /\ WorkLoad[w].fresh /\ WorkLoad[w].named
        /\ IF object = api[w] THEN UNCHANGED <<api, pending>> ELSE NewRevision(w, object)
        /\ UNCHANGED <<topo, workerVars>>
    BY <1>8 DEF Update, Accepted, StatusOfCopy
  <2>2. /\ object.exists \in BOOLEAN /\ object.exists /\ object.vlans = WorkLoad[w].vlans
        /\ object.vlans \in Specs
        /\ api[w].exists /\ api[w].vlans = WorkLoad[w].vlans
    BY <2>1 DEF Object, CopiesOK, FreshIsCurrent
  <2> HIDE DEF object
  <2>3. ApiOK' /\ PendingOK' /\ LastIsCurrent' /\ FreshIsCurrent'
    <3>1. CASE object = api[w]
      BY <2>1, <3>1 DEF workerVars, ApiOK, PendingOK, LastIsCurrent, FreshIsCurrent, Seen
    <3>2. CASE object # api[w]
      <4>1. /\ ApiOK' /\ PendingOK' /\ LastIsCurrent'
            /\ api'[w] = object /\ \A v \in Workload : v # w => api'[v] = api[v]
        <5>1. NewRevision(w, Object(WorkLoad[w].vlans, new[w]))
          BY <2>1, <3>2 DEF object
        <5>2. /\ Object(WorkLoad[w].vlans, new[w]).exists \in BOOLEAN
              /\ Object(WorkLoad[w].vlans, new[w]).exists => Object(WorkLoad[w].vlans, new[w]).vlans \in Specs
          BY <2>2 DEF object
        <5> QED
          BY <5>1, <5>2, RevisionKeeps DEF object
      <4>2. FreshIsCurrent'
        BY <2>1, <2>2, <4>1 DEF workerVars, FreshIsCurrent, CopiesOK
      <4> QED
        BY <4>1, <4>2
    <3> QED
      BY <3>1, <3>2
  <2>4. StatusOfCopy'
    BY <1>8, <2>1 DEF Update, StatusOfCopy, workerVars
  <2>5. ConstructsWanted'
    BY <1>8, <2>1, WantedStays DEF Update, workerVars
  <2> QED
    BY <2>1, <2>3, <2>4, <2>5 DEF workerVars, TopoOK, CopiesOK
<1>9. ASSUME NEW w \in Workload, UpdateFails(w)
      PROVE  ControllerInv'
  <2>1. /\ w \in DOMAIN WorkLoad
        /\ WorkLoad' = [WorkLoad EXCEPT ![w] = Nameless]
        /\ todo' = todo \ {w} /\ UNCHANGED <<api, topo, pending, NodeTopology, WorkLoadStatus, new, pc>>
    BY <1>9 DEF UpdateFails, apiVars, StatusOfCopy
  <2>2. Nameless \in Copy /\ ~Nameless.named /\ ~Nameless.fresh /\ Nameless.vlans = <<>>
    BY DEF Nameless, Copy
  <2>3. CopiesOK'
    BY <2>1, <2>2 DEF CopiesOK
  <2>4. FreshIsCurrent'
    BY <2>1, <2>2 DEF FreshIsCurrent
  <2>5. StatusOfCopy'
    BY <2>1 DEF StatusOfCopy
  <2>6. ConstructsWanted'
    <3>1. \A v \in todo' : v # w /\ WorkLoad'[v].vlans = WorkLoad[v].vlans
      BY <2>1
    <3> QED
      BY <2>1, <3>1, WantedStays
  <2> QED
    BY <2>1, <2>3, <2>4, <2>5, <2>6 DEF ApiOK, PendingOK, TopoOK, LastIsCurrent, Seen
<1>10. CASE Compared
  <2>1. DOMAIN new' = {}
    BY <1>10 DEF Compared, EmptyMap
  <2>2. ConstructsWanted'
    BY <1>10 DEF Compared, ConstructsWanted
  <2> QED
    BY <1>10, <2>1, <2>2 DEF Compared, apiVars, ApiOK, PendingOK, TopoOK, CopiesOK, LastIsCurrent,
                       FreshIsCurrent, StatusOfCopy, Seen
<1>11. CASE Restarted
  <2>1. /\ UNCHANGED <<api, topo>>
        /\ pending' = [w \in Workload |-> Listed(api[w])]
        /\ NodeTopology' = [n \in Node |-> <<>>]
        /\ pc' = "idle" /\ todo' = {}
    BY <1>11 DEF Restarted
  <2>2. ApiOK' /\ TopoOK'
    BY <2>1, ControllerAssumption DEF ApiOK, TopoOK
  <2>3. PendingOK' /\ LastIsCurrent'
    BY <2>1, <2>2, ListedKeeps DEF PendingOK, LastIsCurrent, Seen
  <2>4. /\ WorkLoad' = EmptyMap /\ new' = EmptyMap /\ WorkLoadStatus' = EmptyMap
        /\ DOMAIN EmptyMap = {} /\ EmptyMap = [x \in {} |-> EmptyMap[x]]
    BY <1>11 DEF Restarted, EmptyMap
  <2>5. CopiesOK' /\ FreshIsCurrent' /\ StatusOfCopy' /\ ConstructsWanted'
    BY <2>1, <2>4 DEF CopiesOK, FreshIsCurrent, StatusOfCopy, ConstructsWanted
  <2> QED
    BY <2>2, <2>3, <2>5
<1>12. CASE UNCHANGED vars
  <2>1. ConstructsWanted'
    BY <1>12, WantedStays DEF vars, workerVars
  <2> QED
    BY <1>12, <2>1 DEF vars, apiVars, workerVars, ApiOK, PendingOK, TopoOK, CopiesOK, LastIsCurrent,
                       FreshIsCurrent, StatusOfCopy, Seen
<1> QED
  BY <1>1, <1>2, <1>3, <1>4, <1>5, <1>6, <1>7, <1>8, <1>9, <1>10, <1>11, <1>12
     DEF Next, User, Tick, TimerPanics, Restart, BringWorkload

(* A copy marked fresh is what the API server holds, throughout.            *)
THEOREM FreshCopiesAreCurrent == Spec => []FreshIsCurrent
<1>1. ControllerInv => FreshIsCurrent
  BY DEF ControllerInv
<1> QED
  BY <1>1, ControllerInvInit, ControllerInvNext, PTL DEF Spec

(* The status a workload is compared and updated with shows all the places  *)
(* its vlans are at and nothing else, for any specification, any topologies *)
(* and any order they are visited in: the nested loops of                   *)
(* constructWorkloadUpdates find every match (workload.go:17-97).           *)
THEOREM StatusesAreComplete == Spec => []ConstructsWanted
<1>1. ControllerInv => ConstructsWanted
  BY DEF ControllerInv
<1> QED
  BY <1>1, ControllerInvInit, ControllerInvNext, PTL DEF Spec

(* No index of the nested loops is out of range, whatever the workloads,    *)
(* the topologies and the order they are visited in, as long as no port's   *)
(* identifier is a type of identifiers: the tick does not panic             *)
(* (workload.go:48, 67, 95).                                                *)
THEOREM IndicesStayInRange == Spec => []IndicesInRange
<1>1. ControllerInv => IndicesInRange
  <2> SUFFICES ASSUME ControllerInv, PortsAreNoTypes, NEW w \in DOMAIN WorkLoad,
                      NEW order \in Orders(WorkLoad[w].vlans)
               PROVE  ~AddVlans(WorkLoad[w].vlans, order).panicked
    BY DEF IndicesInRange, Panics
  <2>1. WorkLoad[w].vlans \in Specs \cup {<<>>} /\ NodeTopology \in [Node -> Topologies]
    BY DEF ControllerInv, CopiesOK, TopoOK
  <2> QED
    BY <2>1, NoPanic
<1> QED
  BY <1>1, ControllerInvInit, ControllerInvNext, PTL DEF Spec

(* The maps hold workloads of the cluster, in specifications it has had, or *)
(* the nameless object a failed update left; the watchers are never more    *)
(* than MaxLag revisions behind.                                            *)
THEOREM ControllerTypeCorrect == Spec => []TypeOK
<1>1. ASSUME CopiesOK, NEW w \in DOMAIN WorkLoad
      PROVE  WorkLoad[w] = Nameless \/ (WorkLoad[w].vlans \in Specs /\ WorkLoad[w].named)
  <2>1. CASE WorkLoad[w].named
    BY <1>1, <2>1 DEF CopiesOK
  <2>2. CASE ~WorkLoad[w].named
    <3>1. /\ WorkLoad[w] = [vlans |-> WorkLoad[w].vlans, named |-> WorkLoad[w].named, fresh |-> WorkLoad[w].fresh]
          /\ WorkLoad[w].named = FALSE /\ WorkLoad[w].fresh = FALSE /\ WorkLoad[w].vlans = <<>>
      BY <1>1, <2>2 DEF CopiesOK, Copy
    <3> QED
      BY <3>1 DEF Nameless
  <2> QED
    BY <2>1, <2>2
<1>2. ControllerInv => TypeOK
  BY <1>1 DEF ControllerInv, ApiOK, PendingOK, TopoOK, CopiesOK, StatusOfCopy, TypeOK
<1> QED
  BY <1>2, ControllerInvInit, ControllerInvNext, PTL DEF Spec

(* No step of the comparison, from whatever copy it writes the workload,    *)
(* takes back what a user changed: the only step that writes is an accepted *)
(* update, its copy is fresh, and the status was constructed for it.        *)
THEOREM UserChangesStay == Spec => NoUserChangeLost
<1> DEFINE Kept(w) == /\ api[w].exists /\ api'[w].exists
                      /\ api'[w].vlans = api[w].vlans
                      /\ api'[w].status.running \in {<<>>, api[w].vlans}
           Step == todo' # todo => \A w \in Workload : api'[w] # api[w] => Kept(w)
<1>1. ASSUME ControllerInv, [Next]_vars
      PROVE  Step
  <2>1. CASE UNCHANGED api
    BY <2>1
  <2>2. ASSUME NEW w \in Workload, Update(w)
        PROVE  Step
    <3> DEFINE object == Object(WorkLoad[w].vlans, new[w])
    <3>1. /\ w \in DOMAIN WorkLoad /\ w \in todo /\ WorkLoad[w].fresh
          /\ UNCHANGED api \/ api' = [api EXCEPT ![w] = object]
      BY <1>1, <2>2 DEF Update, Accepted, ControllerInv, StatusOfCopy, NewRevision
    <3>2. CASE UNCHANGED api
      BY <3>2
    <3>3. CASE api' = [api EXCEPT ![w] = object]
      <4>1. api'[w] = object /\ \A v \in Workload : v # w => api'[v] = api[v]
        BY <1>1, <3>3 DEF ControllerInv, ApiOK
      <4>2. /\ api[w].exists /\ api[w].vlans = WorkLoad[w].vlans
            /\ new[w].running \in {<<>>, WorkLoad[w].vlans}
        BY <1>1, <3>1 DEF ControllerInv, FreshIsCurrent, StatusOfCopy
      <4>3. Kept(w)
        BY <4>1, <4>2 DEF Object
      <4> QED
        BY <4>1, <4>3
    <3> QED
      BY <3>1, <3>2, <3>3
  <2>3. ASSUME NEW w \in Workload, (\E s \in Specs : UserWrite(w, s)) \/ UserDelete(w)
        PROVE  Step
    BY <2>3 DEF UserWrite, UserDelete
  <2>4. CASE Next
    <3>1. ASSUME NEW w \in Workload, NoUpdateRequired(w) \/ UpdateFails(w) \/ BringWorkload(w)
          PROVE  UNCHANGED api
      BY <3>1 DEF NoUpdateRequired, UpdateFails, BringWorkload, WorkloadMessage, apiVars
    <3>2. ASSUME NEW n \in Node, NodeTopologyMessage(n) \/ (\E t \in Topologies : Publish(n, t))
          PROVE  UNCHANGED api
      BY <3>2 DEF NodeTopologyMessage, Publish, apiVars
    <3>3. TimerWork \/ TimerPanics \/ Compared \/ Restart => UNCHANGED api
      BY DEF TimerWork, TimerPanics, Compared, Restart, Restarted, apiVars
    <3> QED
      BY <2>1, <2>2, <2>3, <2>4, <3>1, <3>2, <3>3 DEF Next, User, Tick
  <2>5. CASE UNCHANGED vars
    BY <2>5 DEF vars, apiVars
  <2> QED
    BY <1>1, <2>4, <2>5
<1>2. ControllerInv /\ [Next]_vars => [Step]_vars
  BY <1>1
<1> QED
  BY <1>2, ControllerInvInit, ControllerInvNext, PTL DEF Spec, NoUserChangeLost

-----------------------------------------------------------------------------
(* The controller among agents that publish: a status is a snapshot if it   *)
(* shows all the places of its vlans in topologies that are lists of L, and *)
(* nothing else.                                                            *)
IsSnapshot(status, L) == \E f \in [Node -> L] : Shown(status) = Wanted(status.running, f)

SnapshotInv(L) ==
  /\ <<>> \in L
  /\ topo \in [Node -> L] /\ NodeTopology \in [Node -> L]
  /\ IsSnapshot(Empties, L)
  /\ \A w \in DOMAIN new : IsSnapshot(new[w], L)
  /\ \A w \in Workload : IsSnapshot(api[w].status, L)

(* A status without a running configuration shows nothing, and a snapshot   *)
(* of some lists is one of more lists.                                      *)
LEMMA NothingIsSnapshot ==
  ASSUME NEW L, <<>> \in L, NEW status, status.running = <<>>, status.devices = <<>>
  PROVE  IsSnapshot(status, L)
<1> DEFINE f == [n \in Node |-> <<>>]
<1>1. f \in [Node -> L] /\ \A n \in Node : Len(f[n]) = 0
  OBVIOUS
<1>2. Shown(status) = {}
  BY DEF Shown
<1>3. Wanted(status.running, f) = {}
  BY <1>1 DEF Wanted
<1> QED
  BY <1>1, <1>2, <1>3 DEF IsSnapshot

LEMMA SnapshotOfMore ==
  ASSUME NEW L, NEW M, L \subseteq M, NEW status, IsSnapshot(status, L)
  PROVE  IsSnapshot(status, M)
<1>1. [Node -> L] \subseteq [Node -> M]
  OBVIOUS
<1> QED
  BY <1>1 DEF IsSnapshot

(* A status that is constructed is a snapshot of what the controller has.   *)
LEMMA ConstructedIsSnapshot ==
  ASSUME NEW L, <<>> \in L, NodeTopology \in [Node -> L], NodeTopology \in [Node -> Topologies],
         NEW vlans \in Specs \cup {<<>>}, NEW status \in ConstructedFor(vlans)
  PROVE  IsSnapshot(status, L)
<1>1. PICK order : status = Constructed(vlans, order)
  BY DEF ConstructedFor
<1>2. Shown(status) = Wanted(vlans, NodeTopology)
  BY ConstructedShows
<1>3. CASE status.devices = <<>>
  <2>1. status.running = <<>>
    BY <1>1, <1>3 DEF Constructed
  <2> QED
    BY <1>3, <2>1, NothingIsSnapshot
<1>4. CASE status.devices # <<>>
  <2>1. status.running = vlans
    BY <1>1, <1>4 DEF Constructed
  <2> QED
    BY <1>2, <2>1 DEF IsSnapshot
<1> QED
  BY <1>3, <1>4

(* A process that starts where no status shows anything.                    *)
LEMMA SnapshotInit ==
  ASSUME NEW L, <<>> \in L, Init, topo \in [Node -> L], Empties.running = <<>>, Empties.devices = <<>>
  PROVE  SnapshotInv(L)
<1>1. NodeTopology \in [Node -> L] /\ DOMAIN new = {}
  BY DEF Init, EmptyMap
<1>2. IsSnapshot(Empties, L)
  BY NothingIsSnapshot
<1>3. ASSUME NEW w \in Workload
      PROVE  api[w].status = Empties
  <2>1. api[w] \in {NoObject} \cup {Object(s, Empties) : s \in Specs}
    BY DEF Init
  <2> QED
    BY <2>1 DEF NoObject, Object
<1> QED
  BY <1>1, <1>2, <1>3 DEF SnapshotInv

(* No message, tick or restart makes a status anything else.                *)
LEMMA SnapshotKept ==
  ASSUME NEW L, ControllerInv, SnapshotInv(L), [Next]_vars, UNCHANGED topo
  PROVE  SnapshotInv(L)'
<1> DEFINE ApiSnapshot == \A w \in Workload : IsSnapshot(api'[w].status, L)
           NewSnapshot == \A w \in DOMAIN new' : IsSnapshot(new'[w], L)
<1>1. ASSUME ApiSnapshot, NewSnapshot, NodeTopology' \in [Node -> L]
      PROVE  SnapshotInv(L)'
  <2>1. \A w \in Workload : IsSnapshot(api[w].status, L)'
    BY <1>1 DEF IsSnapshot, Shown, Wanted
  <2>2. \A w \in DOMAIN new' : IsSnapshot(new[w], L)'
    BY <1>1 DEF IsSnapshot, Shown, Wanted
  <2>3. topo' \in [Node -> L] /\ IsSnapshot(Empties, L)'
    BY DEF SnapshotInv, IsSnapshot, Shown, Wanted
  <2> QED
    BY <1>1, <2>1, <2>2, <2>3 DEF SnapshotInv
<1>2. ASSUME NEW w \in Workload, NEW object, NewRevision(w, object), IsSnapshot(object.status, L)
      PROVE  ApiSnapshot
  <2>1. api'[w] = object /\ \A v \in Workload : v # w => api'[v] = api[v]
    BY <1>2 DEF NewRevision, ControllerInv, ApiOK
  <2> QED
    BY <1>2, <2>1 DEF SnapshotInv
<1>3. UNCHANGED api => ApiSnapshot
  BY DEF SnapshotInv
<1>4. UNCHANGED new => NewSnapshot
  BY DEF SnapshotInv
<1>5. UNCHANGED NodeTopology => NodeTopology' \in [Node -> L]
  BY DEF SnapshotInv
<1>6. new' = EmptyMap => NewSnapshot
  BY DEF EmptyMap
<1> HIDE DEF ApiSnapshot, NewSnapshot
<1>7. ASSUME NEW w \in Workload, NEW s \in Specs, UserWrite(w, s)
      PROVE  SnapshotInv(L)'
  <2> DEFINE object == Object(s, api[w].status)
  <2>1. NewRevision(w, object) /\ UNCHANGED <<NodeTopology, new>>
    BY <1>7 DEF UserWrite
  <2>2. object.status = api[w].status
    BY DEF Object
  <2> HIDE DEF object
  <2>3. ApiSnapshot
    BY <1>2, <2>1, <2>2 DEF SnapshotInv
  <2> QED
    BY <1>1, <1>4, <1>5, <2>1, <2>3
<1>8. ASSUME NEW w \in Workload, UserDelete(w)
      PROVE  SnapshotInv(L)'
  <2>1. NewRevision(w, NoObject) /\ UNCHANGED <<NodeTopology, new>> /\ NoObject.status = Empties
    BY <1>8 DEF UserDelete, NoObject
  <2>2. ApiSnapshot
    BY <1>2, <2>1 DEF SnapshotInv
  <2> QED
    BY <1>1, <1>4, <1>5, <2>1, <2>2
<1>9. ASSUME NEW w \in Workload, NEW i \in 1..Len(pending[w]), WorkloadMessage(w, i)
      PROVE  SnapshotInv(L)'
  BY <1>1, <1>3, <1>4, <1>5, <1>9 DEF WorkloadMessage
<1>10. ASSUME NEW n \in Node, NodeTopologyMessage(n)
       PROVE  SnapshotInv(L)'
  <2>1. NodeTopology' = [NodeTopology EXCEPT ![n] = topo[n]] /\ UNCHANGED <<api, new>>
    BY <1>10 DEF NodeTopologyMessage, apiVars
  <2>2. NodeTopology' \in [Node -> L]
    BY <2>1 DEF SnapshotInv
  <2> QED
    BY <1>1, <1>3, <1>4, <2>1, <2>2
<1>11. CASE TimerWork
  <2>1. /\ UNCHANGED <<api, NodeTopology>> /\ DOMAIN new' = DOMAIN WorkLoad
        /\ \A w \in DOMAIN WorkLoad : new'[w] \in ConstructedFor(WorkLoad[w].vlans)
    BY <1>11 DEF TimerWork, apiVars, workerVars
  <2>2. \A w \in DOMAIN WorkLoad : WorkLoad[w].vlans \in Specs \cup {<<>>}
    BY DEF ControllerInv, CopiesOK
  <2>3. \A w \in DOMAIN new' : IsSnapshot(new'[w], L)
    BY <2>1, <2>2, ConstructedIsSnapshot DEF SnapshotInv, ControllerInv, TopoOK
  <2>4. NewSnapshot
    BY <2>3 DEF NewSnapshot
  <2> QED
    BY <1>1, <1>3, <1>5, <2>1, <2>4
<1>12. ASSUME NEW w \in Workload, NoUpdateRequired(w) \/ UpdateFails(w)
       PROVE  SnapshotInv(L)'
  BY <1>1, <1>3, <1>4, <1>5, <1>12 DEF NoUpdateRequired, UpdateFails, apiVars, workerVars
<1>13. ASSUME NEW w \in Workload, Update(w)
       PROVE  SnapshotInv(L)'
  <2> DEFINE object == Object(WorkLoad[w].vlans, new[w])
  <2>1. /\ w \in todo /\ UNCHANGED <<NodeTopology, new>>
        /\ UNCHANGED api \/ NewRevision(w, object)
    BY <1>13 DEF Update, workerVars
  <2>2. w \in DOMAIN new
    BY <2>1 DEF ControllerInv, StatusOfCopy
  <2>3. object.status = new[w]
    BY DEF Object
  <2> HIDE DEF object
  <2>4. ApiSnapshot
    BY <1>2, <1>3, <2>1, <2>2, <2>3 DEF SnapshotInv
  <2> QED
    BY <1>1, <1>4, <1>5, <2>1, <2>4
<1>14. CASE Compared
  BY <1>1, <1>3, <1>5, <1>6, <1>14 DEF Compared, apiVars
<1>15. CASE Restarted
  <2>1. NodeTopology' = [n \in Node |-> <<>>] /\ new' = EmptyMap /\ UNCHANGED api
    BY <1>15 DEF Restarted
  <2>2. NodeTopology' \in [Node -> L]
    BY <2>1 DEF SnapshotInv
  <2> QED
    BY <1>1, <1>3, <1>6, <2>1, <2>2
<1>16. ASSUME NEW n \in Node, NEW t \in Topologies, Publish(n, t)
       PROVE  SnapshotInv(L)'
  BY <1>1, <1>3, <1>4, <1>5, <1>16 DEF Publish, workerVars
<1>17. CASE UNCHANGED vars
  BY <1>1, <1>3, <1>4, <1>5, <1>17 DEF vars, apiVars, workerVars
<1> QED
  BY <1>7, <1>8, <1>9, <1>10, <1>11, <1>12, <1>13, <1>14, <1>15, <1>16, <1>17
     DEF Next, User, Tick, TimerPanics, Restart, BringWorkload

(* Neither does an agent that publishes: what was a snapshot stays one.     *)
LEMMA PublishKept ==
  ASSUME NEW L, NEW M, L \subseteq M, ControllerInv, SnapshotInv(L),
         topo' \in [Node -> M], topo' \in [Node -> Topologies],
         UNCHANGED <<api, pending, workerVars, new, pc, todo>>
  PROVE  ControllerInv' /\ SnapshotInv(M)'
<1> USE DEF workerVars
<1>1. ConstructsWanted'
  BY WantedStays DEF ControllerInv
<1>2. TopoOK'
  BY DEF ControllerInv, TopoOK
<1>3. ControllerInv'
  BY <1>1, <1>2 DEF ControllerInv, ApiOK, PendingOK, CopiesOK, LastIsCurrent, FreshIsCurrent,
                    StatusOfCopy, Seen
<1>4. \A w \in Workload : IsSnapshot(api'[w].status, M)
  BY SnapshotOfMore DEF SnapshotInv
<1>5. \A w \in DOMAIN new' : IsSnapshot(new'[w], M)
  BY SnapshotOfMore DEF SnapshotInv
<1>6. IsSnapshot(Empties, M)
  BY SnapshotOfMore DEF SnapshotInv
<1>7. /\ \A w \in Workload : IsSnapshot(api[w].status, M)'
      /\ \A w \in DOMAIN new' : IsSnapshot(new[w], M)'
      /\ IsSnapshot(Empties, M)'
  BY <1>4, <1>5, <1>6 DEF IsSnapshot, Shown, Wanted
<1>8. <<>> \in M /\ NodeTopology' \in [Node -> M]
  BY DEF SnapshotInv
<1> QED
  BY <1>3, <1>7, <1>8 DEF SnapshotInv
=============================================================================
