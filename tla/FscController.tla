--------------------------- MODULE FscController ---------------------------
(***************************************************************************)
(* The main loop of fsc-controller (fscctrlctrlr).  Its watchers keep it    *)
(* informed of the workloads and of the NodeTopologies the agents publish;  *)
(* at every timer tick it constructs the status of each workload - the      *)
(* devices, endpoints and vlans on which the workload's vlans appear - and  *)
(* updates the workload on the API server if its status is not the one it   *)
(* constructed in the previous tick.                                        *)
(*                                                                          *)
(* A workload's specification is the list of its vlans.  A NodeTopology is  *)
(* the list of the vlans on the endpoints of its devices, in the order of   *)
(* the nested loops that visit them: each with the names of its device and  *)
(* endpoint, and the identifier of the endpoint and its type.  A topology   *)
(* that was never seen or was deleted is the empty list, in which the code  *)
(* finds the same: nothing.                                                 *)
(*                                                                          *)
(* The API server is an optimistic one: an update of an object that is not  *)
(* at the revision it was read at is refused.  Revisions are compared only  *)
(* with the current one, so a copy is either fresh or it is not.            *)
(***************************************************************************)
EXTENDS Naturals, FiniteSets, SequencesExt

CONSTANTS
  Workload,     \* the keys of the workloads
  Foreign,      \* those that are not in the namespace "fsc"
  Node,         \* the keys of the NodeTopologies, one per node
  Specs,        \* the specifications a workload can have
  Topologies,   \* the values a NodeTopology can have
  Absent,       \* what a watcher brings of a workload that is gone
  Empties,      \* the status of a workload nothing has been written to
  MaxSpecs,     \* bound on the users' changes of workloads
  MaxTopos,     \* bound on the agents' changes of topologies
  MaxLag,       \* bound on the revisions of a workload a watcher is behind
  MaxFailures,  \* bound on failed updates, refused ones aside
  MaxCrashes    \* bound on restarts

ASSUME ControllerAssumption ==
  /\ Foreign \subseteq Workload
  /\ IsFiniteSet(Node)
  /\ <<>> \in Topologies
  /\ \A s \in Specs : s \in Seq(ToSet(s))
  /\ \A t \in Topologies : t \in Seq(ToSet(t))
  /\ Absent \notin Specs
  /\ MaxLag \in Nat \ {0}
  /\ {MaxSpecs, MaxTopos, MaxFailures, MaxCrashes} \subseteq Nat

VARIABLES
  api,            \* the API server: the workloads
  topo,           \* the API server: the NodeTopologies
  pending,        \* the revisions of a workload its watcher has to bring
  NodeTopology, WorkLoad, WorkLoadStatus,
  new,            \* newWorkloadStatus
  pc, todo,       \* where the main loop is, and the workloads to compare
  specs, topos, failures, crashes

apiVars == <<api, topo, pending>>
workerVars == <<NodeTopology, WorkLoad, WorkLoadStatus>>
counters == <<specs, topos, failures, crashes>>
vars == <<apiVars, workerVars, new, pc, todo, counters>>

-----------------------------------------------------------------------------
(* Functions as Go maps. *)
EmptyMap == [x \in {} |-> {}]
Put(f, x, v) == [y \in DOMAIN f \cup {x} |-> IF y = x THEN v ELSE f[y]]
Delete(f, x) == [y \in DOMAIN f \ {x} |-> f[y]]

(* A workload on the API server, and one that is not there; what a watcher  *)
(* brings of either.                                                        *)
Object(s, status) == [exists |-> TRUE, vlans |-> s, status |-> status]
NoObject == [exists |-> FALSE, vlans |-> <<>>, status |-> Empties]
Seen(object) == IF object.exists THEN object.vlans ELSE Absent
Listed(object) == IF object.exists THEN <<object.vlans>> ELSE <<>>

(* The object a failed call of the client returns.                          *)
Nameless == [vlans |-> <<>>, named |-> FALSE, fresh |-> FALSE]

Init ==
  /\ api \in [Workload -> {NoObject} \cup {Object(s, Empties) : s \in Specs}]
  /\ topo \in [Node -> Topologies]
  /\ pending = [w \in Workload |-> Listed(api[w])]
  /\ NodeTopology = [n \in Node |-> <<>>]
  /\ WorkLoad = EmptyMap
  /\ WorkLoadStatus = EmptyMap
  /\ new = EmptyMap
  /\ pc = "idle" /\ todo = {}
  /\ specs = 0 /\ topos = 0 /\ failures = 0 /\ crashes = 0

-----------------------------------------------------------------------------
(* The API server has a new revision of workload w: its watcher will bring  *)
(* it, and the copies there are of w are behind.                            *)
Behind(seq) == IF Len(seq) < MaxLag THEN seq ELSE Front(seq)

NewRevision(w, object) ==
  /\ api' = [api EXCEPT ![w] = object]
  /\ pending' = [pending EXCEPT ![w] = Append(Behind(@), Seen(object))]

Outdated(w) ==
  IF w \in DOMAIN WorkLoad THEN [WorkLoad EXCEPT ![w].fresh = FALSE] ELSE WorkLoad

(* A user creates a workload or changes it - its specification, or, with    *)
(* the same s, something else in it - or deletes it.                        *)
UserWrite(w, s) ==
  /\ specs < MaxSpecs
  /\ specs' = specs + 1
  /\ NewRevision(w, Object(s, api[w].status))
  /\ WorkLoad' = Outdated(w)
  /\ UNCHANGED <<topo, NodeTopology, WorkLoadStatus, new, pc, todo, topos, failures, crashes>>

UserDelete(w) ==
  /\ specs < MaxSpecs
  /\ specs' = specs + 1
  /\ api[w].exists
  /\ NewRevision(w, NoObject)
  /\ WorkLoad' = Outdated(w)
  /\ UNCHANGED <<topo, NodeTopology, WorkLoadStatus, new, pc, todo, topos, failures, crashes>>

(* An agent publishes.                                                      *)
Publish(n, t) ==
  /\ topos < MaxTopos
  /\ topos' = topos + 1
  /\ topo[n] # t
  /\ topo' = [topo EXCEPT ![n] = t]
  /\ UNCHANGED <<api, pending, workerVars, new, pc, todo, specs, failures, crashes>>

-----------------------------------------------------------------------------
(* The messages of the watchers, which may skip revisions (ObjectWatcher).  *)

(* Bug: a deleted workload is stored like an updated one.                   *)
WorkloadMessageKeepsDeleted(w, i) ==
  /\ pc = "idle"
  /\ i \in 1..Len(pending[w])
  /\ WorkLoad' = Put(WorkLoad, w, [vlans |-> pending[w][i], named |-> TRUE, fresh |-> i = Len(pending[w])])
  /\ pending' = [pending EXCEPT ![w] = SubSeq(@, i + 1, Len(@))]
  /\ UNCHANGED <<api, topo, NodeTopology, WorkLoadStatus, new, pc, todo, counters>>

(* WorkloadUpdate or WorkloadDelete.                                        *)
WorkloadMessage(w, i) ==
  /\ pc = "idle"
  /\ i \in 1..Len(pending[w])
  /\ WorkLoad' = IF pending[w][i] = Absent THEN Delete(WorkLoad, w)
                 ELSE Put(WorkLoad, w, [vlans |-> pending[w][i], named |-> TRUE, fresh |-> i = Len(pending[w])])
  /\ pending' = [pending EXCEPT ![w] = SubSeq(@, i + 1, Len(@))]
  /\ UNCHANGED <<api, topo, NodeTopology, WorkLoadStatus, new, pc, todo, counters>>

(* Bug: only a NodeTopology that is not known is stored.                    *)
NodeTopologyMessageOnce(n) ==
  /\ pc = "idle"
  /\ NodeTopology[n] = <<>> /\ topo[n] # <<>>
  /\ NodeTopology' = [NodeTopology EXCEPT ![n] = topo[n]]
  /\ UNCHANGED <<apiVars, WorkLoad, WorkLoadStatus, new, pc, todo, counters>>

(* Bug: what a NodeTopology no longer has is kept.                          *)
NodeTopologyMessageMerges(n) ==
  /\ pc = "idle"
  /\ ~(ToSet(topo[n]) \subseteq ToSet(NodeTopology[n]))
  /\ NodeTopology' = [NodeTopology EXCEPT ![n] = @ \o SelectSeq(topo[n], LAMBDA t : t \notin ToSet(NodeTopology[n]))]
  /\ UNCHANGED <<apiVars, WorkLoad, WorkLoadStatus, new, pc, todo, counters>>

(* NodeTopologyUpdate or NodeTopologyDelete.                                *)
NodeTopologyMessage(n) ==
  /\ pc = "idle"
  /\ NodeTopology[n] # topo[n]
  /\ NodeTopology' = [NodeTopology EXCEPT ![n] = topo[n]]
  /\ UNCHANGED <<apiVars, WorkLoad, WorkLoadStatus, new, pc, todo, counters>>

-----------------------------------------------------------------------------
(* constructWorkloadUpdates. *)

(* What there is of a status: its devices, and the indices at which the     *)
(* next device and the next endpoint of each device are expected, counted   *)
(* from 1 where Go counts from 0.  An index out of range is a panic.        *)
Nothing == [devices |-> <<>>, idxNewDev |-> 1, idxNewEpPerDev |-> EmptyMap, panicked |-> FALSE]
Panic(built) == [built EXCEPT !.panicked = TRUE]

(* The vlan goes to the endpoint at the index of device i.                  *)
AppendVlan(built, i, vlan) ==
  LET k == built.idxNewEpPerDev[i] IN
  IF k > Len(built.devices[i].endpoints) THEN Panic(built)
  ELSE [built EXCEPT !.devices[i].endpoints[k].vlans = Append(@, vlan)]

AppendEndpoint(built, i, t) ==
  [built EXCEPT !.devices[i].endpoints = Append(@, [name |-> t.ep, id |-> t.id, vlans |-> <<>>])]

CountEndpoint(built, i) == [built EXCEPT !.idxNewEpPerDev[i] = @ + 1]

(* Bug: the index of the device stays where it is.                          *)
NewEndpointUncounted(built, i, t) == AppendVlan(AppendEndpoint(built, i, t), i, t.vlan)

(* Bug: the vlan is appended first.                                         *)
NewEndpointVlanFirst(built, i, t) ==
  CountEndpoint(AppendEndpoint(AppendVlan(built, i, t.vlan), i, t), i)

NewEndpoint(built, i, t) ==
  CountEndpoint(AppendVlan(AppendEndpoint(built, i, t), i, t.vlan), i)

NewDevice(built, t) ==
  LET i == built.idxNewDev
      devices == Append(built.devices, [name |-> t.dev, endpoints |-> <<>>]) IN
  IF i > Len(devices) THEN Panic(built)
  ELSE [NewEndpoint([built EXCEPT !.devices = devices, !.idxNewEpPerDev = Put(@, i, 1)], i, t)
          EXCEPT !.idxNewDev = @ + 1]

TheOne(S) == CHOOSE x \in S : TRUE

DeviceFound(built, t) == {i \in 1..Len(built.devices) : built.devices[i].name = t.dev}


(* The first match on a device adds the device.  Another one looks for its  *)
(* endpoint, with the type of its identifier where the identifier should    *)
(* be; it finds none, and adds another endpoint, unless the two are the     *)
(* same.  Then the vlan, if it is a new one of that endpoint, is meant for  *)
(* the endpoint at the index, which is not there yet.                       *)
EndpointFound(device, t) ==
  {j \in 1..Len(device.endpoints) : device.endpoints[j].id = t.type /\ device.endpoints[j].name = t.ep}

VlanIsNew(device, t) ==
  \E j \in EndpointFound(device, t) : t.vlan \notin ToSet(device.endpoints[j].vlans)

AddMatch(built, t) ==
  LET i == TheOne(DeviceFound(built, t)) IN
  IF built.panicked THEN built
  ELSE IF DeviceFound(built, t) = {} THEN NewDevice(built, t)
  ELSE IF EndpointFound(built.devices[i], t) = {} THEN NewEndpoint(built, i, t)
  ELSE IF VlanIsNew(built.devices[i], t) THEN AppendVlan(built, i, t.vlan)
  ELSE built

(* The nested loops: the matches of one vlan in one topology, in all the    *)
(* topologies, in the order they are visited in, and those of all vlans.    *)
(* (TLC evaluates what a variable is bound to once, and a parameter as      *)
(* often as it is used.)                                                    *)
AddIfMatch(built, vlan, t) ==
  IF t.vlan = vlan THEN TheOne({AddMatch(b, t) : b \in {built}}) ELSE built

AddTopology(built, vlan, nt) ==
  LET add[i \in 0..Len(nt)] ==
        IF i = 0 THEN built ELSE AddIfMatch(add[i - 1], vlan, nt[i])
  IN add[Len(nt)]

AddVlan(built, vlan, nodes) ==
  LET add[i \in 0..Len(nodes)] ==
        IF i = 0 THEN built ELSE AddTopology(add[i - 1], vlan, NodeTopology[nodes[i]])
  IN add[Len(nodes)]

AddVlans(vlans, order) ==
  LET add[i \in 0..Len(vlans)] ==
        IF i = 0 THEN Nothing ELSE AddVlan(add[i - 1], vlans[i], order[i])
  IN add[Len(vlans)]

(* The specification is copied to the status with the first match.  The     *)
(* topologies are visited in any order, which may be another one for each   *)
(* vlan: order[i].                                                          *)
Constructed(vlans, order) ==
  LET devices == AddVlans(vlans, order).devices IN
  [running |-> IF devices = <<>> THEN <<>> ELSE vlans, devices |-> devices]

Orders(vlans) == [1..Len(vlans) -> SetToSeqs(Node)]

ConstructedFor(vlans) ==
  {Constructed(vlans, order) : order \in {o \in Orders(vlans) : ~AddVlans(vlans, o).panicked}}

TimerWork ==
  /\ pc = "idle"
  /\ new' \in {f \in [DOMAIN WorkLoad -> UNION {ConstructedFor(WorkLoad[w].vlans) : w \in DOMAIN WorkLoad}] :
                 \A w \in DOMAIN WorkLoad : f[w] \in ConstructedFor(WorkLoad[w].vlans)}
  /\ todo' = DOMAIN WorkLoad
  /\ pc' = "compare"
  /\ UNCHANGED <<apiVars, workerVars, counters>>

(* The process that is started after one that ended: its watchers list what *)
(* the API server holds.                                                    *)
Restarted ==
  /\ pending' = [w \in Workload |-> Listed(api[w])]
  /\ NodeTopology' = [n \in Node |-> <<>>]
  /\ WorkLoad' = EmptyMap
  /\ WorkLoadStatus' = EmptyMap
  /\ new' = EmptyMap
  /\ pc' = "idle" /\ todo' = {}
  /\ UNCHANGED <<api, topo>>

Panics(w) == \E order \in Orders(WorkLoad[w].vlans) : AddVlans(WorkLoad[w].vlans, order).panicked

TimerPanics ==
  /\ pc = "idle"
  /\ \E w \in DOMAIN WorkLoad : Panics(w)
  /\ Restarted
  /\ UNCHANGED counters

-----------------------------------------------------------------------------
(* compareWorkloadStatus. *)

(* Bug: only a workload that is new is updated.                             *)
DiffersIfNew(w) == w \notin DOMAIN WorkLoadStatus

Differs(w) == w \in DOMAIN WorkLoadStatus => WorkLoadStatus[w] # new[w]

NoUpdateRequired(w) ==
  /\ pc = "compare"
  /\ w \in todo
  /\ ~Differs(w)
  /\ todo' = todo \ {w}
  /\ UNCHANGED <<apiVars, workerVars, new, pc, counters>>

(* Bug: an update at an old revision is forced.                             *)
AcceptedAnyway(w) ==
  /\ WorkLoad[w].named
  /\ w \notin Foreign

(* The client updates workloads in the namespace "fsc", and needs a name.   *)
Accepted(w) ==
  /\ WorkLoad[w].named
  /\ WorkLoad[w].fresh
  /\ w \notin Foreign

(* c.wli.Update, which writes the whole object; an object that is as it was *)
(* has no new revision.                                                     *)
Update(w) ==
  /\ pc = "compare"
  /\ w \in todo
  /\ Differs(w)
  /\ Accepted(w)
  /\ LET object == Object(WorkLoad[w].vlans, new[w]) IN
     IF object = api[w] THEN UNCHANGED <<api, pending>> ELSE NewRevision(w, object)
  /\ todo' = todo \ {w}
  /\ UNCHANGED <<topo, workerVars, new, pc, counters>>

(* Bug: after a refused update the old object is given the new revision.    *)
UpdateFailsRebases(w) ==
  /\ pc = "compare"
  /\ w \in todo
  /\ Differs(w)
  /\ IF Accepted(w) THEN failures < MaxFailures /\ failures' = failures + 1 ELSE UNCHANGED failures
  /\ WorkLoad' = [WorkLoad EXCEPT ![w].fresh = TRUE]
  /\ todo' = todo \ {w}
  /\ UNCHANGED <<apiVars, NodeTopology, WorkLoadStatus, new, pc, specs, topos, crashes>>

(* The error is logged; what the client returns with it takes the place of  *)
(* the workload.                                                            *)
UpdateFails(w) ==
  /\ pc = "compare"
  /\ w \in todo
  /\ Differs(w)
  /\ IF Accepted(w) THEN failures < MaxFailures /\ failures' = failures + 1 ELSE UNCHANGED failures
  /\ WorkLoad' = [WorkLoad EXCEPT ![w] = Nameless]
  /\ todo' = todo \ {w}
  /\ UNCHANGED <<apiVars, NodeTopology, WorkLoadStatus, new, pc, specs, topos, crashes>>

(* Bug: what was constructed is not kept for the next comparison.           *)
ComparedUnrecorded ==
  /\ pc = "compare"
  /\ todo = {}
  /\ new' = EmptyMap
  /\ pc' = "idle"
  /\ UNCHANGED <<apiVars, workerVars, todo, counters>>

Compared ==
  /\ pc = "compare"
  /\ todo = {}
  /\ WorkLoadStatus' = new
  /\ new' = EmptyMap
  /\ pc' = "idle"
  /\ UNCHANGED <<apiVars, NodeTopology, WorkLoad, todo, counters>>

-----------------------------------------------------------------------------
(* The process ends at any point and is restarted.                          *)
Restart ==
  /\ crashes < MaxCrashes
  /\ crashes' = crashes + 1
  /\ Restarted
  /\ UNCHANGED <<specs, topos, failures>>

User ==
  \/ \E w \in Workload : (\E s \in Specs : UserWrite(w, s)) \/ UserDelete(w)
  \/ \E n \in Node, t \in Topologies : Publish(n, t)

BringWorkload(w) == \E i \in 1..Len(pending[w]) : WorkloadMessage(w, i)

Tick ==
  \/ TimerWork \/ TimerPanics
  \/ \E w \in Workload : NoUpdateRequired(w) \/ Update(w) \/ UpdateFails(w)
  \/ Compared

Next ==
  \/ User
  \/ \E w \in Workload : BringWorkload(w)
  \/ \E n \in Node : NodeTopologyMessage(n)
  \/ Tick
  \/ Restart

(* The main loop runs, and a blocked watcher is served in the end.          *)
Fairness ==
  /\ WF_vars(Tick)
  /\ \A w \in Workload : SF_vars(BringWorkload(w))
  /\ \A n \in Node : SF_vars(NodeTopologyMessage(n))

Spec == Init /\ [][Next]_vars /\ Fairness

-----------------------------------------------------------------------------
(* What a status shows, whatever its order.                                 *)
Shown(status) ==
  UNION {UNION {{<<status.devices[i].name, status.devices[i].endpoints[j].name, status.devices[i].endpoints[j].vlans[k]>> :
                   k \in 1..Len(status.devices[i].endpoints[j].vlans)} :
                  j \in 1..Len(status.devices[i].endpoints)} :
           i \in 1..Len(status.devices)}

(* What it should show, given the topologies.                               *)
Wanted(vlans, topologies) ==
  UNION {{<<topologies[n][i].dev, topologies[n][i].ep, topologies[n][i].vlan>> :
            i \in {j \in 1..Len(topologies[n]) : \E k \in 1..Len(vlans) : vlans[k] = topologies[n][j].vlan}} :
           n \in Node}

TypeOK ==
  /\ \A w \in Workload : api[w].exists => api[w].vlans \in Specs
  /\ topo \in [Node -> Topologies]
  /\ \A w \in Workload : Len(pending[w]) <= MaxLag
  /\ NodeTopology \in [Node -> Topologies]
  /\ \A w \in DOMAIN WorkLoad :
       w \in Workload /\ (WorkLoad[w] = Nameless \/ (WorkLoad[w].vlans \in Specs /\ WorkLoad[w].named))
  /\ DOMAIN WorkLoadStatus \subseteq Workload
  /\ pc \in {"idle", "compare"}
  /\ todo \subseteq DOMAIN new

(* In whatever order the topologies are visited, the status constructed for *)
(* a workload shows all the places its vlans are at and nothing else: each  *)
(* vlan ends up under its own endpoint and device, whatever was found       *)
(* before, as the indices of the nested loops are always those of the       *)
(* device and the endpoint meant (workload.go:17-97).                       *)
ConstructsWanted ==
  \A w \in todo : Shown(new[w]) = Wanted(WorkLoad[w].vlans, NodeTopology)

(* Nothing is constructed twice: a status has a device once, and a place as *)
(* often as it is found, by the vlans of the workload and in the topologies *)
(* - two nodes may have the same one (workload.go:29-99).                   *)
Entries(status) ==
  UNION {UNION {{<<i, j, k>> : k \in 1..Len(status.devices[i].endpoints[j].vlans)} :
                  j \in 1..Len(status.devices[i].endpoints)} :
           i \in 1..Len(status.devices)}

Matches(vlans, topologies) ==
  UNION {{<<k, n, i>> : i \in {j \in 1..Len(topologies[n]) : topologies[n][j].vlan = vlans[k]}} :
           k \in 1..Len(vlans), n \in Node}


(* No index is out of range, whatever the topologies and the order they are *)
(* visited in, as long as no port's identifier is a type of identifiers:    *)
(* only an endpoint that is found takes a vlan to an endpoint that is not   *)
(* there (workload.go:48, 67, 95).                                          *)
PortsAreNoTypes ==
  \A n, m \in Node : \A i \in 1..Len(NodeTopology[n]), j \in 1..Len(NodeTopology[m]) :
    NodeTopology[n][i].type # NodeTopology[m][j].id

IndicesInRange == PortsAreNoTypes => \A w \in DOMAIN WorkLoad : ~Panics(w)

(* The update writes a whole workload from the copy the main loop holds,    *)
(* possibly an old one: it never takes back a user's change, and what it    *)
(* declares to be the running configuration is the one specified.           *)
NoUserChangeLost ==
  [][todo' # todo =>
       \A w \in Workload :
         api'[w] # api[w] => /\ api[w].exists /\ api'[w].exists
                             /\ api'[w].vlans = api[w].vlans
                             /\ api'[w].status.running \in {<<>>, api[w].vlans}]_vars

(* A copy marked fresh is the workload the API server holds: no message     *)
(* that was under way while the main loop updated the workload makes it     *)
(* believe otherwise.                                                       *)
FreshIsCurrent ==
  \A w \in DOMAIN WorkLoad :
    WorkLoad[w].fresh => api[w].exists /\ api[w].vlans = WorkLoad[w].vlans

(* "use this to augment the workload CRD with the switches, interfaces,     *)
(* vlans information that are active in the cluster" (README.md:5): in the  *)
(* end every workload shows where its vlans are.                            *)
Augmented(w) == api[w].exists => Shown(api[w].status) = Wanted(api[w].vlans, topo)

EventuallyAugmented == \A w \in Workload : <>[]Augmented(w)

(* It does as long as no update of the workload fails that is not forgotten *)
(* later, with a restart or the workload: an update that is refused or      *)
(* fails is taken for done, and not repeated (workload.go:134, 178).        *)
Refused(w) == w \in DOMAIN WorkLoad /\ WorkLoad[w] = Nameless
Forgotten(w) == w \notin DOMAIN WorkLoad \cup DOMAIN WorkLoadStatus

AugmentedUnlessRefused ==
  \A w \in Workload : (Refused(w) ~> Forgotten(w)) => <>[]Augmented(w)

(* When nothing changes any more, no update is required (workload.go:143):  *)
(* the status constructed for a workload is the one constructed before, and *)
(* no update is made, not even one that changes nothing, of a workload none *)
(* of whose vlans are in the topologies of two nodes.                       *)
NodesOf(vlan) ==
  {n \in Node : \E i \in 1..Len(NodeTopology[n]) : NodeTopology[n][i].vlan = vlan}

OneNodeEach(w) ==
  \A k \in 1..Len(WorkLoad[w].vlans), n, m \in Node :
    {n, m} \subseteq NodesOf(WorkLoad[w].vlans[k]) => n = m

EventuallyQuiet == <>[](\A w \in todo : OneNodeEach(w) => ~Differs(w))

(* The same of all workloads.                                               *)
EventuallyAllQuiet == <>[](\A w \in todo : ~Differs(w))

(* A device of a status has no two entries for the same endpoint: another   *)
(* vlan of the endpoint is added to the entry there is (workload.go:43-48). *)
NoDuplicateEndpoint ==
  \A w \in DOMAIN new : \A i \in 1..Len(new[w].devices) :
    LET endpoints == new[w].devices[i].endpoints IN
    \A j, k \in 1..Len(endpoints) : endpoints[j].name = endpoints[k].name => j = k
=============================================================================
