--------------------------- MODULE ClusterProofs ---------------------------
(***************************************************************************)
(* Theorems about both programs around the API server, for any host, any    *)
(* workloads and any number of restarts.  They are put together from those  *)
(* of the two programs: a step of the cluster is a step of one of them, and *)
(* what it does to the other is no more than its environment may do.        *)
(***************************************************************************)
EXTENDS Cluster, FscAgentProofs, FiniteSetTheorems

(* The controller of Cluster, with what is proved about it.                 *)
CP ==
  INSTANCE FscControllerProofs WITH
    topo <- [n \in {node} |-> listing], pc <- stage, todo <- left,
    failures <- 0, crashes <- restarts, specs <- 0, topos <- 0,
    Foreign <- {}, Node <- {node}, Topologies <- Lists,
    MaxSpecs <- 0, MaxTopos <- 0, MaxFailures <- 0, MaxCrashes <- MaxRestarts

(* What the controller assumes of its constants holds in the cluster.       *)
LEMMA ControllerAssumes == CP!ControllerAssumption
<1>1. CP!IsFiniteSet({node})
  BY FS_Singleton DEF IsFiniteSet, CP!IsFiniteSet
<1>2. <<>> \in Lists
  BY DEF Lists
<1>3. \A s \in Specs : s \in Seq(CP!ToSet(s))
  BY ClusterAssumption DEF ToSet, CP!ToSet
<1>4. ASSUME NEW t \in Lists
      PROVE  t \in Seq(CP!ToSet(t))
  <2>1. t \in Seq({Entry(p) : p \in Places})
    BY DEF Lists
  <2> QED
    BY <2>1 DEF CP!ToSet
<1>5. {0, 0, 0, MaxRestarts} \subseteq Nat /\ MaxLag \in Nat \ {0} /\ Absent \notin Specs
  BY ClusterAssumption
<1>6. {} \subseteq Workload
  OBVIOUS
<1> QED
  BY <1>1, <1>2, <1>3, <1>4, <1>5, <1>6, Zenon DEF CP!ControllerAssumption

(* A place is a device, an interface and a vlan.                            *)
LEMMA PlacesAreTriples == \A t \in Places : t = <<t[1], t[2], t[3]>>
BY DEF Places, PlacesOf

(* A NodeTopology that is written of a view of places is a list of them.    *)
LEMMA ListingsAreLists ==
  ASSUME NEW view, view.vlans \subseteq Places
  PROVE  Listings(view) \subseteq Lists
<1> DEFINE S == {Entry(t) : t \in view.vlans}
           all == {Entry(t) : t \in Places}
<1>1. IsFiniteSet(view.vlans)
  BY ClusterAssumption, FS_Subset
<1>2. IsFiniteSet(S)
  <2> DEFINE f == [t \in view.vlans |-> Entry(t)]
  <2>1. f \in Surjection(view.vlans, S)
    BY DEF Surjection
  <2> QED
    BY <1>1, <2>1, FS_Surjection
<1>3. Cardinality(S) \in Nat
  BY <1>2, FS_CardinalityType
<1>4. S \subseteq all
  OBVIOUS
<1> HIDE DEF S, all
<1>5. SetToSeqs(S) \subseteq Seq(all)
  BY <1>3, <1>4 DEF SetToSeqs
<1> QED
  BY <1>5 DEF Listings, Lists, S, all

-----------------------------------------------------------------------------
(* The agent's part and the controller's, and what is between them: the     *)
(* list on the API server is one of those published.                        *)
ClusterInv ==
  /\ AgentInv /\ FoundInv
  /\ listing \in published /\ published \subseteq Lists
  /\ CP!ControllerInv /\ CP!SnapshotInv(published)

LEMMA ClusterInvInit == ClusterInit => ClusterInv
<1> SUFFICES ASSUME ClusterInit PROVE ClusterInv
  OBVIOUS
<1>1. AgentInv /\ FoundInv
  BY AgentInvInit, FoundInvInit DEF ClusterInit
<1>2. CP!Init
  BY DEF ClusterInit, Controller!Init, CP!Init, Controller!NoObject, CP!NoObject,
         Controller!Object, CP!Object, Controller!Listed, CP!Listed, Controller!EmptyMap, CP!EmptyMap
<1>3. CP!ControllerInv
  BY <1>2, ControllerAssumes, CP!ControllerInvInit
<1> DEFINE L == {<<>>}
<1>4. published = L /\ listing = <<>> /\ <<>> \in L /\ L \subseteq Lists
  BY DEF ClusterInit, Lists
<1>5. Empties.running = <<>> /\ Empties.devices = <<>>
  BY ClusterAssumption
<1>6. CP!SnapshotInv(L)
  BY <1>2, <1>4, <1>5, ControllerAssumes, CP!SnapshotInit
<1> QED
  BY <1>1, <1>3, <1>4, <1>6 DEF ClusterInv

(* A step of the agent is a step of its environment for the controller.     *)
LEMMA AgentStepKeeps ==
  ASSUME ClusterInv, AgentStep(Next)
  PROVE  ClusterInv'
<1>1. AgentInv' /\ FoundInv'
  BY AgentInvNext, FoundInvNext DEF ClusterInv, AgentStep
<1>2. listing' \in Lists
  <2>1. Listings(topo'.view) \subseteq Lists
    BY <1>1, ListingsAreLists DEF FoundInv, NothingInvented
  <2> QED
    BY <2>1 DEF AgentStep, ClusterInv
<1>3. PICK L : L = published
  OBVIOUS
<1>4. PICK M : M = published'
  OBVIOUS
<1>5. L \subseteq M /\ M \subseteq Lists /\ listing' \in M
  BY <1>2, <1>3, <1>4 DEF AgentStep, ClusterInv
<1>6. [n \in {node} |-> listing'] \in [{node} -> M] /\ [n \in {node} |-> listing'] \in [{node} -> Lists]
  BY <1>5
<1>7. CP!ControllerInv /\ CP!SnapshotInv(L)
  BY <1>3 DEF ClusterInv
<1>8. UNCHANGED <<api, pending, CP!workerVars, new, stage, left>>
  BY DEF AgentStep, controllerVars, CP!workerVars
<1>9. CP!ControllerInv' /\ CP!SnapshotInv(M)'
  BY <1>5, <1>6, <1>7, <1>8, ControllerAssumes, CP!PublishKept
<1>10. CP!SnapshotInv(published)'
  BY <1>4, <1>9 DEF CP!SnapshotInv, CP!IsSnapshot
<1> QED
  BY <1>1, <1>4, <1>5, <1>9, <1>10 DEF ClusterInv

(* A step of the controller changes nothing that the agent or its view on   *)
(* the API server depend on.                                                *)
LEMMA ControllerStepKeeps ==
  ASSUME ClusterInv, UNCHANGED <<vars, listing, published>>, [CP!Next]_(CP!vars)
  PROVE  ClusterInv'
<1>1. AgentInv' /\ FoundInv'
  BY AgentInvNext, FoundInvNext DEF ClusterInv
<1>2. PICK L : L = published
  OBVIOUS
<1>3. CP!ControllerInv /\ CP!SnapshotInv(L)
  BY <1>2 DEF ClusterInv
<1>4. CP!ControllerInv'
  BY <1>3, ControllerAssumes, CP!ControllerInvNext
<1>5. CP!SnapshotInv(L)'
  BY <1>3, ControllerAssumes, CP!SnapshotKept
<1>6. CP!SnapshotInv(published)'
  BY <1>2, <1>5 DEF CP!SnapshotInv, CP!IsSnapshot
<1> QED
  BY <1>1, <1>4, <1>6 DEF ClusterInv

(* The controller of Cluster takes the steps that were reasoned about: the  *)
(* two instances of FscController define the same.                          *)
LEMMA SameSteps ==
  /\ \A w \in Workload : Controller!BringWorkload(w) => CP!BringWorkload(w)
  /\ Controller!NodeTopologyMessage(node) => CP!NodeTopologyMessage(node)
  /\ Controller!Tick => CP!Tick
  /\ Controller!Restart => CP!Restart
<1>1. \A w \in Workload : Controller!BringWorkload(w) => CP!BringWorkload(w)
  BY Zenon DEF Controller!BringWorkload, CP!BringWorkload, Controller!WorkloadMessage,
               CP!WorkloadMessage, Controller!Put, CP!Put, Controller!Delete, CP!Delete,
               Controller!counters, CP!counters
<1>2. Controller!NodeTopologyMessage(node) => CP!NodeTopologyMessage(node)
  BY Zenon DEF Controller!NodeTopologyMessage, CP!NodeTopologyMessage, Controller!apiVars,
               CP!apiVars, Controller!counters, CP!counters
<1>3. /\ \A list, order : Controller!AddVlans(list, order) = CP!AddVlans(list, order)
      /\ \A list : Controller!Orders(list) = CP!Orders(list)
  <2>1. \A built, i, t : Controller!NewEndpoint(built, i, t) = CP!NewEndpoint(built, i, t)
    <3>1. \A built, i, t : Controller!AppendEndpoint(built, i, t) = CP!AppendEndpoint(built, i, t)
      BY Zenon DEF Controller!AppendEndpoint, CP!AppendEndpoint
    <3>2. \A built, i, vlan : Controller!AppendVlan(built, i, vlan) = CP!AppendVlan(built, i, vlan)
      BY Zenon DEF Controller!AppendVlan, CP!AppendVlan, Controller!Panic, CP!Panic
    <3>3. \A built, i : Controller!CountEndpoint(built, i) = CP!CountEndpoint(built, i)
      BY Zenon DEF Controller!CountEndpoint, CP!CountEndpoint
    <3> QED
      BY <3>1, <3>2, <3>3, Zenon DEF Controller!NewEndpoint, CP!NewEndpoint
  <2>2. \A built, i, vlan : Controller!AppendVlan(built, i, vlan) = CP!AppendVlan(built, i, vlan)
    BY Zenon DEF Controller!AppendVlan, CP!AppendVlan, Controller!Panic, CP!Panic
  <2>3. \A built, t : Controller!NewDevice(built, t) = CP!NewDevice(built, t)
    BY <2>1, Zenon DEF Controller!NewDevice, CP!NewDevice, Controller!Panic, CP!Panic, Controller!Put, CP!Put
  <2>4. \A built, t : Controller!AddMatch(built, t) = CP!AddMatch(built, t)
    <3>1. \A S : Controller!TheOne(S) = CP!TheOne(S)
      BY Zenon DEF Controller!TheOne, CP!TheOne
    <3>2. \A built, t : Controller!DeviceFound(built, t) = CP!DeviceFound(built, t)
      BY Zenon DEF Controller!DeviceFound, CP!DeviceFound
    <3>3. \A device, t : Controller!EndpointFound(device, t) = CP!EndpointFound(device, t)
      BY Zenon DEF Controller!EndpointFound, CP!EndpointFound
    <3>4. \A device, t : Controller!VlanIsNew(device, t) <=> CP!VlanIsNew(device, t)
      BY Zenon DEF Controller!VlanIsNew, CP!VlanIsNew, Controller!EndpointFound, CP!EndpointFound, Controller!ToSet, CP!ToSet
    <3> QED
      BY <2>1, <2>2, <2>3, <3>1, <3>2, <3>3, <3>4 DEF Controller!AddMatch, CP!AddMatch
  <2>5. \A built, vlan, nt : Controller!AddTopology(built, vlan, nt) = CP!AddTopology(built, vlan, nt)
    <3>1. \A built, vlan, t : Controller!AddIfMatch(built, vlan, t) = CP!AddIfMatch(built, vlan, t)
      <4>1. \A built, t : Controller!TheOne({Controller!AddMatch(b, t) : b \in {built}}) =
                            CP!TheOne({CP!AddMatch(b, t) : b \in {built}})
        BY <2>4 DEF Controller!TheOne, CP!TheOne
      <4> QED
        BY <4>1 DEF Controller!AddIfMatch, CP!AddIfMatch
    <3> QED
      BY <3>1, Zenon DEF Controller!AddTopology, CP!AddTopology
  <2>6. \A built, vlan, nodes : Controller!AddVlan(built, vlan, nodes) = CP!AddVlan(built, vlan, nodes)
    BY <2>5, Zenon DEF Controller!AddVlan, CP!AddVlan
  <2>7. \A list, order : Controller!AddVlans(list, order) = CP!AddVlans(list, order)
    BY <2>6, Zenon DEF Controller!AddVlans, CP!AddVlans, Controller!Nothing, CP!Nothing, Controller!EmptyMap, CP!EmptyMap
  <2>8. \A list : Controller!Orders(list) = CP!Orders(list)
    BY Zenon DEF Controller!Orders, CP!Orders, Controller!SetToSeqs, CP!SetToSeqs,
         Controller!Cardinality, CP!Cardinality
  <2> QED
    BY <2>7, <2>8
<1>4. Controller!TimerWork => CP!TimerWork
  <2>1. \A list, order : Controller!Constructed(list, order) = CP!Constructed(list, order)
    BY <1>3, Zenon DEF Controller!Constructed, CP!Constructed
  <2>2. \A list : Controller!ConstructedFor(list) = CP!ConstructedFor(list)
    BY <1>3, <2>1 DEF Controller!ConstructedFor, CP!ConstructedFor
  <2> QED
    BY <2>2, Zenon DEF Controller!TimerWork, CP!TimerWork, Controller!apiVars, CP!apiVars,
                 Controller!workerVars, CP!workerVars, Controller!counters, CP!counters
<1>5. Controller!Restarted => CP!Restarted
  BY Zenon DEF Controller!Restarted, CP!Restarted, Controller!EmptyMap, CP!EmptyMap,
               Controller!Listed, CP!Listed
<1>6. Controller!TimerPanics => CP!TimerPanics
  <2>1. \A w : Controller!Panics(w) => CP!Panics(w)
    BY <1>3, Zenon DEF Controller!Panics, CP!Panics
  <2> QED
    BY <1>5, <2>1, Zenon DEF Controller!TimerPanics, CP!TimerPanics, Controller!counters, CP!counters
<1>7. \A w \in Workload : Controller!NoUpdateRequired(w) => CP!NoUpdateRequired(w)
  BY Zenon DEF Controller!NoUpdateRequired, CP!NoUpdateRequired, Controller!Differs, CP!Differs,
               Controller!apiVars, CP!apiVars, Controller!workerVars, CP!workerVars,
               Controller!counters, CP!counters
<1>8. \A w \in Workload : Controller!Update(w) => CP!Update(w)
  BY Zenon DEF Controller!Update, CP!Update, Controller!Differs, CP!Differs,
               Controller!Accepted, CP!Accepted, Controller!Object, CP!Object,
               Controller!NewRevision, CP!NewRevision, Controller!Behind, CP!Behind,
               Controller!Seen, CP!Seen, Controller!workerVars, CP!workerVars,
               Controller!counters, CP!counters, Controller!Front, CP!Front
<1>9. \A w \in Workload : Controller!UpdateFails(w) => CP!UpdateFails(w)
  BY Zenon DEF Controller!UpdateFails, CP!UpdateFails, Controller!Differs, CP!Differs,
               Controller!Accepted, CP!Accepted, Controller!Nameless, CP!Nameless,
               Controller!apiVars, CP!apiVars
<1>10. Controller!Compared => CP!Compared
  BY Zenon DEF Controller!Compared, CP!Compared, Controller!EmptyMap, CP!EmptyMap,
               Controller!apiVars, CP!apiVars, Controller!counters, CP!counters
<1>11. Controller!Tick => CP!Tick
  BY <1>4, <1>6, <1>7, <1>8, <1>9, <1>10, Zenon DEF Controller!Tick, CP!Tick
<1>12. Controller!Restart => CP!Restart
  BY <1>5, Zenon DEF Controller!Restart, CP!Restart
<1> QED
  BY <1>1, <1>2, <1>11, <1>12

(* Every step of the cluster is a step of one of the two programs.          *)
LEMMA ClusterInvNext == ClusterInv /\ [ClusterNext]_clusterVars => ClusterInv'
<1> SUFFICES ASSUME ClusterInv, [ClusterNext]_clusterVars PROVE ClusterInv'
  OBVIOUS
<1>1. CASE AgentStep(Next)
  BY <1>1, AgentStepKeeps
<1>2. ASSUME NEW w \in Workload, ControllerStep(Controller!BringWorkload(w))
      PROVE  ClusterInv'
  BY <1>2, SameSteps, ControllerStepKeeps DEF ControllerStep, CP!Next
<1>3. CASE ControllerStep(Controller!NodeTopologyMessage(node))
  BY <1>3, SameSteps, ControllerStepKeeps DEF ControllerStep, CP!Next
<1>4. CASE ControllerStep(Controller!Tick)
  BY <1>4, SameSteps, ControllerStepKeeps DEF ControllerStep, CP!Next
<1>5. CASE ControllerStep(Controller!Restart)
  BY <1>5, SameSteps, ControllerStepKeeps DEF ControllerStep, CP!Next
<1>6. CASE UNCHANGED clusterVars
  <2>1. UNCHANGED CP!vars
    BY <1>6 DEF clusterVars, controllerVars, CP!vars, CP!apiVars, CP!workerVars, CP!counters
  <2> QED
    BY <1>6, <2>1, ControllerStepKeeps DEF clusterVars
<1> QED
  BY <1>1, <1>2, <1>3, <1>4, <1>5, <1>6 DEF ClusterNext

(* The status of a workload is at all times a snapshot of one NodeTopology  *)
(* that was published, through both programs and the restarts of either.    *)
THEOREM StatusesAreSnapshots == ClusterSpec => []StatusIsSnapshot
<1>1. ASSUME CP!SnapshotInv(published)
      PROVE  StatusIsSnapshot
  <2> SUFFICES ASSUME NEW w \in Workload
               PROVE  \E list \in published :
                        Controller!Shown(api[w].status) = Controller!Wanted(api[w].status.running, [n \in {node} |-> list])
    BY DEF StatusIsSnapshot
  <2>1. PICK f \in [{node} -> published] : CP!Shown(api[w].status) = CP!Wanted(api[w].status.running, f)
    BY <1>1 DEF CP!SnapshotInv, CP!IsSnapshot
  <2>2. f[node] \in published /\ f = [n \in {node} |-> f[node]]
    OBVIOUS
  <2>3. CP!Shown(api[w].status) = Controller!Shown(api[w].status)
    BY DEF CP!Shown, Controller!Shown
  <2>4. CP!Wanted(api[w].status.running, f) = Controller!Wanted(api[w].status.running, f)
    BY DEF CP!Wanted, Controller!Wanted
  <2> QED
    BY <2>1, <2>2, <2>3, <2>4
<1>2. ClusterInv => StatusIsSnapshot
  BY <1>1 DEF ClusterInv
<1> QED
  BY <1>2, ClusterInvInit, ClusterInvNext, PTL DEF ClusterSpec

(* No place is shown on a workload that no worlds of the host account for:  *)
(* what the agent does not invent, the controller does not either.          *)
THEOREM StatusesInventNothing == ClusterSpec => []StatusInventsNothing
<1>1. ASSUME CP!SnapshotInv(published), published \subseteq Lists
      PROVE  StatusInventsNothing
  <2> SUFFICES ASSUME NEW w \in Workload, NEW p \in CP!Shown(api[w].status)
               PROVE  p \in Places
    BY DEF StatusInventsNothing, CP!Shown, Controller!Shown
  <2>1. PICK f \in [{node} -> published] : CP!Shown(api[w].status) = CP!Wanted(api[w].status.running, f)
    BY <1>1 DEF CP!SnapshotInv, CP!IsSnapshot
  <2>2. PICK i \in 1..Len(f[node]) : p = <<f[node][i].dev, f[node][i].ep, f[node][i].vlan>>
    BY <2>1 DEF CP!Wanted
  <2>3. f[node] \in Seq({Entry(t) : t \in Places})
    BY <1>1 DEF Lists
  <2>4. PICK t \in Places : f[node][i] = Entry(t)
    BY <2>2, <2>3
  <2>5. p = <<t[1], t[2], t[3]>>
    BY <2>2, <2>4 DEF Entry
  <2> QED
    BY <2>5, PlacesAreTriples
<1>2. ClusterInv => StatusInventsNothing
  BY <1>1 DEF ClusterInv
<1> QED
  BY <1>2, ClusterInvInit, ClusterInvNext, PTL DEF ClusterSpec

(* With the agent of FscAgent in place of Publish, and its restarts, the    *)
(* controller constructs complete statuses still, and the copies it updates *)
(* from are current: no step of the agent disturbs either.                  *)
THEOREM ControllerHolds == ClusterSpec => [](Controller!FreshIsCurrent /\ Controller!ConstructsWanted)
<1>1. ClusterInv => Controller!FreshIsCurrent /\ Controller!ConstructsWanted
  BY DEF ClusterInv, CP!ControllerInv, CP!FreshIsCurrent, Controller!FreshIsCurrent,
         CP!ConstructsWanted, Controller!ConstructsWanted, CP!Shown, Controller!Shown,
         CP!Wanted, Controller!Wanted
<1> QED
  BY <1>1, ClusterInvInit, ClusterInvNext, PTL DEF ClusterSpec

(* The cluster implements FscAgent, its fairness aside: every step is one   *)
(* of the agent or leaves the agent as it is.                               *)
THEOREM ClusterRunsAgent == ClusterSpec => Init /\ [][Next]_vars
<1>1. ClusterInit => Init
  BY DEF ClusterInit
<1>2. [ClusterNext]_clusterVars => [Next]_vars
  BY DEF ClusterNext, AgentStep, ControllerStep, clusterVars
<1> QED
  BY <1>1, <1>2, PTL DEF ClusterSpec
=============================================================================
