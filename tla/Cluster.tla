------------------------------ MODULE Cluster ------------------------------
(***************************************************************************)
(* Both programs around one API server: the fsc-agent of a node, which      *)
(* publishes the node's NodeTopology, and the fsc-controller, which reads   *)
(* it and writes the status of the workloads.                               *)
(*                                                                          *)
(* The agent is FscAgent, the controller FscController with the agent in    *)
(* place of Publish.  Where the agent's module has a NodeTopology as the    *)
(* set of its vlans, the controller's has it as a list: the agent ranges    *)
(* over Go maps when it writes it, so the list is in any order it may meet  *)
(* the devices, endpoints and vlans in.                                     *)
(***************************************************************************)
EXTENDS FscAgent, SequencesExt

CONSTANTS
  node,         \* the node
  Workload, Specs, Absent, Empties, MaxLag,   \* see FscController
  MaxRestarts   \* bound on restarts of the controller

(* A place the devices of a NodeTopology list, and the lists there can be.  *)
(* The agent's views leave the ports out; they are taken to be named, by a  *)
(* name that is not the word for it (FscController!PortsAreNoTypes).        *)
Entry(t) == [dev |-> t[1], ep |-> t[2], id |-> "port", type |-> "ifname", vlan |-> t[3]]
Lists == Seq({Entry(t) : t \in Places})

ASSUME ClusterAssumption ==
  /\ IsFiniteSet(Places)
  /\ Absent \notin Specs
  /\ \A s \in Specs : s \in Seq(ToSet(s))
  /\ Empties.running = <<>> /\ Empties.devices = <<>>
  /\ MaxLag \in Nat \ {0} /\ MaxRestarts \in Nat

VARIABLES
  listing,      \* the devices of the NodeTopology, as the API server has them
  published,    \* the lists there were (no part of the programs: see StatusIsSnapshot)
  api, pending, \* the workloads
  NodeTopology, WorkLoad, WorkLoadStatus, new, stage, left,  \* the controller's
  restarts

controllerVars == <<api, pending, NodeTopology, WorkLoad, WorkLoadStatus, new, stage, left, restarts>>
clusterVars == <<vars, listing, published, controllerVars>>

(* The lists a view may be written as.  The vlans of a device are together, *)
(* and in it those of an endpoint.                                          *)
Together(list, fields) ==
  \A i, k \in 1..Len(list) : \A j \in i..k, f \in fields :
    (\A g \in fields : list[i][g] = list[k][g]) => list[i][f] = list[j][f]

Listings(view) ==
  {list \in SetToSeqs({Entry(t) : t \in view.vlans}) :
     Together(list, {"dev"}) /\ Together(list, {"dev", "ep"})}

(* The topologies the agent can publish take the place of Topologies.       *)
Controller ==
  INSTANCE FscController WITH
    topo <- [n \in {node} |-> listing], pc <- stage, todo <- left,
    failures <- 0, crashes <- restarts, specs <- 0, topos <- 0,
    Foreign <- {}, Node <- {node}, Topologies <- Lists,
    MaxSpecs <- 0, MaxTopos <- 0, MaxFailures <- 0, MaxCrashes <- MaxRestarts

ClusterInit == Init /\ listing = <<>> /\ published = {<<>>} /\ Controller!Init

(* A step of the agent, which writes the list anew with every update that   *)
(* succeeds, even of a view that is the same.                               *)
Written == pc = "publish" /\ nodeTopo /\ nodeTopo' /\ pc' = "idle"

AgentStep(step) ==
  /\ step
  /\ listing' \in (IF Written THEN Listings(topo'.view) ELSE {listing})
  /\ published' = published \cup {listing'}
  /\ UNCHANGED controllerVars

ControllerStep(step) == UNCHANGED <<vars, listing, published>> /\ step

ClusterNext ==
  \/ AgentStep(Next)
  \/ \E w \in Workload : ControllerStep(Controller!BringWorkload(w))
  \/ ControllerStep(Controller!NodeTopologyMessage(node))
  \/ ControllerStep(Controller!Tick)
  \/ ControllerStep(Controller!Restart)

(* As in the two modules.                                                   *)
ClusterFairness ==
  /\ WF_clusterVars(AgentStep(Boot \/ Tick \/ Restart))
  /\ SF_clusterVars(AgentStep(Message))
  /\ WF_clusterVars(ControllerStep(Controller!Tick))
  /\ \A w \in Workload : SF_clusterVars(ControllerStep(Controller!BringWorkload(w)))
  /\ SF_clusterVars(ControllerStep(Controller!NodeTopologyMessage(node)))

ClusterSpec == ClusterInit /\ [][ClusterNext]_clusterVars /\ ClusterFairness

-----------------------------------------------------------------------------
(* However the agent's updates, the messages and the ticks interleave, and  *)
(* whichever program is restarted, the status of a workload is a snapshot:  *)
(* it shows the places of its vlans in one NodeTopology that was published, *)
(* all of them, and nothing of an earlier or a later one (workload.go:13,   *)
(* fscctrlctrlr_controller.go:93).                                          *)
StatusIsSnapshot ==
  \A w \in Workload :
    api[w].exists => \E list \in published :
      Controller!Shown(api[w].status) = Controller!Wanted(api[w].status.running, [n \in {node} |-> list])

(* So whatever fails or is restarted, and however old what a program works  *)
(* from may be, no workload is ever shown at a place that no worlds of the  *)
(* host account for.                                                        *)
StatusInventsNothing == \A w \in Workload : Controller!Shown(api[w].status) \subseteq Places

(* "The fsc-controller uses this to augment the workload CRD with the       *)
(* switches, interfaces, vlans information that are active in the cluster"  *)
(* (README.md:5): once the host is stable, the status of each workload      *)
(* shows the places where the host's links, cables and attachments put its  *)
(* vlans, through both programs and the restarts of either.  Left out are   *)
(* an agent that was restarted and has nothing to show, as in               *)
(* EventuallyRecovers, and a workload of which an update was refused, by    *)
(* what the controller had of its own earlier updates, and not forgotten.   *)
ExpectedOf(spec) == {t \in ExpectedNow : \E i \in 1..Len(spec) : spec[i] = t[3]}

WorkloadsFollowHost ==
  \A w \in Workload :
    (Controller!Refused(w) ~> Controller!Forgotten(w)) =>
      <>[](\/ ExpectedNow = {} /\ failures + crashes > 0
           \/ api[w].exists => Controller!Shown(api[w].status) = ExpectedOf(api[w].vlans))
=============================================================================
