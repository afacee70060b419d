------------------------------ MODULE FscAgent ------------------------------
(***************************************************************************)
(* The main loop of fsc-agent (fscagentctrlr): every timer tick it reads    *)
(* the host's links from netlinkd and its neighbours from lldpd, carries    *)
(* them through three caches                                                *)
(*                                                                          *)
(*    linkCache --> lldpLinkCache --> Devices                               *)
(*                                                                          *)
(* and writes Devices to the API server as the node's NodeTopology when it  *)
(* finds that something changed.  Each cache is kept by mark and sweep: an  *)
(* update marks the entries it meets with a ChangeFlag, the validation that *)
(* follows deletes the entries left unmarked and clears the marks.          *)
(*                                                                          *)
(* The caches are flat functions: the nested Go maps linkCache[name][vlan], *)
(* lldpLinkCache[itf][vlan] and Devices[dev].Endpoints[itf].Vlans[vlan] are *)
(* functions of <<name, vlan>>, <<itf, vlan>> and <<dev, itf, vlan>>.  Go   *)
(* ranges over a map in no particular order: a loop over one is a set todo  *)
(* of the keys left, and an action that takes any of them.                  *)
(*                                                                          *)
(* A link's MTU, hardware address and operational state are one value attr. *)
(***************************************************************************)
EXTENDS Naturals, FiniteSets

CONSTANTS
  Hosts,         \* per host, the set of worlds that can be around its agent: see WorldsOK
  InitialWorlds, \* the worlds it can start in
  NoItf,         \* the name of an sriov attachment's interface before it is known
  NoResource,    \* no resource name
  NoVlan,        \* the "vlan" of a physical link's name
  MayFail,       \* the calls that can fail: some of "netlink", "lldp", "api"
  MaxChanges,    \* bound on changes of the world
  MaxFailures,   \* bound on failed calls
  MaxCrashes     \* bound on crashes, those of a failed lldp call aside

(* A link name is <<itf, vlan>>: a sub-interface "eth0.100" is <<"eth0",    *)
(* 100>>, the physical "eth0" is <<"eth0", NoVlan>>.                        *)
Phys(itf) == <<itf, NoVlan>>
Sub(itf, vlan) == <<itf, vlan>>

(* A world has the host's links and its neighbours, by interface, and what  *)
(* the watchers follow: the network attachment definitions and the          *)
(* interface the configmap gives each sriov resource.                       *)
Worlds == UNION Hosts

ASSUME WorldsOK ==
  /\ InitialWorlds \subseteq Worlds
  /\ \A w \in Worlds :
       /\ \A l, m \in w.links : l.name = m.name => l = m
       /\ \A a \in DOMAIN w.nads :
            w.nads[a].Type \in {"sriov", "ipvlan", "macvlan", "other", "invalid"}
  /\ NoVlan \notin Nat
  /\ MayFail \subseteq {"netlink", "lldp", "api"}
  /\ MaxChanges \in Nat /\ MaxFailures \in Nat /\ MaxCrashes \in Nat

VARIABLES
  world,         \* the environment
  topo,          \* the NodeTopology on the API server
  multusConfig, sriovConfig,
  linkCache, lldpLinkCache,
  Devices,       \* the device names
  endpoints,     \* Devices[dev].Endpoints[itf], by <<dev, itf>>
  vlans,         \* the ChangeFlag of each vlan, by <<dev, itf, vlan>>
  nodeTopo,      \* c.nodeTopo: does it carry the node's name?
  nll, nbrs,     \* what the tick has read from the host
  pc, todo,      \* where the main loop is, and the keys left to visit
  changes, failures, crashes

configVars == <<multusConfig, sriovConfig>>
deviceVars == <<Devices, endpoints, vlans>>
cacheVars == <<linkCache, lldpLinkCache, deviceVars>>
readVars == <<nll, nbrs>>
counters == <<changes, failures, crashes>>
vars == <<world, topo, configVars, cacheVars, nodeTopo, readVars, pc, todo, counters>>

-----------------------------------------------------------------------------
(* Functions as Go maps. *)
Empty == [x \in {} |-> {}]
Put(f, x, v) == [y \in DOMAIN f \cup {x} |-> IF y = x THEN v ELSE f[y]]
Keep(f, S) == [x \in DOMAIN f \cap S |-> f[x]]

(* The entries of a cache that an update marked.                            *)
Marked(cache) == {x \in DOMAIN cache : cache[x].ChangeFlag # ""}

InCache(cache, name) == \E x \in DOMAIN cache : x[1] = name

NoView == [devices |-> {}, endpoints |-> Empty, vlans |-> {}]

(* The memory of a process that has just started.                           *)
Init ==
  /\ world \in InitialWorlds
  /\ topo = [exists |-> FALSE, view |-> NoView]
  /\ multusConfig = Empty /\ sriovConfig = Empty
  /\ linkCache = Empty /\ lldpLinkCache = Empty
  /\ Devices = {} /\ endpoints = Empty /\ vlans = Empty
  /\ nodeTopo = FALSE
  /\ nll = {} /\ nbrs = Empty
  /\ pc = "boot" /\ todo = {}
  /\ changes = 0 /\ failures = 0 /\ crashes = 0

-----------------------------------------------------------------------------
(* The environment.  The main loop looks at it when it is idle and at two   *)
(* points of a tick, so it changes just before those only.                  *)
WorldChange(w) ==
  /\ changes < MaxChanges
  /\ w # world
  /\ \E h \in Hosts : {world, w} \subseteq h
  /\ pc \in {"idle", "neighbours", "down"}
  /\ world' = w
  /\ changes' = changes + 1
  /\ UNCHANGED <<topo, configVars, cacheVars, nodeTopo, readVars, pc, todo, failures, crashes>>

Fails(call) ==
  /\ call \in MayFail
  /\ failures < MaxFailures
  /\ failures' = failures + 1

(* Bug: a NodeTopology that is found is not kept.                           *)
BootFoundForgets ==
  /\ pc = "boot"
  /\ topo.exists
  /\ pc' = "idle"
  /\ UNCHANGED <<world, topo, configVars, cacheVars, nodeTopo, readVars, todo, counters>>

(* Run before its main loop: get the NodeTopology, or create it; an error   *)
(* of either is retried.                                                    *)
BootFound ==
  /\ pc = "boot"
  /\ topo.exists
  /\ nodeTopo' = TRUE
  /\ pc' = "idle"
  /\ UNCHANGED <<world, topo, configVars, cacheVars, readVars, todo, counters>>

BootCreate ==
  /\ pc = "boot"
  /\ ~topo.exists
  /\ topo' = [topo EXCEPT !.exists = TRUE]
  /\ nodeTopo' = TRUE
  /\ pc' = "idle"
  /\ UNCHANGED <<world, configVars, cacheVars, readVars, todo, counters>>

BootFails ==
  /\ pc = "boot"
  /\ Fails("api")
  /\ UNCHANGED <<world, topo, configVars, cacheVars, nodeTopo, readVars, pc, todo, changes, crashes>>

(* parseConfig: an sriov attachment names a resource, if anything, and gets *)
(* the name of its interface later, from the configmap; its own vlan, which *)
(* is read to find a namespace only, is left out.  An ipvlan or a macvlan   *)
(* one has a master that is split into interface and vlan, 0 if there is    *)
(* none or it is not a number.  Of any other type nothing is kept.          *)
NetwAtt(kind, itf, vlan, resource) ==
  [Kind |-> kind, ItfceName |-> itf, Vlan |-> vlan, ResourceName |-> resource]

ParseConfig(spec) ==
  CASE spec.Type = "sriov" -> NetwAtt("sriov", NoItf, 0, spec.resource)
    [] spec.Type \in {"ipvlan", "macvlan"} ->
         NetwAtt(spec.Type, spec.itf, IF spec.vlan \in Nat THEN spec.vlan ELSE 0, NoResource)
    [] OTHER -> NetwAtt("", NoItf, 0, NoResource)

(* What is not the expected JSON is logged, and no message is sent.         *)
Parses(spec) == spec.Type # "invalid"

Unnamed(na) == IF na.Kind = "sriov" THEN [na EXCEPT !.ItfceName = NoItf] ELSE na

(* The messages of the multus watcher.  By ObjectWatcher its messages bring *)
(* the main loop's map to what the API server holds.                        *)
MultusUpdate(a) ==
  /\ pc = "idle"
  /\ Parses(world.nads[a])
  /\ a \in DOMAIN multusConfig => Unnamed(multusConfig[a]) # ParseConfig(world.nads[a])
  /\ multusConfig' = Put(multusConfig, a, ParseConfig(world.nads[a]))
  /\ UNCHANGED <<world, topo, sriovConfig, cacheVars, nodeTopo, readVars, pc, todo, counters>>

MultusDelete(a) ==
  /\ pc = "idle"
  /\ a \notin DOMAIN world.nads
  /\ multusConfig' = Keep(multusConfig, DOMAIN multusConfig \ {a})
  /\ UNCHANGED <<world, topo, sriovConfig, cacheVars, nodeTopo, readVars, pc, todo, counters>>

(* The map in a SriovUpdate is the watcher's own, which only ever gains     *)
(* resources; SriovDelete sends it unchanged, and does nothing.             *)
SriovUpdate(r) ==
  /\ pc = "idle"
  /\ r \in DOMAIN sriovConfig => sriovConfig[r] # world.resources[r]
  /\ sriovConfig' = Put(sriovConfig, r, world.resources[r])
  /\ UNCHANGED <<world, topo, multusConfig, cacheVars, nodeTopo, readVars, pc, todo, counters>>

(* TimerWork: the tick begins with the interface names of the sriov         *)
(* attachments.                                                             *)
TimerWork ==
  /\ pc = "idle"
  /\ multusConfig' =
       [a \in DOMAIN multusConfig |->
          IF multusConfig[a].Kind = "sriov" /\ multusConfig[a].ResourceName \in DOMAIN sriovConfig
          THEN [multusConfig[a] EXCEPT !.ItfceName = sriovConfig[multusConfig[a].ResourceName]]
          ELSE multusConfig[a]]
  /\ pc' = "netlink"
  /\ UNCHANGED <<world, topo, sriovConfig, cacheVars, nodeTopo, readVars, todo, counters>>

-----------------------------------------------------------------------------
(* UpdateNetLinkCache and ValidateNetLinkCacheChanges. *)

(* Is link l the one attachment na is about, and with which vlans?          *)
Matches(na, l) ==
  \/ na.Kind = "sriov" /\ Phys(na.ItfceName) = l.name
  \/ na.Kind \in {"ipvlan", "macvlan"} /\ Sub(na.ItfceName, na.Vlan) = l.name

VlansOf(na, l) == IF na.Kind = "sriov" THEN l.vfs \ {0} ELSE {na.Vlan}

AddedLink(l) ==
  [attr |-> l.attr, ParentIndex |-> l.parent, SlaveLinks |-> {},
   ChangeFlag |-> "newlyAdded", LldpChangeFlag |-> FALSE]

(* Bug: every update counts as a change.                                    *)
UpdatedLinkAlwaysChanged(la, l) == [la EXCEPT !.ChangeFlag = "configChange"]

(* updateSocketLinkVlanInCache compares, and keeps the values it had.       *)
UpdatedLink(la, l) ==
  [la EXCEPT !.ChangeFlag =
     IF la.attr = l.attr /\ la.ParentIndex = l.parent THEN "noChange" ELSE "configChange"]

(* One attachment against one link: a link in the cache has its known vlans *)
(* updated, another one is added with all of its vlans.                     *)
UpdateLink(cache, na, l) ==
  LET keys == {<<l.name, v>> : v \in VlansOf(na, l)} IN
  IF InCache(cache, l.name)
  THEN [x \in DOMAIN cache |-> IF x \in keys THEN UpdatedLink(cache[x], l) ELSE cache[x]]
  ELSE [x \in DOMAIN cache \cup keys |-> IF x \in keys THEN AddedLink(l) ELSE cache[x]]

(* The links below a link: those its parent is the master of, or itself.    *)
Slaves(name, parent, links) ==
  IF parent = 0 THEN {name} ELSE {l.name : l \in {m \in links : m.master = parent}}

(* Bug: the list of slaves is not emptied between two links.                *)
UpdateSlavesGathers(cache, links) ==
  [x \in DOMAIN cache |->
     IF cache[x].ChangeFlag = "" THEN cache[x]
     ELSE [cache[x] EXCEPT
             !.SlaveLinks = UNION {Slaves(y[1], cache[y].ParentIndex, links) : y \in DOMAIN cache}]]

UpdateSlaves(cache, links) ==
  [x \in DOMAIN cache |->
     LET la == cache[x]
         slaves == Slaves(x[1], la.ParentIndex, links) IN
     IF la.ChangeFlag = "" THEN la
     ELSE [la EXCEPT
             !.SlaveLinks = slaves,
             !.ChangeFlag = IF la.ParentIndex # 0 /\ la.SlaveLinks # slaves THEN "stateChange" ELSE @]]

NetLinkRead ==
  /\ pc = "netlink"
  /\ nll' = world.links
  /\ todo' = DOMAIN multusConfig
  /\ pc' = "links"
  /\ UNCHANGED <<world, topo, configVars, cacheVars, nodeTopo, nbrs, counters>>

(* No netlinkd: UpdateNetLinkCache returns at once, and the tick goes on.   *)
NetLinkFails ==
  /\ pc = "netlink"
  /\ Fails("netlink")
  /\ nll' = {}
  /\ todo' = {}
  /\ pc' = "links"
  /\ UNCHANGED <<world, topo, configVars, cacheVars, nodeTopo, nbrs, changes, crashes>>

UpdateNetLinkCache(a) ==
  /\ pc = "links"
  /\ a \in todo
  /\ LET matching == {l \in nll : Matches(multusConfig[a], l)}
         updated == IF matching = {} THEN linkCache
                    ELSE UpdateLink(linkCache, multusConfig[a], CHOOSE l \in matching : TRUE)
     IN linkCache' = UpdateSlaves(updated, nll)
  /\ todo' = todo \ {a}
  /\ UNCHANGED <<world, topo, configVars, lldpLinkCache, deviceVars, nodeTopo, readVars, pc, counters>>

SweepLinks(cache) ==
  [x \in Marked(cache) |->
     [cache[x] EXCEPT !.ChangeFlag = "", !.LldpChangeFlag = (cache[x].ChangeFlag # "noChange")]]

ValidateNetLinkCacheChanges ==
  /\ pc = "links"
  /\ todo = {}
  /\ linkCache' = SweepLinks(linkCache)
  /\ pc' = "neighbours"
  /\ UNCHANGED <<world, topo, configVars, lldpLinkCache, deviceVars, nodeTopo, readVars, todo, counters>>

-----------------------------------------------------------------------------
(* UpdateLldpLinkCache and ValidateLldpLinkCacheChanges. *)

LldpRead ==
  /\ pc = "neighbours"
  /\ nbrs' = world.nbrs
  /\ todo' = DOMAIN linkCache
  /\ pc' = "lldp"
  /\ UNCHANGED <<world, topo, configVars, cacheVars, nodeTopo, nll, counters>>

(* lldpcli failed: the error is logged, and its nil answer is used for the  *)
(* first slave link there is, which ends the process.                       *)
LldpFails ==
  /\ pc = "neighbours"
  /\ Fails("lldp")
  /\ nbrs' = Empty
  /\ todo' = {}
  /\ pc' = IF \E x \in DOMAIN linkCache : linkCache[x].SlaveLinks # {} THEN "down" ELSE "lldp"
  /\ UNCHANGED <<world, topo, configVars, cacheVars, nodeTopo, nll, changes, crashes>>

(* An endpoint of link entry la, seen by neighbour nb.                      *)
LldpEndPoint(la, nb, flag, dcf) ==
  [attr |-> la.attr, ParentIndex |-> la.ParentIndex, dev |-> nb.dev, port |-> nb.port,
   ChangeFlag |-> flag, DeviceLinkChangeFlag |-> dcf]

(* The link's slaves with a neighbour are visited in turn: an interface the *)
(* cache knows gets the link's change flag, which is then reset, so that    *)
(* only the first of them shows the change.                                 *)
UpdateLldpLinkCache(x) ==
  /\ pc = "lldp"
  /\ x \in todo
  /\ LET la == linkCache[x]
         seen == {s \in la.SlaveLinks : s \in DOMAIN nbrs}
         known == {s \in seen : InCache(lldpLinkCache, s)}
         entry(s, first) ==
           IF s \notin known THEN LldpEndPoint(la, nbrs[s], "newlyAdded", TRUE)
           ELSE IF la.LldpChangeFlag /\ s = first THEN LldpEndPoint(la, nbrs[s], "someChange", TRUE)
           ELSE LldpEndPoint(la, nbrs[s], "noChange", FALSE)
     IN /\ \E first \in IF known = {} THEN {x[1]} ELSE known :
             lldpLinkCache' =
               [y \in DOMAIN lldpLinkCache \cup {<<s, x[2]>> : s \in seen} |->
                  IF y[2] = x[2] /\ y[1] \in seen THEN entry(y[1], first) ELSE lldpLinkCache[y]]
        /\ linkCache' = [linkCache EXCEPT ![x].LldpChangeFlag = (@ /\ known = {})]
  /\ todo' = todo \ {x}
  /\ UNCHANGED <<world, topo, configVars, deviceVars, nodeTopo, readVars, pc, counters>>

(* Bug: the marks are not cleared.                                          *)
SweepLldpKeepsMarks(cache) == [y \in Marked(cache) |-> cache[y]]

(* Bug: an interface is swept for the first of its vlans that is gone.      *)
SweepLldpWholeItf(cache) ==
  [y \in {z \in Marked(cache) : \A u \in DOMAIN cache : u[1] = z[1] => u \in Marked(cache)} |->
     [cache[y] EXCEPT !.ChangeFlag = ""]]

SweepLldp(cache) == [y \in Marked(cache) |-> [cache[y] EXCEPT !.ChangeFlag = ""]]

ValidateLldpLinkCacheChanges ==
  /\ pc = "lldp"
  /\ todo = {}
  /\ lldpLinkCache' = SweepLldp(lldpLinkCache)
  /\ todo' = DOMAIN lldpLinkCache'
  /\ pc' = "devices"
  /\ UNCHANGED <<world, topo, configVars, linkCache, deviceVars, nodeTopo, readVars, counters>>

-----------------------------------------------------------------------------
(* DeviceCentricView, ValidateDeviceChanges and UpdateK8sNodeTopology. *)

(* The device, the endpoint and the vlan of an lldp entry are created if    *)
(* missing; a device or an endpoint that exists keeps its values.           *)
DeviceCentricView(y) ==
  /\ pc = "devices"
  /\ y \in todo
  /\ LET ep == lldpLinkCache[y]
         endpoint == <<ep.dev, y[1]>>
         vlan == <<ep.dev, y[1], y[2]>>
         known == vlan \in DOMAIN vlans
         flag == IF ~known THEN "newlyAdded"
                 ELSE IF ep.DeviceLinkChangeFlag THEN "someChange" ELSE "noChange"
     IN /\ Devices' = Devices \cup {ep.dev}
        /\ endpoints' = IF endpoint \in DOMAIN endpoints THEN endpoints
                        ELSE Put(endpoints, endpoint,
                                 [port |-> ep.port, attr |-> ep.attr, ParentIndex |-> ep.ParentIndex])
        /\ vlans' = Put(vlans, vlan, flag)
        /\ lldpLinkCache' =
             IF known THEN [lldpLinkCache EXCEPT ![y].DeviceLinkChangeFlag = FALSE] ELSE lldpLinkCache
  /\ todo' = todo \ {y}
  /\ UNCHANGED <<world, topo, configVars, linkCache, nodeTopo, readVars, pc, counters>>

(* Vlans are swept, and endpoints left without one; devices stay.  Every    *)
(* vlan visited overwrites the verdict, so the last one decides.            *)
SweepVlans(flags) == [t \in {u \in DOMAIN flags : flags[u] # ""} |-> ""]

(* Bug: a vlan that is swept is not a change.                               *)
VerdictsIgnoreSwept(flags) ==
  IF flags = Empty THEN {FALSE} ELSE {flags[last] \notin {"", "noChange"} : last \in DOMAIN flags}

Verdicts(flags) ==
  IF flags = Empty THEN {FALSE} ELSE {flags[last] # "noChange" : last \in DOMAIN flags}

(* Bug: endpoints left without a vlan stay.                                 *)
ValidateDeviceChangesKeepsEndpoints ==
  /\ pc = "devices"
  /\ todo = {}
  /\ vlans' = SweepVlans(vlans)
  /\ \E changed \in Verdicts(vlans) : pc' = IF changed THEN "publish" ELSE "idle"
  /\ UNCHANGED <<world, topo, configVars, linkCache, lldpLinkCache, Devices, endpoints, nodeTopo, readVars, todo, counters>>

ValidateDeviceChanges ==
  /\ pc = "devices"
  /\ todo = {}
  /\ vlans' = SweepVlans(vlans)
  /\ endpoints' = Keep(endpoints, {<<t[1], t[2]>> : t \in DOMAIN vlans'})
  /\ \E changed \in Verdicts(vlans) : pc' = IF changed THEN "publish" ELSE "idle"
  /\ UNCHANGED <<world, topo, configVars, linkCache, lldpLinkCache, Devices, nodeTopo, readVars, todo, counters>>

(* What the NodeTopology shows of Devices.                                  *)
View ==
  [devices |-> Devices,
   endpoints |-> [e \in DOMAIN endpoints |->
                    [port |-> endpoints[e].port, MTU |-> endpoints[e].attr,
                     LAG |-> endpoints[e].ParentIndex # 0]],
   vlans |-> DOMAIN vlans]

UpdateK8sNodeTopology ==
  /\ pc = "publish"
  /\ nodeTopo
  /\ topo' = [topo EXCEPT !.view = View]
  /\ pc' = "idle"
  /\ UNCHANGED <<world, configVars, cacheVars, nodeTopo, readVars, todo, counters>>

(* The client returns an empty object with an error, and c.nodeTopo is set  *)
(* to it: it has no name, and an update without a name fails in turn.       *)
UpdateFails ==
  /\ pc = "publish"
  /\ nodeTopo
  /\ Fails("api")
  /\ nodeTopo' = FALSE
  /\ pc' = "idle"
  /\ UNCHANGED <<world, topo, configVars, cacheVars, readVars, todo, changes, crashes>>

UpdateNameless ==
  /\ pc = "publish"
  /\ ~nodeTopo
  /\ pc' = "idle"
  /\ UNCHANGED <<world, topo, configVars, cacheVars, nodeTopo, readVars, todo, counters>>

-----------------------------------------------------------------------------
(* The process ends, with all that is not on the API server, and its        *)
(* container is restarted.                                                  *)
Crash ==
  /\ pc # "down"
  /\ crashes < MaxCrashes
  /\ crashes' = crashes + 1
  /\ pc' = "down"
  /\ UNCHANGED <<world, topo, configVars, cacheVars, nodeTopo, readVars, todo, changes, failures>>

Restart ==
  /\ pc = "down"
  /\ multusConfig' = Empty /\ sriovConfig' = Empty
  /\ linkCache' = Empty /\ lldpLinkCache' = Empty
  /\ Devices' = {} /\ endpoints' = Empty /\ vlans' = Empty
  /\ nodeTopo' = FALSE
  /\ nll' = {} /\ nbrs' = Empty
  /\ pc' = "boot" /\ todo' = {}
  /\ UNCHANGED <<world, topo, counters>>

-----------------------------------------------------------------------------
Tick ==
  \/ TimerWork
  \/ NetLinkRead
  \/ \E a \in DOMAIN multusConfig : UpdateNetLinkCache(a)
  \/ ValidateNetLinkCacheChanges
  \/ LldpRead
  \/ \E x \in DOMAIN linkCache : UpdateLldpLinkCache(x)
  \/ ValidateLldpLinkCacheChanges
  \/ \E y \in DOMAIN lldpLinkCache : DeviceCentricView(y)
  \/ ValidateDeviceChanges
  \/ UpdateK8sNodeTopology \/ UpdateNameless

Boot == BootFound \/ BootCreate

Message ==
  \/ \E a \in DOMAIN world.nads : MultusUpdate(a)
  \/ \E a \in DOMAIN multusConfig : MultusDelete(a)
  \/ \E r \in DOMAIN world.resources : SriovUpdate(r)

Failure == BootFails \/ NetLinkFails \/ LldpFails \/ UpdateFails

Next ==
  \/ \E w \in Worlds : WorldChange(w)
  \/ Boot \/ Message \/ Tick \/ Failure \/ Crash \/ Restart

(* The main loop runs and is restarted.  A message is received in the end:  *)
(* the senders blocked on workCh are served in turn, so the timer does not  *)
(* overtake a watcher forever.                                              *)
Fairness == WF_vars(Boot \/ Tick \/ Restart) /\ SF_vars(Message)

Spec == Init /\ [][Next]_vars /\ Fairness

-----------------------------------------------------------------------------
Flags == {"", "newlyAdded", "noChange", "someChange", "configChange", "stateChange"}

TypeOK ==
  /\ world \in Worlds
  /\ topo.exists \in BOOLEAN
  /\ \A x \in DOMAIN linkCache :
       linkCache[x].ChangeFlag \in Flags /\ linkCache[x].LldpChangeFlag \in BOOLEAN
  /\ \A y \in DOMAIN lldpLinkCache :
       lldpLinkCache[y].ChangeFlag \in Flags /\ lldpLinkCache[y].DeviceLinkChangeFlag \in BOOLEAN
  /\ \A t \in DOMAIN vlans : vlans[t] \in Flags /\ t[1] \in Devices
  /\ DOMAIN endpoints = {<<t[1], t[2]>> : t \in DOMAIN vlans}
  /\ nodeTopo \in BOOLEAN
  /\ pc \in {"boot", "idle", "netlink", "links", "neighbours", "lldp", "devices", "publish", "down"}

(* A mark never outlives the pass over the cache it was set for: a mark     *)
(* left behind would save an entry whose link is gone from the next sweep   *)
(* (netlink.go:266, lldp.go:192, device.go:107).                            *)
NoStaleMark ==
  /\ pc \notin {"links", "down"} => Marked(linkCache) = {}
  /\ pc \notin {"lldp", "down"} => Marked(lldpLinkCache) = {}
  /\ pc \notin {"devices", "down"} => \A t \in DOMAIN vlans : vlans[t] = ""

(* The vlans an agent that reads this much of the world should show.        *)
Expected(config, links, neighbours) ==
  UNION {UNION {UNION {{<<neighbours[s].dev, s, v>> : v \in VlansOf(config[a], l)} :
                         s \in Slaves(l.name, l.parent, links) \cap DOMAIN neighbours} :
                  l \in {m \in links : Matches(config[a], m)}} :
           a \in DOMAIN config}

(* The attachments an agent can hold - as they are parsed, and with a name  *)
(* for their interface - and the places it can find: the vlans of a link    *)
(* that an attachment is about, on an interface that is below a link of     *)
(* that name and parent and has a neighbour.                                *)
Parsed == UNION {{ParseConfig(w.nads[a]) : a \in DOMAIN w.nads} : w \in Worlds}
Given(na, w) == [na EXCEPT !.ItfceName = w.resources[na.ResourceName]]
Named ==
  UNION {{Given(na, w) : na \in {p \in Parsed : p.Kind = "sriov" /\ p.ResourceName \in DOMAIN w.resources}} :
           w \in Worlds}
Attachments == Parsed \cup Named

LinksOf(na) == UNION {{l \in w.links : Matches(na, l)} : w \in Worlds}
PlacesOf(na, l, u, w) ==
  {<<w.nbrs[s].dev, s, v>> :
     s \in Slaves(l.name, l.parent, u.links) \cap DOMAIN w.nbrs, v \in VlansOf(na, l)}
Places ==
  UNION {UNION {PlacesOf(na, l, u, w) : l \in LinksOf(na)} : na \in Attachments, u \in Worlds, w \in Worlds}

(* Whatever fails, is missed or is restarted, and however a link, a cable   *)
(* or an attachment moves between the three caches' passes, no vlan is ever *)
(* published at a place that no worlds of the host account for: the caches  *)
(* mix what they read at different times, but make nothing up.              *)
NothingInvented == topo.view.vlans \subseteq Places

PassEnds == pc = "devices" /\ pc' \in {"publish", "idle"}

(* Whatever the caches held before and in whatever order the maps are       *)
(* visited, a pass leaves no device, interface or vlan that the links, the  *)
(* neighbours and the attachments it has read do not justify: deletions     *)
(* come through the three caches within the pass.  And none is missing that *)
(* they do, those of virtual functions aside, which are only looked for on  *)
(* interfaces the link cache does not know (netlink.go:84).  It takes links *)
(* that keep their parents: one that gets another parent, like a sub-       *)
(* interface of a bond that is made anew, is followed with the parent it    *)
(* had when the cache got to know it (netlink.go:191).                      *)
ParentsKept(worlds) ==
  \A v, w \in worlds : \A l \in v.links, m \in w.links : l.name = m.name => l.parent = m.parent

NotSriov(config) == Keep(config, {a \in DOMAIN config : config[a].Kind # "sriov"})

PassExact ==
  [][PassEnds => /\ DOMAIN vlans' \subseteq Expected(multusConfig, nll, nbrs)
                 /\ Expected(NotSriov(multusConfig), nll, nbrs) \subseteq DOMAIN vlans']_vars

(* The configuration the watchers bring the agent to.                       *)
WorldConfig ==
  [a \in {b \in DOMAIN world.nads : Parses(world.nads[b])} |->
     LET na == ParseConfig(world.nads[a]) IN
     IF na.Kind = "sriov" /\ na.ResourceName \in DOMAIN world.resources
     THEN [na EXCEPT !.ItfceName = world.resources[na.ResourceName]]
     ELSE na]

ExpectedNow == Expected(WorldConfig, world.links, world.nbrs)

(* "The fsc-agent [...] provides the nodetopology aligned with network      *)
(* connectivity/topology and multus configuration/usage" (README.md:4):     *)
(* once the world is stable, so is a NodeTopology that agrees with it.      *)
Aligned == topo.view.vlans = ExpectedNow

EventuallyAligned == <>[]Aligned

(* The same for an agent that may have failed or restarted, which corrects *)
(* what it or its predecessor published as soon as it has something to      *)
(* show: its caches start empty, and nothing in them is no change.          *)
EventuallyRecovers == <>[](Aligned \/ (ExpectedNow = {} /\ failures + crashes > 0))

(* Every endpoint published has the port and the MTU that the world gives   *)
(* it now.                                                                  *)
EndpointsCurrent ==
  \A e \in DOMAIN topo.view.endpoints :
    \E a \in DOMAIN WorldConfig, l \in world.links :
      /\ Matches(WorldConfig[a], l)
      /\ e[2] \in Slaves(l.name, l.parent, world.links) \cap DOMAIN world.nbrs
      /\ topo.view.endpoints[e].port = world.nbrs[e[2]].port
      /\ topo.view.endpoints[e].MTU = l.attr

EventuallyCurrent == <>[]EndpointsCurrent

(* What the verdict of a pass needs, which is that of the vlan visited last *)
(* (device.go:97): where at most one vlan is to show, a pass finds either   *)
(* all vlans as they were or none.                                          *)
FlagsAgree ==
  pc = "devices" /\ todo = {} =>
    \A t, u \in DOMAIN vlans : vlans[t] = "noChange" => vlans[u] = "noChange"

(* Where at most one vlan is to show: no world has links for two, whatever  *)
(* the attachments, and none of these links has two interfaces below it     *)
(* that have neighbours.                                                    *)
AtMostOne(S) == \A x, y \in S : x = y

LinkKeys(links) ==
  UNION {UNION {{<<l.name, v>> : v \in VlansOf(na, l)} : l \in {m \in links : Matches(na, m)}} :
           na \in Attachments}

OneToShow ==
  /\ \A w \in Worlds : AtMostOne(LinkKeys(w.links))
  /\ \A na \in Attachments : \A l \in LinksOf(na), u, w \in Worlds :
       AtMostOne(Slaves(l.name, l.parent, u.links) \cap DOMAIN w.nbrs)

(* A tick that does not write to the API server has nothing to write that   *)
(* is not there (an agent with nothing to show aside: see above).           *)
PublishedWhenChanged == [][PassEnds /\ pc' = "idle" => topo.view = View' \/ vlans' = Empty]_vars

(* "The function also provides a view on the changes that are relevant for  *)
(* the multus networking" (device.go:10): a world that is stable has none,  *)
(* and the agent stops writing to the API server.                           *)
StopsWriting == <>[](pc # "publish")

(* It does if every link has the attributes and the parent that the cache   *)
(* got to know it with.  Those are compared at every tick and never stored, *)
(* so a link that differs is a change at every tick, and the agent writes   *)
(* for ever (netlink.go:191-207).                                           *)
LinksCurrent ==
  \A x \in DOMAIN linkCache : \A l \in world.links :
    l.name = x[1] => linkCache[x].attr = l.attr /\ linkCache[x].ParentIndex = l.parent

Quiesces == <>[]LinksCurrent => StopsWriting
=============================================================================
