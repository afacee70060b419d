--------------------------- MODULE FscAgentProofs ---------------------------
(***************************************************************************)
(* Theorems about the caches of fsc-agent, for any hosts.                   *)
(***************************************************************************)
EXTENDS FscAgent, TLAPS

(* What an entry of the link cache, and of the lldp cache, looks like.      *)
LinkEntry(la) ==
  /\ DOMAIN la = {"attr", "ParentIndex", "SlaveLinks", "ChangeFlag", "LldpChangeFlag"}
  /\ la = [f \in DOMAIN la |-> la[f]]
  /\ la.ChangeFlag \in Flags /\ la.LldpChangeFlag \in BOOLEAN

LldpEntry(ep) ==
  /\ DOMAIN ep = {"attr", "ParentIndex", "dev", "port", "ChangeFlag", "DeviceLinkChangeFlag"}
  /\ ep = [f \in DOMAIN ep |-> ep[f]]
  /\ ep.ChangeFlag \in Flags /\ ep.DeviceLinkChangeFlag \in BOOLEAN

LinksOK(cache) == cache = [x \in DOMAIN cache |-> cache[x]] /\ \A x \in DOMAIN cache : LinkEntry(cache[x])
LldpOK(cache) == cache = [y \in DOMAIN cache |-> cache[y]] /\ \A y \in DOMAIN cache : LldpEntry(cache[y])

(* The vlans, and the devices and endpoints they are on.                    *)
DevicesOK ==
  /\ \A t \in DOMAIN vlans : vlans[t] \in Flags /\ t[1] \in Devices
  /\ DOMAIN endpoints = {<<t[1], t[2]>> : t \in DOMAIN vlans}

(* No entry of a cache has a mark.                                          *)
NoMark(cache) == \A x \in DOMAIN cache : cache[x].ChangeFlag = ""
NoVlanMark == \A t \in DOMAIN vlans : vlans[t] = ""

Swept ==
  /\ pc \notin {"links", "down"} => NoMark(linkCache)
  /\ pc \notin {"lldp", "down"} => NoMark(lldpLinkCache)
  /\ pc \notin {"devices", "down"} => NoVlanMark

ProcessOK ==
  /\ world \in Worlds
  /\ topo = [exists |-> topo.exists, view |-> topo.view] /\ topo.exists \in BOOLEAN
  /\ nodeTopo \in BOOLEAN
  /\ pc \in {"boot", "idle", "netlink", "links", "neighbours", "lldp", "devices", "publish", "down"}

AgentInv ==
  /\ LinksOK(linkCache) /\ LldpOK(lldpLinkCache) /\ DevicesOK
  /\ Swept /\ ProcessOK

-----------------------------------------------------------------------------
(* An attachment that is found on a link leaves entries in the cache.       *)
LEMMA UpdateLinkKeeps ==
  ASSUME NEW cache, LinksOK(cache), NEW na, NEW l
  PROVE  LinksOK(UpdateLink(cache, na, l))
<1> DEFINE keys == {<<l.name, v>> : v \in VlansOf(na, l)}
<1>1. ASSUME NEW la, LinkEntry(la)
      PROVE  LinkEntry(UpdatedLink(la, l))
  <2> DEFINE flag == IF la.attr = l.attr /\ la.ParentIndex = l.parent THEN "noChange" ELSE "configChange"
  <2>1. UpdatedLink(la, l) = [la EXCEPT !.ChangeFlag = flag] /\ flag \in Flags
    BY DEF UpdatedLink, Flags
  <2> HIDE DEF flag
  <2> QED
    BY <1>1, <2>1 DEF LinkEntry
<1>2. LinkEntry(AddedLink(l))
  BY DEF LinkEntry, AddedLink, Flags
<1>3. CASE InCache(cache, l.name)
  <2>1. UpdateLink(cache, na, l) =
          [x \in DOMAIN cache |-> IF x \in keys THEN UpdatedLink(cache[x], l) ELSE cache[x]]
    BY <1>3 DEF UpdateLink
  <2> QED
    BY <1>1, <2>1 DEF LinksOK
<1>4. CASE ~InCache(cache, l.name)
  <2>1. UpdateLink(cache, na, l) =
          [x \in DOMAIN cache \cup keys |-> IF x \in keys THEN AddedLink(l) ELSE cache[x]]
    BY <1>4 DEF UpdateLink
  <2> QED
    BY <1>2, <2>1 DEF LinksOK
<1> QED
  BY <1>3, <1>4

(* So does looking for the links below each link.                           *)
LEMMA UpdateSlavesKeeps ==
  ASSUME NEW cache, LinksOK(cache), NEW links
  PROVE  LinksOK(UpdateSlaves(cache, links))
<1> DEFINE slaves(x) == Slaves(x[1], cache[x].ParentIndex, links)
           flag(x) == IF cache[x].ParentIndex # 0 /\ cache[x].SlaveLinks # slaves(x)
                      THEN "stateChange" ELSE cache[x].ChangeFlag
           updated(x) == IF cache[x].ChangeFlag = "" THEN cache[x]
                         ELSE [cache[x] EXCEPT !.SlaveLinks = slaves(x), !.ChangeFlag = flag(x)]
<1>1. UpdateSlaves(cache, links) = [x \in DOMAIN cache |-> updated(x)]
  BY DEF UpdateSlaves
<1>2. ASSUME NEW x \in DOMAIN cache
      PROVE  LinkEntry(updated(x))
  <2>1. LinkEntry(cache[x])
    BY DEF LinksOK
  <2>2. flag(x) \in Flags
    BY <2>1 DEF LinkEntry, Flags
  <2> HIDE DEF slaves, flag
  <2> QED
    BY <2>1, <2>2 DEF LinkEntry
<1> HIDE DEF updated
<1> QED
  BY <1>1, <1>2 DEF LinksOK

(* The sweep of a cache keeps the marked entries, and clears the marks.     *)
LEMMA SweepLinksClears ==
  ASSUME NEW cache, LinksOK(cache)
  PROVE  LinksOK(SweepLinks(cache)) /\ NoMark(SweepLinks(cache))
<1> DEFINE changed(x) == (cache[x].ChangeFlag # "noChange")
           swept(x) == [cache[x] EXCEPT !.ChangeFlag = "", !.LldpChangeFlag = changed(x)]
<1>1. SweepLinks(cache) = [x \in Marked(cache) |-> swept(x)]
  BY DEF SweepLinks
<1>2. ASSUME NEW x \in Marked(cache)
      PROVE  LinkEntry(swept(x)) /\ swept(x).ChangeFlag = ""
  <2>1. LinkEntry(cache[x]) /\ changed(x) \in BOOLEAN /\ "" \in Flags
    BY DEF LinksOK, Marked, Flags
  <2> HIDE DEF changed
  <2> QED
    BY <2>1 DEF LinkEntry
<1> HIDE DEF swept
<1> QED
  BY <1>1, <1>2 DEF LinksOK, NoMark

(* The same of the lldp cache.                                              *)
LEMMA SweepLldpClears ==
  ASSUME NEW cache, LldpOK(cache)
  PROVE  LldpOK(SweepLldp(cache)) /\ NoMark(SweepLldp(cache))
<1> DEFINE swept(y) == [cache[y] EXCEPT !.ChangeFlag = ""]
<1>1. SweepLldp(cache) = [y \in Marked(cache) |-> swept(y)]
  BY DEF SweepLldp
<1>2. ASSUME NEW y \in Marked(cache)
      PROVE  LldpEntry(swept(y)) /\ swept(y).ChangeFlag = ""
  <2>1. LldpEntry(cache[y]) /\ "" \in Flags
    BY DEF LldpOK, Marked, Flags
  <2> QED
    BY <2>1 DEF LldpEntry
<1> HIDE DEF swept
<1> QED
  BY <1>1, <1>2 DEF LldpOK, NoMark

(* The pass over the lldp cache leaves the marks of the link cache alone.   *)
LEMMA LldpPassKeeps ==
  ASSUME LinksOK(linkCache), LldpOK(lldpLinkCache),
         NEW x \in DOMAIN linkCache, UpdateLldpLinkCache(x)
  PROVE  /\ LinksOK(linkCache)' /\ LldpOK(lldpLinkCache)'
         /\ NoMark(linkCache) => NoMark(linkCache)'
<1> DEFINE la == linkCache[x]
           seen == {s \in la.SlaveLinks : s \in DOMAIN nbrs}
           known == {s \in seen : InCache(lldpLinkCache, s)}
           entry(s, first) ==
             IF s \notin known THEN LldpEndPoint(la, nbrs[s], "newlyAdded", TRUE)
             ELSE IF la.LldpChangeFlag /\ s = first THEN LldpEndPoint(la, nbrs[s], "someChange", TRUE)
             ELSE LldpEndPoint(la, nbrs[s], "noChange", FALSE)
           keys == DOMAIN lldpLinkCache \cup {<<s, x[2]>> : s \in seen}
           left == la.LldpChangeFlag /\ known = {}
<1>1. PICK first :
        lldpLinkCache' =
          [y \in keys |-> IF y[2] = x[2] /\ y[1] \in seen THEN entry(y[1], first) ELSE lldpLinkCache[y]]
  BY DEF UpdateLldpLinkCache
<1>2. linkCache' = [linkCache EXCEPT ![x] = [la EXCEPT !.LldpChangeFlag = left]]
  BY DEF UpdateLldpLinkCache
<1>3. \A s : LldpEntry(entry(s, first))
  BY DEF LldpEntry, LldpEndPoint, Flags
<1>4. \A y \in keys : (y[2] = x[2] /\ y[1] \in seen) \/ y \in DOMAIN lldpLinkCache
  OBVIOUS
<1>5. LinkEntry(la) /\ left \in BOOLEAN
  BY DEF LinksOK
<1> HIDE DEF seen, known, entry, keys, left
<1>6. LldpOK(lldpLinkCache)'
  BY <1>1, <1>3, <1>4 DEF LldpOK
<1>7. LET now == [la EXCEPT !.LldpChangeFlag = left] IN
      LinkEntry(now) /\ now.ChangeFlag = la.ChangeFlag
  BY <1>5 DEF LinkEntry
<1>8. /\ LinksOK(linkCache)'
      /\ NoMark(linkCache) => NoMark(linkCache)'
  BY <1>2, <1>7 DEF LinksOK, NoMark
<1> QED
  BY <1>6, <1>8

(* A vlan comes with its device and its endpoint.                           *)
LEMMA DeviceCentricViewKeeps ==
  ASSUME LldpOK(lldpLinkCache), DevicesOK, NEW y \in DOMAIN lldpLinkCache, DeviceCentricView(y)
  PROVE  /\ LldpOK(lldpLinkCache)' /\ DevicesOK'
         /\ NoMark(lldpLinkCache) => NoMark(lldpLinkCache)'
<1> DEFINE ep == lldpLinkCache[y]
           endpoint == <<ep.dev, y[1]>>
           vlan == <<ep.dev, y[1], y[2]>>
           flag == IF vlan \notin DOMAIN vlans THEN "newlyAdded"
                   ELSE IF ep.DeviceLinkChangeFlag THEN "someChange" ELSE "noChange"
<1>1. /\ Devices' = Devices \cup {ep.dev}
      /\ vlans' = [t \in DOMAIN vlans \cup {vlan} |-> IF t = vlan THEN flag ELSE vlans[t]]
      /\ flag \in Flags
  BY DEF DeviceCentricView, Put, Flags
<1>2. DOMAIN endpoints' = DOMAIN endpoints \cup {endpoint}
  BY DEF DeviceCentricView, Put
<1>3. \/ UNCHANGED lldpLinkCache
      \/ lldpLinkCache' = [lldpLinkCache EXCEPT ![y] = [ep EXCEPT !.DeviceLinkChangeFlag = FALSE]]
  BY DEF DeviceCentricView
<1>4. vlan[1] = ep.dev /\ <<vlan[1], vlan[2]>> = endpoint
  OBVIOUS
<1> HIDE DEF vlan, flag, endpoint
<1>5. DevicesOK'
  <2>1. \A t \in DOMAIN vlans' : vlans'[t] \in Flags /\ t[1] \in Devices'
    BY <1>1, <1>4 DEF DevicesOK
  <2>2. DOMAIN endpoints' = {<<t[1], t[2]>> : t \in DOMAIN vlans'}
    BY <1>1, <1>2, <1>4 DEF DevicesOK
  <2> QED
    BY <2>1, <2>2 DEF DevicesOK
<1>6. LldpEntry(ep) /\ FALSE \in BOOLEAN
  BY DEF LldpOK
<1>7. LET now == [ep EXCEPT !.DeviceLinkChangeFlag = FALSE] IN
      LldpEntry(now) /\ now.ChangeFlag = ep.ChangeFlag
  BY <1>6 DEF LldpEntry
<1>8. /\ LldpOK(lldpLinkCache)'
      /\ NoMark(lldpLinkCache) => NoMark(lldpLinkCache)'
  BY <1>3, <1>7 DEF LldpOK, NoMark
<1> QED
  BY <1>5, <1>8

-----------------------------------------------------------------------------
(* A process starts with empty caches.                                      *)
LEMMA AgentInvInit == Init => AgentInv
<1> SUFFICES ASSUME Init PROVE AgentInv
  OBVIOUS
<1>1. DOMAIN Empty = {} /\ Empty = [x \in {} |-> Empty[x]]
  BY DEF Empty
<1>2. LinksOK(linkCache) /\ LldpOK(lldpLinkCache) /\ DevicesOK /\ Swept
  BY <1>1 DEF Init, LinksOK, LldpOK, DevicesOK, Swept, NoMark, NoVlanMark
<1>3. ProcessOK
  BY WorldsOK DEF Init, ProcessOK
<1> QED
  BY <1>2, <1>3 DEF AgentInv

(* The steps that touch no cache.                                           *)
LEMMA CachesUntouched ==
  ASSUME AgentInv, UNCHANGED cacheVars, ProcessOK',
         pc' = pc \/ (pc \notin {"links", "lldp", "devices", "down"} /\ pc' \notin {"boot"}) \/ pc' = "down"
  PROVE  AgentInv'
BY DEF AgentInv, cacheVars, deviceVars, LinksOK, LldpOK, DevicesOK, Swept, NoMark, NoVlanMark

(* Every step of the environment and of the main loop keeps the invariant.  *)
LEMMA AgentInvNext == AgentInv /\ [Next]_vars => AgentInv'
<1> SUFFICES ASSUME AgentInv, [Next]_vars PROVE AgentInv'
  OBVIOUS
<1>1. CASE \E w \in Worlds : WorldChange(w)
  <2>1. ProcessOK' /\ UNCHANGED cacheVars /\ pc' = pc
    BY <1>1 DEF WorldChange, AgentInv, ProcessOK
  <2> QED
    BY <2>1, CachesUntouched
<1>2. CASE BootFound
  <2>1. ProcessOK' /\ UNCHANGED cacheVars /\ pc = "boot" /\ pc' = "idle"
    BY <1>2 DEF BootFound, AgentInv, ProcessOK
  <2> QED
    BY <2>1, CachesUntouched
<1>3. CASE BootCreate
  <2>1. topo' = [exists |-> TRUE, view |-> topo.view]
    BY <1>3 DEF BootCreate, AgentInv, ProcessOK
  <2>2. ProcessOK' /\ UNCHANGED cacheVars /\ pc = "boot" /\ pc' = "idle"
    BY <1>3, <2>1 DEF BootCreate, AgentInv, ProcessOK
  <2> QED
    BY <2>2, CachesUntouched
<1>4. CASE Message
  <2>1. ProcessOK' /\ UNCHANGED cacheVars /\ pc' = pc
    BY <1>4 DEF Message, MultusUpdate, MultusDelete, SriovUpdate, AgentInv, ProcessOK
  <2> QED
    BY <2>1, CachesUntouched
<1>5. CASE TimerWork
  <2>1. ProcessOK' /\ UNCHANGED cacheVars /\ pc = "idle" /\ pc' = "netlink"
    BY <1>5 DEF TimerWork, AgentInv, ProcessOK
  <2> QED
    BY <2>1, CachesUntouched
<1>6. CASE NetLinkRead \/ NetLinkFails
  <2>1. ProcessOK' /\ UNCHANGED cacheVars /\ pc = "netlink" /\ pc' = "links"
    BY <1>6 DEF NetLinkRead, NetLinkFails, AgentInv, ProcessOK
  <2> QED
    BY <2>1, CachesUntouched
<1>7. ASSUME NEW a \in DOMAIN multusConfig, UpdateNetLinkCache(a)
      PROVE  AgentInv'
  <2> DEFINE matching == {l \in nll : Matches(multusConfig[a], l)}
             chosen == CHOOSE l \in matching : TRUE
             updated == IF matching = {} THEN linkCache
                        ELSE UpdateLink(linkCache, multusConfig[a], chosen)
  <2>1. linkCache' = UpdateSlaves(updated, nll) /\ pc = "links" /\ pc' = "links"
        /\ UNCHANGED <<world, topo, lldpLinkCache, deviceVars, nodeTopo>>
    BY <1>7 DEF UpdateNetLinkCache
  <2> HIDE DEF matching, chosen
  <2>2. LinksOK(updated)
    BY UpdateLinkKeeps DEF AgentInv
  <2> HIDE DEF updated
  <2>3. LinksOK(linkCache)'
    <3>1. LinksOK(UpdateSlaves(updated, nll))
      BY <2>2, UpdateSlavesKeeps
    <3> QED
      BY <2>1, <3>1
  <2> QED
    BY <2>1, <2>3 DEF AgentInv, deviceVars, LldpOK, DevicesOK, Swept, ProcessOK, NoMark, NoVlanMark
<1>8. CASE ValidateNetLinkCacheChanges
  <2>1. linkCache' = SweepLinks(linkCache) /\ pc = "links" /\ pc' = "neighbours"
        /\ UNCHANGED <<world, topo, lldpLinkCache, deviceVars, nodeTopo>>
    BY <1>8 DEF ValidateNetLinkCacheChanges
  <2>2. LinksOK(linkCache)' /\ NoMark(linkCache)'
    <3>1. LinksOK(SweepLinks(linkCache)) /\ NoMark(SweepLinks(linkCache))
      BY SweepLinksClears DEF AgentInv
    <3> QED
      BY <2>1, <3>1
  <2> QED
    BY <2>1, <2>2 DEF AgentInv, deviceVars, LldpOK, DevicesOK, Swept, ProcessOK, NoMark, NoVlanMark
<1>9. CASE LldpRead \/ LldpFails
  <2>1. ProcessOK' /\ UNCHANGED cacheVars /\ pc = "neighbours" /\ pc' \in {"lldp", "down"}
    BY <1>9 DEF LldpRead, LldpFails, AgentInv, ProcessOK
  <2> QED
    BY <2>1, CachesUntouched
<1>10. ASSUME NEW x \in DOMAIN linkCache, UpdateLldpLinkCache(x)
       PROVE  AgentInv'
  <2>1. pc = "lldp" /\ pc' = "lldp" /\ UNCHANGED <<world, topo, deviceVars, nodeTopo>>
    BY <1>10 DEF UpdateLldpLinkCache
  <2>2. /\ LinksOK(linkCache)' /\ LldpOK(lldpLinkCache)'
        /\ NoMark(linkCache) => NoMark(linkCache)'
    BY <1>10, LldpPassKeeps DEF AgentInv
  <2> QED
    BY <2>1, <2>2 DEF AgentInv, deviceVars, DevicesOK, Swept, ProcessOK, NoVlanMark
<1>11. CASE ValidateLldpLinkCacheChanges
  <2>1. lldpLinkCache' = SweepLldp(lldpLinkCache) /\ pc = "lldp" /\ pc' = "devices"
        /\ UNCHANGED <<world, topo, linkCache, deviceVars, nodeTopo>>
    BY <1>11 DEF ValidateLldpLinkCacheChanges
  <2>2. LldpOK(lldpLinkCache)' /\ NoMark(lldpLinkCache)'
    <3>1. LldpOK(SweepLldp(lldpLinkCache)) /\ NoMark(SweepLldp(lldpLinkCache))
      BY SweepLldpClears DEF AgentInv
    <3> QED
      BY <2>1, <3>1
  <2> QED
    BY <2>1, <2>2 DEF AgentInv, deviceVars, LinksOK, DevicesOK, Swept, ProcessOK, NoMark, NoVlanMark
<1>12. ASSUME NEW y \in DOMAIN lldpLinkCache, DeviceCentricView(y)
       PROVE  AgentInv'
  <2>1. pc = "devices" /\ pc' = "devices" /\ UNCHANGED <<world, topo, linkCache, nodeTopo>>
    BY <1>12 DEF DeviceCentricView
  <2>2. /\ LldpOK(lldpLinkCache)' /\ DevicesOK'
        /\ NoMark(lldpLinkCache) => NoMark(lldpLinkCache)'
    BY <1>12, DeviceCentricViewKeeps DEF AgentInv
  <2> QED
    BY <2>1, <2>2 DEF AgentInv, LinksOK, Swept, ProcessOK, NoMark
<1>13. CASE ValidateDeviceChanges
  <2>1. /\ vlans' = [t \in {u \in DOMAIN vlans : vlans[u] # ""} |-> ""]
        /\ DOMAIN endpoints' = DOMAIN endpoints \cap {<<t[1], t[2]>> : t \in DOMAIN vlans'}
        /\ pc = "devices" /\ pc' \in {"publish", "idle"}
        /\ UNCHANGED <<world, topo, linkCache, lldpLinkCache, Devices, nodeTopo>>
    BY <1>13 DEF ValidateDeviceChanges, SweepVlans, Keep
  <2>2. DevicesOK' /\ NoVlanMark'
    <3>1. DOMAIN vlans' \subseteq DOMAIN vlans /\ \A t \in DOMAIN vlans' : vlans'[t] = ""
      BY <2>1
    <3>2. DOMAIN endpoints' = {<<t[1], t[2]>> : t \in DOMAIN vlans'}
      BY <2>1, <3>1 DEF AgentInv, DevicesOK
    <3> QED
      BY <2>1, <3>1, <3>2 DEF AgentInv, DevicesOK, NoVlanMark, Flags
  <2> QED
    BY <2>1, <2>2 DEF AgentInv, LinksOK, LldpOK, Swept, ProcessOK, NoMark
<1>14. CASE UpdateK8sNodeTopology
  <2>1. topo' = [exists |-> topo.exists, view |-> View]
    BY <1>14 DEF UpdateK8sNodeTopology, AgentInv, ProcessOK
  <2>2. ProcessOK' /\ UNCHANGED cacheVars /\ pc = "publish" /\ pc' = "idle"
    BY <1>14, <2>1 DEF UpdateK8sNodeTopology, AgentInv, ProcessOK
  <2> QED
    BY <2>2, CachesUntouched
<1>15. CASE UpdateNameless \/ UpdateFails
  <2>1. ProcessOK' /\ UNCHANGED cacheVars /\ pc = "publish" /\ pc' = "idle"
    BY <1>15 DEF UpdateNameless, UpdateFails, AgentInv, ProcessOK
  <2> QED
    BY <2>1, CachesUntouched
<1>16. CASE BootFails
  <2>1. ProcessOK' /\ UNCHANGED cacheVars /\ pc' = pc
    BY <1>16 DEF BootFails, AgentInv, ProcessOK
  <2> QED
    BY <2>1, CachesUntouched
<1>17. CASE Crash
  <2>1. ProcessOK' /\ UNCHANGED cacheVars /\ pc' = "down"
    BY <1>17 DEF Crash, AgentInv, ProcessOK
  <2> QED
    BY <2>1, CachesUntouched
<1>18. CASE Restart
  <2>1. DOMAIN Empty = {} /\ Empty = [x \in {} |-> Empty[x]]
    BY DEF Empty
  <2>2. LinksOK(linkCache)' /\ LldpOK(lldpLinkCache)' /\ DevicesOK' /\ Swept'
    BY <1>18, <2>1 DEF Restart, LinksOK, LldpOK, DevicesOK, Swept, NoMark, NoVlanMark
  <2>3. ProcessOK'
    BY <1>18 DEF Restart, AgentInv, ProcessOK
  <2> QED
    BY <2>2, <2>3 DEF AgentInv
<1>19. CASE UNCHANGED vars
  <2>1. ProcessOK' /\ UNCHANGED cacheVars /\ pc' = pc
    BY <1>19 DEF vars, AgentInv, ProcessOK
  <2> QED
    BY <2>1, CachesUntouched
<1> QED
  BY <1>1, <1>2, <1>3, <1>4, <1>5, <1>6, <1>7, <1>8, <1>9, <1>10, <1>11, <1>12, <1>13, <1>14,
     <1>15, <1>16, <1>17, <1>18, <1>19 DEF Next, Boot, Tick, Failure

(* Whatever fails and whenever the agent is restarted, no mark outlives the *)
(* pass it was set in: a sweep never keeps an entry for a mark of an older  *)
(* tick.                                                                    *)
THEOREM MarksAreSwept == Spec => []NoStaleMark
<1>1. AgentInv => NoStaleMark
  BY DEF AgentInv, Swept, NoMark, NoVlanMark, NoStaleMark, Marked
<1> QED
  BY <1>1, AgentInvInit, AgentInvNext, PTL DEF Spec

(* The caches hold entries and flags of their types; in the device view,    *)
(* every vlan is on a device there is, and the endpoints are those that     *)
(* have a vlan.                                                             *)
THEOREM AgentTypeCorrect == Spec => []TypeOK
<1>1. AgentInv => TypeOK
  BY DEF AgentInv, LinksOK, LinkEntry, LldpOK, LldpEntry, DevicesOK, ProcessOK, TypeOK
<1> QED
  BY <1>1, AgentInvInit, AgentInvNext, PTL DEF Spec
-----------------------------------------------------------------------------
(* PassExact.  The attachments the main loop holds: a vlan is a number.     *)
AttOK(na) ==
  /\ DOMAIN na = {"Kind", "ItfceName", "Vlan", "ResourceName"}
  /\ na = [f \in DOMAIN na |-> na[f]]
  /\ na.Kind \in {"ipvlan", "macvlan"} => na.Vlan \in Nat

ConfigOK == \A a \in DOMAIN multusConfig : AttOK(multusConfig[a])

(* What a tick reads of the links is what there is of some world's.         *)
ReadOK == \E w \in Worlds : nll \subseteq w.links

(* The link cache has a sub-interface for its own vlan only, and keeps the  *)
(* parent a link has.                                                       *)
KeysOK(cache) ==
  \A x \in DOMAIN cache : x = <<x[1], x[2]>> /\ (x[1][2] # NoVlan => x[2] = x[1][2])

PairsOK(cache) == \A y \in DOMAIN cache : y = <<y[1], y[2]>>

ParentsOK(cache) ==
  \A x \in DOMAIN cache, w \in Worlds : \A l \in w.links :
    l.name = x[1] => cache[x].ParentIndex = l.parent

(* The link entries S of a cache are those of the attachments, with the     *)
(* interfaces below them; none of the attachments in A misses its entry,    *)
(* those of virtual functions aside.                                        *)
Justified(x, slaves) ==
  \E a \in DOMAIN multusConfig, l \in nll :
    /\ Matches(multusConfig[a], l)
    /\ x[1] = l.name /\ x[2] \in VlansOf(multusConfig[a], l)
    /\ slaves = Slaves(l.name, l.parent, nll)

LinksSound(cache, S) == \A x \in S : Justified(x, cache[x].SlaveLinks)

LinksComplete(A, S) ==
  \A a \in A, l \in nll :
    multusConfig[a].Kind # "sriov" /\ Matches(multusConfig[a], l) => <<l.name, multusConfig[a].Vlan>> \in S

(* The lldp entries S are those of the neighbours below the links, and none *)
(* of the links in X misses one.                                            *)
LldpSound(cache, S) ==
  \A y \in S :
    /\ y[1] \in DOMAIN nbrs /\ cache[y].dev = nbrs[y[1]].dev
    /\ \E x \in DOMAIN linkCache : x[2] = y[2] /\ y[1] \in linkCache[x].SlaveLinks

LldpComplete(X, S) ==
  \A x \in X : \A s \in linkCache[x].SlaveLinks \cap DOMAIN nbrs : <<s, x[2]>> \in S

(* The vlans T of the device view are those of the lldp entries, and none   *)
(* of the entries in Y misses its vlan.                                     *)
VlanOf(y) == <<lldpLinkCache[y].dev, y[1], y[2]>>
VlansSound(T) == \A t \in T : \E y \in DOMAIN lldpLinkCache : t = VlanOf(y)
VlansComplete(Y, T) == \A y \in Y : VlanOf(y) \in T

MarkedVlans == {t \in DOMAIN vlans : vlans[t] # ""}

LinksExact == LinksSound(linkCache, DOMAIN linkCache) /\ LinksComplete(DOMAIN multusConfig, DOMAIN linkCache)
LldpExact ==
  /\ LldpSound(lldpLinkCache, DOMAIN lldpLinkCache)
  /\ LldpComplete(DOMAIN linkCache, DOMAIN lldpLinkCache)

(* How far a pass is, at each of its stages.                                *)
LinksStage ==
  pc = "links" => /\ LinksSound(linkCache, Marked(linkCache))
                  /\ LinksComplete(DOMAIN multusConfig \ todo, Marked(linkCache))
LldpStage ==
  pc = "lldp" => /\ LinksExact
                 /\ LldpSound(lldpLinkCache, Marked(lldpLinkCache))
                 /\ LldpComplete(DOMAIN linkCache \ todo, Marked(lldpLinkCache))
DevicesStage ==
  pc = "devices" => /\ LinksExact /\ LldpExact
                    /\ VlansSound(MarkedVlans)
                    /\ VlansComplete(DOMAIN lldpLinkCache \ todo, MarkedVlans)

PassInv ==
  /\ ConfigOK /\ ReadOK /\ KeysOK(linkCache) /\ ParentsOK(linkCache) /\ PairsOK(lldpLinkCache)
  /\ LinksStage /\ (pc = "neighbours" => LinksExact) /\ LldpStage /\ DevicesStage

(* An entry of a cache that an update has met.                              *)
Flagged(entry) == entry.ChangeFlag # ""

LEMMA MarkedAreFlagged ==
  ASSUME NEW cache
  PROVE  Marked(cache) = {x \in DOMAIN cache : Flagged(cache[x])}
BY DEF Marked, Flagged

(* One attachment against one link marks the entries of its vlans that are  *)
(* in the cache, or all of them if the link is not, and keeps their parent. *)
LEMMA UpdateLinkMarks ==
  ASSUME NEW cache, LinksOK(cache), NEW na, NEW l
  PROVE  LET now == UpdateLink(cache, na, l)
             keys == {<<l.name, v>> : v \in VlansOf(na, l)} IN
         /\ DOMAIN cache \subseteq DOMAIN now
         /\ ~InCache(cache, l.name) => keys \subseteq DOMAIN now
         /\ \A x \in DOMAIN now :
              \/ x \notin keys /\ x \in DOMAIN cache /\ now[x] = cache[x]
              \/ /\ x \in keys /\ Flagged(now[x])
                 /\ \/ x \in DOMAIN cache /\ now[x].ParentIndex = cache[x].ParentIndex
                    \/ now[x].ParentIndex = l.parent
<1> DEFINE keys == {<<l.name, v>> : v \in VlansOf(na, l)}
           now == UpdateLink(cache, na, l)
<1>1. ASSUME NEW la, LinkEntry(la)
      PROVE  Flagged(UpdatedLink(la, l)) /\ UpdatedLink(la, l).ParentIndex = la.ParentIndex
  BY <1>1 DEF UpdatedLink, LinkEntry, Flagged
<1>2. Flagged(AddedLink(l)) /\ AddedLink(l).ParentIndex = l.parent
  BY DEF AddedLink, Flagged
<1>3. CASE InCache(cache, l.name)
  <2>1. now = [x \in DOMAIN cache |-> IF x \in keys THEN UpdatedLink(cache[x], l) ELSE cache[x]]
    BY <1>3 DEF UpdateLink
  <2> HIDE DEF keys, now
  <2>2. \A x \in DOMAIN cache : LinkEntry(cache[x])
    BY DEF LinksOK
  <2>3. /\ DOMAIN now = DOMAIN cache
        /\ \A x \in DOMAIN cache :
             now[x] = IF x \in keys THEN UpdatedLink(cache[x], l) ELSE cache[x]
    BY <2>1
  <2>4. ASSUME NEW x \in DOMAIN now
        PROVE  \/ x \notin keys /\ x \in DOMAIN cache /\ now[x] = cache[x]
               \/ /\ x \in keys /\ Flagged(now[x])
                  /\ x \in DOMAIN cache /\ now[x].ParentIndex = cache[x].ParentIndex
    BY <1>1, <2>2, <2>3
  <2> QED
    BY <1>3, <2>3, <2>4 DEF keys, now
<1>4. CASE ~InCache(cache, l.name)
  <2>1. now = [x \in DOMAIN cache \cup keys |-> IF x \in keys THEN AddedLink(l) ELSE cache[x]]
    BY <1>4 DEF UpdateLink
  <2> HIDE DEF keys, now
  <2>2. /\ DOMAIN now = DOMAIN cache \cup keys
        /\ \A x \in DOMAIN now : now[x] = IF x \in keys THEN AddedLink(l) ELSE cache[x]
    BY <2>1
  <2> QED
    BY <1>2, <2>2 DEF keys, now
<1> QED
  BY <1>3, <1>4

(* The links below a marked entry are found anew, from its parent.          *)
LEMMA UpdateSlavesMarks ==
  ASSUME NEW cache, LinksOK(cache), NEW links
  PROVE  LET now == UpdateSlaves(cache, links) IN
         /\ DOMAIN now = DOMAIN cache
         /\ \A x \in DOMAIN cache :
              /\ now[x].ParentIndex = cache[x].ParentIndex
              /\ Flagged(now[x]) <=> Flagged(cache[x])
              /\ Flagged(cache[x]) => now[x].SlaveLinks = Slaves(x[1], cache[x].ParentIndex, links)
              /\ ~Flagged(cache[x]) => now[x] = cache[x]
<1> DEFINE slaves(x) == Slaves(x[1], cache[x].ParentIndex, links)
           flag(x) == IF cache[x].ParentIndex # 0 /\ cache[x].SlaveLinks # slaves(x)
                      THEN "stateChange" ELSE cache[x].ChangeFlag
           updated(x) == IF ~Flagged(cache[x]) THEN cache[x]
                         ELSE [cache[x] EXCEPT !.SlaveLinks = slaves(x), !.ChangeFlag = flag(x)]
<1>1. UpdateSlaves(cache, links) = [x \in DOMAIN cache |-> updated(x)]
  BY DEF UpdateSlaves, Flagged
<1>2. ASSUME NEW x \in DOMAIN cache
      PROVE  /\ updated(x).ParentIndex = cache[x].ParentIndex
             /\ Flagged(updated(x)) <=> Flagged(cache[x])
             /\ Flagged(cache[x]) => updated(x).SlaveLinks = slaves(x)
             /\ ~Flagged(cache[x]) => updated(x) = cache[x]
  <2>1. LinkEntry(cache[x])
    BY DEF LinksOK
  <2>2. CASE ~Flagged(cache[x])
    BY <2>2
  <2>3. CASE Flagged(cache[x])
    <3>1. flag(x) # ""
      BY <2>3 DEF Flagged
    <3> HIDE DEF slaves, flag
    <3> DEFINE la == [cache[x] EXCEPT !.SlaveLinks = slaves(x), !.ChangeFlag = flag(x)]
    <3>2. la.ParentIndex = cache[x].ParentIndex /\ la.SlaveLinks = slaves(x) /\ la.ChangeFlag = flag(x)
      BY <2>1 DEF LinkEntry
    <3> HIDE DEF la
    <3>3. Flagged(la)
      BY <3>1, <3>2 DEF Flagged
    <3> QED
      BY <2>3, <3>2, <3>3 DEF la
  <2> QED
    BY <2>2, <2>3
<1> HIDE DEF updated
<1> QED
  BY <1>1, <1>2

(* One attachment leaves the marked entries justified, and has its own.     *)
LEMMA LinksStep ==
  ASSUME ParentsKept(Worlds), AgentInv, PassInv,
         NEW a \in DOMAIN multusConfig, UpdateNetLinkCache(a)
  PROVE  KeysOK(linkCache)' /\ ParentsOK(linkCache)' /\ LinksStage'
<1> DEFINE na == multusConfig[a]
           matching == {l \in nll : Matches(na, l)}
           chosen == CHOOSE l \in matching : TRUE
           updated == IF matching = {} THEN linkCache ELSE UpdateLink(linkCache, na, chosen)
           Found(x) == \E b \in DOMAIN multusConfig, l \in nll :
                         Matches(multusConfig[b], l) /\ x[1] = l.name /\ x[2] \in VlansOf(multusConfig[b], l)
<1>1. /\ linkCache' = UpdateSlaves(updated, nll) /\ todo' = todo \ {a}
      /\ pc = "links" /\ UNCHANGED <<multusConfig, nll>>
  BY DEF UpdateNetLinkCache, configVars, readVars
<1>2. PICK w \in Worlds : nll \subseteq w.links
  BY DEF PassInv, ReadOK
<1>3. /\ LinksSound(linkCache, Marked(linkCache))
      /\ LinksComplete(DOMAIN multusConfig \ todo, Marked(linkCache))
  BY <1>1 DEF PassInv, LinksStage
<1>4. \A x \in Marked(linkCache) : Found(x)
  BY <1>3 DEF LinksSound, Justified
<1>5. LinksOK(linkCache) /\ KeysOK(linkCache) /\ ParentsOK(linkCache)
  BY DEF AgentInv, PassInv
<1>6. na.Kind \in {"ipvlan", "macvlan"} => na.Vlan \in Nat
  BY DEF PassInv, ConfigOK, AttOK
<1>7. /\ LinksOK(updated) /\ KeysOK(updated) /\ ParentsOK(updated)
      /\ \A x \in Marked(updated) : Found(x)
      /\ Marked(linkCache) \subseteq Marked(updated)
      /\ LinksComplete({a}, Marked(updated))
  <2>1. CASE matching = {}
    BY <1>4, <1>5, <2>1 DEF LinksComplete
  <2>2. CASE matching # {}
    <3> DEFINE keys == {<<chosen.name, v>> : v \in VlansOf(na, chosen)}
    <3>1. chosen \in nll /\ Matches(na, chosen) /\ updated = UpdateLink(linkCache, na, chosen)
      BY <2>2
    <3> HIDE DEF chosen, matching, updated
    <3>2. LinksOK(updated)
      BY <1>5, <3>1, UpdateLinkKeeps
    <3>3. /\ DOMAIN linkCache \subseteq DOMAIN updated
          /\ ~InCache(linkCache, chosen.name) => keys \subseteq DOMAIN updated
          /\ \A x \in DOMAIN updated :
               \/ x \notin keys /\ x \in DOMAIN linkCache /\ updated[x] = linkCache[x]
               \/ /\ x \in keys /\ Flagged(updated[x])
                  /\ \/ x \in DOMAIN linkCache /\ updated[x].ParentIndex = linkCache[x].ParentIndex
                     \/ updated[x].ParentIndex = chosen.parent
      BY <1>5, <3>1, UpdateLinkMarks
    <3>4. \A x \in keys : x = <<x[1], x[2]>> /\ x[1] = chosen.name /\ x[2] \in VlansOf(na, chosen)
      OBVIOUS
    <3>5. na.Kind # "sriov" => chosen.name = <<na.ItfceName, na.Vlan>> /\ VlansOf(na, chosen) = {na.Vlan}
                               /\ na.Vlan \in Nat
      BY <1>6, <3>1 DEF Matches, Sub, VlansOf
    <3>6. na.Kind = "sriov" => chosen.name[2] = NoVlan
      BY <3>1 DEF Matches, Phys
    <3> HIDE DEF keys, na
    <3>7. KeysOK(updated)
      BY <1>5, <3>3, <3>4, <3>5, <3>6 DEF KeysOK
    <3>8. ParentsOK(updated)
      <4> SUFFICES ASSUME NEW x \in DOMAIN updated, NEW v \in Worlds, NEW l \in v.links, l.name = x[1]
                   PROVE  updated[x].ParentIndex = l.parent
        BY DEF ParentsOK
      <4>1. CASE x \in DOMAIN linkCache /\ updated[x].ParentIndex = linkCache[x].ParentIndex
        BY <1>5, <4>1 DEF ParentsOK
      <4>2. CASE x \in keys /\ updated[x].ParentIndex = chosen.parent
        BY <1>2, <3>1, <3>4, <4>2 DEF ParentsKept
      <4> QED
        BY <3>3, <4>1, <4>2
    <3>9. \A x \in Marked(updated) : Found(x)
      <4>1. \A x \in keys : Found(x)
        BY <3>1, <3>4 DEF na
      <4> QED
        BY <1>4, <3>3, <4>1, MarkedAreFlagged
    <3>10. Marked(linkCache) \subseteq Marked(updated)
      BY <3>3, MarkedAreFlagged
    <3>11. LinksComplete({a}, Marked(updated))
      <4> SUFFICES ASSUME NEW l \in nll, na.Kind # "sriov", Matches(na, l)
                   PROVE  <<l.name, na.Vlan>> \in Marked(updated)
        BY DEF LinksComplete, na
      <4>1. l.name = chosen.name
        BY <3>5 DEF Matches, Sub
      <4>2. <<chosen.name, na.Vlan>> \in keys
        BY <3>5 DEF keys
      <4>3. <<chosen.name, na.Vlan>> \in DOMAIN updated
        <5>1. CASE InCache(linkCache, chosen.name)
          <6>1. PICK x \in DOMAIN linkCache : x[1] = chosen.name
            BY <5>1 DEF InCache
          <6>2. x = <<x[1], x[2]>> /\ (x[1][2] # NoVlan => x[2] = x[1][2])
            BY <1>5 DEF KeysOK
          <6>3. x[1][2] = na.Vlan /\ na.Vlan # NoVlan
            BY <3>5, <6>1, WorldsOK
          <6> QED
            BY <3>3, <6>1, <6>2, <6>3
        <5>2. CASE ~InCache(linkCache, chosen.name)
          BY <3>3, <4>2, <5>2
        <5> QED
          BY <5>1, <5>2
      <4> QED
        BY <3>3, <4>1, <4>2, <4>3, MarkedAreFlagged
    <3> QED
      BY <3>2, <3>7, <3>8, <3>9, <3>10, <3>11
  <2> QED
    BY <2>1, <2>2
<1> HIDE DEF updated
<1>8. /\ DOMAIN linkCache' = DOMAIN updated
      /\ \A x \in DOMAIN updated :
           /\ linkCache'[x].ParentIndex = updated[x].ParentIndex
           /\ Flagged(linkCache'[x]) <=> Flagged(updated[x])
           /\ Flagged(updated[x]) => linkCache'[x].SlaveLinks = Slaves(x[1], updated[x].ParentIndex, nll)
  <2> DEFINE now == UpdateSlaves(updated, nll)
  <2>1. /\ DOMAIN now = DOMAIN updated
        /\ \A x \in DOMAIN updated :
             /\ now[x].ParentIndex = updated[x].ParentIndex
             /\ Flagged(now[x]) <=> Flagged(updated[x])
             /\ Flagged(updated[x]) => now[x].SlaveLinks = Slaves(x[1], updated[x].ParentIndex, nll)
    BY <1>7, UpdateSlavesMarks
  <2>2. linkCache' = now
    BY <1>1
  <2> HIDE DEF now
  <2> QED
    BY <2>1, <2>2
<1>9. Marked(linkCache)' = Marked(updated)
  <2>1. Marked(updated) = {x \in DOMAIN updated : Flagged(updated[x])}
    BY MarkedAreFlagged
  <2>2. Marked(linkCache)' = {x \in DOMAIN linkCache' : Flagged(linkCache'[x])}
    BY DEF Marked, Flagged
  <2> QED
    BY <1>8, <2>1, <2>2
<1>10. KeysOK(linkCache)' /\ ParentsOK(linkCache)'
  BY <1>7, <1>8 DEF KeysOK, ParentsOK
<1>11. LinksSound(linkCache, Marked(linkCache))'
  <2> SUFFICES ASSUME NEW x \in Marked(updated)
               PROVE  Justified(x, linkCache[x].SlaveLinks)'
    BY <1>9 DEF LinksSound
  <2>1. PICK b \in DOMAIN multusConfig, l \in nll :
          Matches(multusConfig[b], l) /\ x[1] = l.name /\ x[2] \in VlansOf(multusConfig[b], l)
    BY <1>7
  <2>2. updated[x].ParentIndex = l.parent
    BY <1>2, <1>7, <2>1, MarkedAreFlagged DEF ParentsOK
  <2>3. linkCache'[x].SlaveLinks = Slaves(l.name, l.parent, nll)
    BY <1>8, <2>1, <2>2, MarkedAreFlagged
  <2> QED
    BY <1>1, <2>1, <2>3 DEF Justified
<1>12. LinksComplete(DOMAIN multusConfig \ todo, Marked(linkCache))'
  BY <1>1, <1>3, <1>7, <1>9 DEF LinksComplete
<1> QED
  BY <1>10, <1>11, <1>12 DEF LinksStage

(* The sweep leaves the marked entries, with what they know.                *)
LEMMA SweepLinksMarked ==
  ASSUME NEW cache, LinksOK(cache)
  PROVE  LET now == SweepLinks(cache) IN
         /\ DOMAIN now = Marked(cache)
         /\ \A x \in Marked(cache) :
              now[x].SlaveLinks = cache[x].SlaveLinks /\ now[x].ParentIndex = cache[x].ParentIndex
<1> DEFINE changed(x) == (cache[x].ChangeFlag # "noChange")
           swept(x) == [cache[x] EXCEPT !.ChangeFlag = "", !.LldpChangeFlag = changed(x)]
<1>1. SweepLinks(cache) = [x \in Marked(cache) |-> swept(x)]
  BY DEF SweepLinks
<1>2. ASSUME NEW x \in Marked(cache)
      PROVE  swept(x).SlaveLinks = cache[x].SlaveLinks /\ swept(x).ParentIndex = cache[x].ParentIndex
  <2>1. LinkEntry(cache[x])
    BY DEF LinksOK, Marked
  <2> HIDE DEF changed
  <2> QED
    BY <2>1 DEF LinkEntry
<1> HIDE DEF swept
<1> QED
  BY <1>1, <1>2

LEMMA SweepLldpMarked ==
  ASSUME NEW cache, LldpOK(cache)
  PROVE  LET now == SweepLldp(cache) IN
         DOMAIN now = Marked(cache) /\ \A y \in Marked(cache) : now[y].dev = cache[y].dev
<1> DEFINE swept(y) == [cache[y] EXCEPT !.ChangeFlag = ""]
<1>1. SweepLldp(cache) = [y \in Marked(cache) |-> swept(y)]
  BY DEF SweepLldp
<1>2. ASSUME NEW y \in Marked(cache)
      PROVE  swept(y).dev = cache[y].dev
  <2>1. LldpEntry(cache[y])
    BY DEF LldpOK, Marked
  <2> QED
    BY <2>1 DEF LldpEntry
<1> HIDE DEF swept
<1> QED
  BY <1>1, <1>2

(* A link marks the lldp entries of its vlan on the interfaces below it     *)
(* that have a neighbour, with that neighbour, and touches no others.       *)
LEMMA LldpEntries ==
  ASSUME AgentInv, NEW x \in DOMAIN linkCache, UpdateLldpLinkCache(x)
  PROVE  LET seen == linkCache[x].SlaveLinks \cap DOMAIN nbrs
             keys == DOMAIN lldpLinkCache \cup {<<s, x[2]>> : s \in seen} IN
         /\ DOMAIN linkCache' = DOMAIN linkCache
         /\ \A z \in DOMAIN linkCache : /\ linkCache'[z].SlaveLinks = linkCache[z].SlaveLinks
                                        /\ linkCache'[z].ParentIndex = linkCache[z].ParentIndex
         /\ DOMAIN lldpLinkCache' = keys
         /\ \A y \in keys :
              IF y[2] = x[2] /\ y[1] \in seen
              THEN Flagged(lldpLinkCache'[y]) /\ lldpLinkCache'[y].dev = nbrs[y[1]].dev
              ELSE y \in DOMAIN lldpLinkCache /\ lldpLinkCache'[y] = lldpLinkCache[y]
<1> DEFINE la == linkCache[x]
           seen == {s \in la.SlaveLinks : s \in DOMAIN nbrs}
           known == {s \in seen : InCache(lldpLinkCache, s)}
           entry(s, first) ==
             IF s \notin known THEN LldpEndPoint(la, nbrs[s], "newlyAdded", TRUE)
             ELSE IF la.LldpChangeFlag /\ s = first THEN LldpEndPoint(la, nbrs[s], "someChange", TRUE)
             ELSE LldpEndPoint(la, nbrs[s], "noChange", FALSE)
           keys == DOMAIN lldpLinkCache \cup {<<s, x[2]>> : s \in seen}
           left == la.LldpChangeFlag /\ known = {}
<1>1. PICK first :
        lldpLinkCache' =
          [y \in keys |-> IF y[2] = x[2] /\ y[1] \in seen THEN entry(y[1], first) ELSE lldpLinkCache[y]]
  BY DEF UpdateLldpLinkCache
<1>2. linkCache' = [linkCache EXCEPT ![x] = [la EXCEPT !.LldpChangeFlag = left]]
  BY DEF UpdateLldpLinkCache
<1>3. \A s : Flagged(entry(s, first)) /\ entry(s, first).dev = nbrs[s].dev
  BY DEF LldpEndPoint, Flagged
<1>4. seen = la.SlaveLinks \cap DOMAIN nbrs
  OBVIOUS
<1> HIDE DEF entry, left
<1>5. /\ DOMAIN linkCache' = DOMAIN linkCache
      /\ \A z \in DOMAIN linkCache : /\ linkCache'[z].SlaveLinks = linkCache[z].SlaveLinks
                                     /\ linkCache'[z].ParentIndex = linkCache[z].ParentIndex
  <2> DEFINE now == [la EXCEPT !.LldpChangeFlag = left]
  <2>1. LinksOK(linkCache) /\ LinkEntry(la)
    BY DEF AgentInv, LinksOK
  <2>2. now.SlaveLinks = la.SlaveLinks /\ now.ParentIndex = la.ParentIndex
    BY <2>1 DEF LinkEntry
  <2> HIDE DEF now
  <2> QED
    BY <1>2, <2>1, <2>2 DEF LinksOK, now
<1>6. \A y \in keys : (y[2] = x[2] /\ y[1] \in seen) \/ y \in DOMAIN lldpLinkCache
  OBVIOUS
<1> HIDE DEF seen
<1>7. /\ DOMAIN lldpLinkCache' = keys
      /\ \A y \in keys :
           IF y[2] = x[2] /\ y[1] \in seen
           THEN Flagged(lldpLinkCache'[y]) /\ lldpLinkCache'[y].dev = nbrs[y[1]].dev
           ELSE y \in DOMAIN lldpLinkCache /\ lldpLinkCache'[y] = lldpLinkCache[y]
  BY <1>1, <1>3, <1>6
<1> HIDE DEF la
<1> QED
  BY <1>4, <1>5, <1>7 DEF la

(* So the entries it marks are those of the pass.                           *)
LEMMA LldpStep ==
  ASSUME AgentInv, PassInv, NEW x \in DOMAIN linkCache, UpdateLldpLinkCache(x)
  PROVE  /\ KeysOK(linkCache)' /\ ParentsOK(linkCache)' /\ PairsOK(lldpLinkCache)'
         /\ LldpStage'
<1> DEFINE seen == linkCache[x].SlaveLinks \cap DOMAIN nbrs
           keys == DOMAIN lldpLinkCache \cup {<<s, x[2]>> : s \in seen}
<1>1. /\ DOMAIN linkCache' = DOMAIN linkCache
      /\ \A z \in DOMAIN linkCache : /\ linkCache'[z].SlaveLinks = linkCache[z].SlaveLinks
                                     /\ linkCache'[z].ParentIndex = linkCache[z].ParentIndex
      /\ DOMAIN lldpLinkCache' = keys
      /\ \A y \in keys :
           IF y[2] = x[2] /\ y[1] \in seen
           THEN Flagged(lldpLinkCache'[y]) /\ lldpLinkCache'[y].dev = nbrs[y[1]].dev
           ELSE y \in DOMAIN lldpLinkCache /\ lldpLinkCache'[y] = lldpLinkCache[y]
  BY LldpEntries
<1>2. todo' = todo \ {x} /\ pc = "lldp" /\ UNCHANGED <<multusConfig, nll, nbrs>>
  BY DEF UpdateLldpLinkCache, configVars, readVars
<1>3. /\ LinksExact
      /\ LldpSound(lldpLinkCache, Marked(lldpLinkCache))
      /\ LldpComplete(DOMAIN linkCache \ todo, Marked(lldpLinkCache))
  BY <1>2 DEF PassInv, LldpStage
<1>4. KeysOK(linkCache)' /\ ParentsOK(linkCache)'
  BY <1>1 DEF PassInv, KeysOK, ParentsOK
<1>5. LinksExact'
  BY <1>1, <1>2, <1>3 DEF LinksExact, LinksSound, LinksComplete, Justified
<1>6. PairsOK(lldpLinkCache)'
  BY <1>1 DEF PassInv, PairsOK
<1>7. \A s \in seen : <<s, x[2]>> \in keys /\ Flagged(lldpLinkCache'[<<s, x[2]>>])
  BY <1>1
<1>8. \A s \in seen : s \in DOMAIN nbrs /\ s \in linkCache[x].SlaveLinks
  OBVIOUS
<1> HIDE DEF seen
<1>9. Marked(lldpLinkCache)' = {y \in DOMAIN lldpLinkCache' : Flagged(lldpLinkCache'[y])}
  BY DEF Marked, Flagged
<1>10. \A y \in Marked(lldpLinkCache) : y \in Marked(lldpLinkCache)'
  BY <1>1, <1>9, MarkedAreFlagged
<1>11. LldpSound(lldpLinkCache, Marked(lldpLinkCache))'
  <2> SUFFICES ASSUME NEW y \in DOMAIN lldpLinkCache', Flagged(lldpLinkCache'[y])
               PROVE  /\ y[1] \in DOMAIN nbrs /\ lldpLinkCache'[y].dev = nbrs[y[1]].dev
                      /\ \E z \in DOMAIN linkCache : z[2] = y[2] /\ y[1] \in linkCache[z].SlaveLinks
    BY <1>1, <1>2, <1>9 DEF LldpSound
  <2>1. CASE /\ y[2] = x[2] /\ y[1] \in seen
             /\ lldpLinkCache'[y].dev = nbrs[y[1]].dev
    BY <1>8, <2>1
  <2>2. CASE y \in DOMAIN lldpLinkCache /\ lldpLinkCache'[y] = lldpLinkCache[y]
    BY <1>3, <2>2, MarkedAreFlagged DEF LldpSound
  <2> QED
    BY <1>1, <2>1, <2>2
<1>12. LldpComplete(DOMAIN linkCache \ todo, Marked(lldpLinkCache))'
  <2> SUFFICES ASSUME NEW z \in DOMAIN linkCache, z \notin todo \/ z = x,
                      NEW s \in linkCache[z].SlaveLinks \cap DOMAIN nbrs
               PROVE  <<s, z[2]>> \in Marked(lldpLinkCache)'
    BY <1>1, <1>2 DEF LldpComplete
  <2>1. CASE z = x
    BY <1>1, <1>7, <1>9, <2>1 DEF seen
  <2>2. CASE z \notin todo
    BY <1>3, <1>10, <2>2 DEF LldpComplete
  <2> QED
    BY <2>1, <2>2
<1> QED
  BY <1>4, <1>5, <1>6, <1>11, <1>12 DEF LldpStage

(* An lldp entry marks its vlan, and no other.                              *)
LEMMA DeviceEntries ==
  ASSUME AgentInv, NEW y \in DOMAIN lldpLinkCache, DeviceCentricView(y)
  PROVE  /\ DOMAIN lldpLinkCache' = DOMAIN lldpLinkCache
         /\ \A z \in DOMAIN lldpLinkCache : lldpLinkCache'[z].dev = lldpLinkCache[z].dev
         /\ DOMAIN vlans' = DOMAIN vlans \cup {VlanOf(y)}
         /\ MarkedVlans' = MarkedVlans \cup {VlanOf(y)}
<1> DEFINE ep == lldpLinkCache[y]
           vlan == <<ep.dev, y[1], y[2]>>
           flag == IF vlan \notin DOMAIN vlans THEN "newlyAdded"
                   ELSE IF ep.DeviceLinkChangeFlag THEN "someChange" ELSE "noChange"
           now == [ep EXCEPT !.DeviceLinkChangeFlag = FALSE]
<1>1. vlans' = [t \in DOMAIN vlans \cup {vlan} |-> IF t = vlan THEN flag ELSE vlans[t]]
  BY DEF DeviceCentricView, Put
<1>2. \/ UNCHANGED lldpLinkCache
      \/ lldpLinkCache' = [lldpLinkCache EXCEPT ![y] = now]
  BY DEF DeviceCentricView
<1>3. /\ DOMAIN lldpLinkCache' = DOMAIN lldpLinkCache
      /\ \A z \in DOMAIN lldpLinkCache : lldpLinkCache'[z].dev = lldpLinkCache[z].dev
  <2>1. LldpOK(lldpLinkCache) /\ LldpEntry(ep)
    BY DEF AgentInv, LldpOK
  <2>2. now.dev = ep.dev
    BY <2>1 DEF LldpEntry
  <2> HIDE DEF now
  <2> QED
    BY <1>2, <2>1, <2>2 DEF LldpOK
<1>4. flag # "" /\ vlan = VlanOf(y)
  BY DEF VlanOf
<1> HIDE DEF flag, vlan
<1>5. /\ DOMAIN vlans' = DOMAIN vlans \cup {vlan}
      /\ \A t \in DOMAIN vlans' : vlans'[t] = IF t = vlan THEN flag ELSE vlans[t]
  BY <1>1
<1>6. MarkedVlans' = MarkedVlans \cup {vlan}
  BY <1>4, <1>5, Zenon DEF MarkedVlans
<1> QED
  BY <1>3, <1>4, <1>5, <1>6

(* So the vlans marked are those of the lldp entries visited.               *)
LEMMA DevicesStep ==
  ASSUME AgentInv, PassInv, NEW y \in DOMAIN lldpLinkCache, DeviceCentricView(y)
  PROVE  PairsOK(lldpLinkCache)' /\ DevicesStage'
<1>1. todo' = todo \ {y} /\ pc = "devices" /\ UNCHANGED <<multusConfig, linkCache, nll, nbrs>>
  BY DEF DeviceCentricView, configVars, readVars
<1>2. /\ DOMAIN lldpLinkCache' = DOMAIN lldpLinkCache
      /\ \A z \in DOMAIN lldpLinkCache : lldpLinkCache'[z].dev = lldpLinkCache[z].dev
      /\ MarkedVlans' = MarkedVlans \cup {VlanOf(y)}
  BY DeviceEntries
<1>3. /\ LinksExact /\ LldpExact
      /\ VlansSound(MarkedVlans) /\ VlansComplete(DOMAIN lldpLinkCache \ todo, MarkedVlans)
  BY <1>1 DEF PassInv, DevicesStage
<1>4. LinksExact' /\ LldpExact'
  BY <1>1, <1>2, <1>3
  DEF LinksExact, LinksSound, LinksComplete, Justified, LldpExact, LldpSound, LldpComplete
<1>5. \A z \in DOMAIN lldpLinkCache : VlanOf(z)' = VlanOf(z)
  BY <1>2 DEF VlanOf
<1>6. VlansSound(MarkedVlans)'
  BY <1>2, <1>3, <1>5 DEF VlansSound
<1>7. VlansComplete(DOMAIN lldpLinkCache \ todo, MarkedVlans)'
  BY <1>1, <1>2, <1>3, <1>5 DEF VlansComplete
<1>8. PairsOK(lldpLinkCache)'
  BY <1>2 DEF PassInv, PairsOK
<1> QED
  BY <1>4, <1>6, <1>7, <1>8 DEF DevicesStage

(* The steps that touch no cache.                                           *)
LEMMA PassUntouched ==
  ASSUME PassInv, UNCHANGED <<linkCache, lldpLinkCache, vlans>>,
         \/ pc' \notin {"links", "neighbours", "lldp", "devices"} /\ ConfigOK' /\ ReadOK'
         \/ UNCHANGED <<pc, todo, multusConfig, nll, nbrs>>
  PROVE  PassInv'
<1>1. KeysOK(linkCache)' /\ ParentsOK(linkCache)' /\ PairsOK(lldpLinkCache)'
  BY DEF PassInv, KeysOK, ParentsOK, PairsOK
<1>2. CASE pc' \notin {"links", "neighbours", "lldp", "devices"} /\ ConfigOK' /\ ReadOK'
  BY <1>1, <1>2 DEF PassInv, LinksStage, LldpStage, DevicesStage
<1>3. CASE UNCHANGED <<pc, todo, multusConfig, nll, nbrs>>
  <2>1. ConfigOK' /\ ReadOK'
    BY <1>3 DEF PassInv, ConfigOK, ReadOK
  <2>2. LinksExact => LinksExact'
    BY <1>3 DEF LinksExact, LinksSound, LinksComplete, Justified
  <2>3. LinksStage'
    BY <1>3 DEF PassInv, LinksStage, LinksSound, LinksComplete, Justified, Marked
  <2>4. LldpStage'
    BY <1>3, <2>2 DEF PassInv, LldpStage, LldpSound, LldpComplete, Marked
  <2>5. DevicesStage'
    BY <1>3, <2>2 DEF PassInv, DevicesStage, LldpExact, LldpSound, LldpComplete,
                      VlansSound, VlansComplete, VlanOf, MarkedVlans
  <2> QED
    BY <1>1, <1>3, <2>1, <2>2, <2>3, <2>4, <2>5 DEF PassInv
<1> QED
  BY <1>2, <1>3

(* What parseConfig makes of an attachment has a number for its vlan.       *)
LEMMA ParsedOK ==
  ASSUME NEW spec, spec.Type \in {"sriov", "ipvlan", "macvlan", "other", "invalid"}
  PROVE  AttOK(ParseConfig(spec))
<1>1. CASE spec.Type = "sriov"
  <2>1. ParseConfig(spec) = NetwAtt("sriov", NoItf, 0, spec.resource)
    BY <1>1 DEF ParseConfig
  <2> QED
    BY <2>1 DEF NetwAtt, AttOK
<1>2. CASE spec.Type \in {"ipvlan", "macvlan"}
  <2> DEFINE vlan == IF spec.vlan \in Nat THEN spec.vlan ELSE 0
  <2>1. ParseConfig(spec) = NetwAtt(spec.Type, spec.itf, vlan, NoResource) /\ vlan \in Nat
    BY <1>2 DEF ParseConfig
  <2> HIDE DEF vlan
  <2> QED
    BY <2>1 DEF NetwAtt, AttOK
<1>3. CASE spec.Type \in {"other", "invalid"}
  <2>1. PICK kind : kind \notin {"ipvlan", "macvlan"} /\ ParseConfig(spec) = NetwAtt(kind, NoItf, 0, NoResource)
    <3>1. ParseConfig(spec) = NetwAtt("", NoItf, 0, NoResource)
      BY <1>3 DEF ParseConfig
    <3>2. "" \notin {"ipvlan", "macvlan"}
      OBVIOUS
    <3> QED
      BY <3>1, <3>2, Zenon
  <2> QED
    BY <2>1 DEF NetwAtt, AttOK
<1> QED
  BY <1>1, <1>2, <1>3

(* So have the attachments the main loop holds.                             *)
LEMMA ConfigKept ==
  ASSUME ConfigOK, ProcessOK, Message \/ TimerWork
  PROVE  ConfigOK'
<1>1. ASSUME NEW na, AttOK(na), NEW itf
      PROVE  AttOK([na EXCEPT !.ItfceName = itf])
  BY <1>1 DEF AttOK
<1>2. \A a \in DOMAIN multusConfig : AttOK(multusConfig[a])
  BY DEF ConfigOK
<1>3. ASSUME \A a \in DOMAIN multusConfig' : AttOK(multusConfig'[a])
      PROVE  ConfigOK'
  BY <1>3 DEF ConfigOK
<1>4. ASSUME NEW a \in DOMAIN world.nads, MultusUpdate(a)
      PROVE  ConfigOK'
  <2>1. multusConfig' = Put(multusConfig, a, ParseConfig(world.nads[a]))
    BY <1>4 DEF MultusUpdate
  <2>2. AttOK(ParseConfig(world.nads[a]))
    BY ParsedOK, WorldsOK DEF ProcessOK
  <2> QED
    BY <1>2, <1>3, <2>1, <2>2 DEF Put
<1>5. ASSUME NEW a \in DOMAIN multusConfig, MultusDelete(a)
      PROVE  ConfigOK'
  BY <1>2, <1>3, <1>5 DEF MultusDelete, Keep
<1>6. ASSUME NEW r \in DOMAIN world.resources, SriovUpdate(r)
      PROVE  ConfigOK'
  BY <1>2, <1>3, <1>6 DEF SriovUpdate
<1>7. CASE TimerWork
  <2> DEFINE named(a) == [multusConfig[a] EXCEPT !.ItfceName = sriovConfig[multusConfig[a].ResourceName]]
  <2>1. multusConfig' =
          [a \in DOMAIN multusConfig |->
             IF multusConfig[a].Kind = "sriov" /\ multusConfig[a].ResourceName \in DOMAIN sriovConfig
             THEN named(a) ELSE multusConfig[a]]
    BY <1>7 DEF TimerWork
  <2>2. \A a \in DOMAIN multusConfig : AttOK(named(a))
    BY <1>1, <1>2
  <2> HIDE DEF named
  <2> QED
    BY <1>2, <1>3, <2>1, <2>2
<1> QED
  BY <1>4, <1>5, <1>6, <1>7 DEF Message

LEMMA PassInvInit == Init => PassInv
<1> SUFFICES ASSUME Init PROVE PassInv
  OBVIOUS
<1>1. DOMAIN Empty = {}
  BY DEF Empty
<1>2. ConfigOK /\ KeysOK(linkCache) /\ ParentsOK(linkCache) /\ PairsOK(lldpLinkCache)
  BY <1>1 DEF Init, ConfigOK, KeysOK, ParentsOK, PairsOK
<1>3. ReadOK
  BY WorldsOK DEF Init, ReadOK
<1> QED
  BY <1>2, <1>3 DEF Init, PassInv, LinksStage, LldpStage, DevicesStage

(* Every step keeps the caches in line with what the pass has read.         *)
LEMMA PassInvNext == ParentsKept(Worlds) /\ AgentInv /\ PassInv /\ [Next]_vars => PassInv'
<1> SUFFICES ASSUME ParentsKept(Worlds), AgentInv, PassInv, [Next]_vars PROVE PassInv'
  OBVIOUS
<1> USE DEF configVars, cacheVars, deviceVars, readVars
<1>0. ProcessOK /\ ConfigOK /\ ReadOK
  BY DEF AgentInv, PassInv
<1>1. CASE \E w \in Worlds : WorldChange(w)
  BY <1>1, PassUntouched DEF WorldChange
<1>2. CASE Boot
  <2>1. ConfigOK' /\ ReadOK' /\ pc' = "idle" /\ UNCHANGED <<linkCache, lldpLinkCache, vlans>>
    BY <1>0, <1>2 DEF Boot, BootFound, BootCreate, ConfigOK, ReadOK
  <2> QED
    BY <2>1, PassUntouched
<1>3. CASE Message
  <2>1. ConfigOK'
    BY <1>0, <1>3, ConfigKept
  <2>2. ReadOK' /\ pc' = "idle" /\ UNCHANGED <<linkCache, lldpLinkCache, vlans>>
    BY <1>0, <1>3 DEF Message, MultusUpdate, MultusDelete, SriovUpdate, ReadOK
  <2> QED
    BY <2>1, <2>2, PassUntouched
<1>4. CASE TimerWork
  <2>1. ConfigOK'
    BY <1>0, <1>4, ConfigKept
  <2>2. ReadOK' /\ pc' = "netlink" /\ UNCHANGED <<linkCache, lldpLinkCache, vlans>>
    BY <1>0, <1>4 DEF TimerWork, ReadOK
  <2> QED
    BY <2>1, <2>2, PassUntouched
<1>5. CASE NetLinkRead \/ NetLinkFails
  <2>1. /\ pc = "netlink" /\ pc' = "links"
        /\ UNCHANGED <<multusConfig, linkCache, lldpLinkCache>>
        /\ \/ nll' = world.links /\ todo' = DOMAIN multusConfig
           \/ nll' = {}
    BY <1>5 DEF NetLinkRead, NetLinkFails
  <2>2. ConfigOK' /\ ReadOK'
    BY <1>0, <2>1 DEF ConfigOK, ReadOK, ProcessOK
  <2>3. KeysOK(linkCache)' /\ ParentsOK(linkCache)' /\ PairsOK(lldpLinkCache)'
    BY <2>1 DEF PassInv, KeysOK, ParentsOK, PairsOK
  <2>4. Marked(linkCache)' = {}
    BY <2>1 DEF AgentInv, Swept, NoMark, Marked
  <2>5. LinksStage'
    BY <2>1, <2>4 DEF LinksStage, LinksSound, LinksComplete
  <2> QED
    BY <2>1, <2>2, <2>3, <2>5 DEF PassInv, LldpStage, DevicesStage
<1>6. ASSUME NEW a \in DOMAIN multusConfig, UpdateNetLinkCache(a)
      PROVE  PassInv'
  <2>1. KeysOK(linkCache)' /\ ParentsOK(linkCache)' /\ LinksStage'
    BY <1>6, LinksStep
  <2>2. pc' = "links" /\ UNCHANGED <<multusConfig, lldpLinkCache, nll>>
    BY <1>6 DEF UpdateNetLinkCache
  <2>3. ConfigOK' /\ ReadOK' /\ PairsOK(lldpLinkCache)'
    BY <1>0, <2>2 DEF PassInv, ConfigOK, ReadOK, PairsOK
  <2> QED
    BY <2>1, <2>2, <2>3 DEF PassInv, LldpStage, DevicesStage
<1>7. CASE ValidateNetLinkCacheChanges
  <2>1. /\ linkCache' = SweepLinks(linkCache) /\ pc = "links" /\ pc' = "neighbours" /\ todo = {}
        /\ UNCHANGED <<multusConfig, lldpLinkCache, nll>>
    BY <1>7 DEF ValidateNetLinkCacheChanges
  <2> DEFINE now == SweepLinks(linkCache)
  <2>2. /\ DOMAIN now = Marked(linkCache)
        /\ \A x \in Marked(linkCache) : /\ now[x].SlaveLinks = linkCache[x].SlaveLinks
                                        /\ now[x].ParentIndex = linkCache[x].ParentIndex
    BY SweepLinksMarked DEF AgentInv
  <2>3. linkCache' = now
    BY <2>1
  <2> HIDE DEF now
  <2>4. Marked(linkCache) \subseteq DOMAIN linkCache
    BY DEF Marked
  <2>5. KeysOK(linkCache)' /\ ParentsOK(linkCache)'
    BY <2>2, <2>3, <2>4 DEF PassInv, KeysOK, ParentsOK
  <2>6. LinksExact'
    BY <2>1, <2>2, <2>3 DEF PassInv, LinksStage, LinksExact, LinksSound, LinksComplete, Justified
  <2>7. ConfigOK' /\ ReadOK' /\ PairsOK(lldpLinkCache)'
    BY <1>0, <2>1 DEF PassInv, ConfigOK, ReadOK, PairsOK
  <2> QED
    BY <2>1, <2>5, <2>6, <2>7 DEF PassInv, LinksStage, LldpStage, DevicesStage
<1>8. CASE LldpRead \/ LldpFails
  <2>1. /\ pc = "neighbours" /\ pc' \in {"lldp", "down"}
        /\ UNCHANGED <<multusConfig, linkCache, lldpLinkCache, nll>>
        /\ todo' = DOMAIN linkCache \/ nbrs' = Empty
    BY <1>8 DEF LldpRead, LldpFails
  <2>2. /\ ConfigOK' /\ ReadOK'
        /\ KeysOK(linkCache)' /\ ParentsOK(linkCache)' /\ PairsOK(lldpLinkCache)'
    BY <1>0, <2>1 DEF PassInv, ConfigOK, ReadOK, KeysOK, ParentsOK, PairsOK
  <2>3. LinksExact'
    BY <2>1 DEF PassInv, LinksExact, LinksSound, LinksComplete, Justified
  <2>4. Marked(lldpLinkCache)' = {}
    BY <2>1 DEF AgentInv, Swept, NoMark, Marked
  <2>5. DOMAIN Empty = {}
    BY DEF Empty
  <2>6. LldpStage'
    BY <2>1, <2>3, <2>4, <2>5 DEF LldpStage, LldpSound, LldpComplete
  <2> QED
    BY <2>1, <2>2, <2>6 DEF PassInv, LinksStage, DevicesStage
<1>9. ASSUME NEW x \in DOMAIN linkCache, UpdateLldpLinkCache(x)
      PROVE  PassInv'
  <2>1. /\ KeysOK(linkCache)' /\ ParentsOK(linkCache)' /\ PairsOK(lldpLinkCache)'
        /\ LldpStage'
    BY <1>9, LldpStep
  <2>2. pc' = "lldp" /\ UNCHANGED <<multusConfig, nll>>
    BY <1>9 DEF UpdateLldpLinkCache
  <2>3. ConfigOK' /\ ReadOK'
    BY <1>0, <2>2 DEF ConfigOK, ReadOK
  <2> QED
    BY <2>1, <2>2, <2>3 DEF PassInv, LinksStage, DevicesStage
<1>10. CASE ValidateLldpLinkCacheChanges
  <2>1. /\ lldpLinkCache' = SweepLldp(lldpLinkCache) /\ todo = {} /\ todo' = DOMAIN lldpLinkCache'
        /\ pc = "lldp" /\ pc' = "devices"
        /\ UNCHANGED <<multusConfig, linkCache, vlans, nll, nbrs>>
    BY <1>10 DEF ValidateLldpLinkCacheChanges
  <2> DEFINE now == SweepLldp(lldpLinkCache)
  <2>2. /\ DOMAIN now = Marked(lldpLinkCache)
        /\ \A y \in Marked(lldpLinkCache) : now[y].dev = lldpLinkCache[y].dev
    BY SweepLldpMarked DEF AgentInv
  <2>3. lldpLinkCache' = now
    BY <2>1
  <2> HIDE DEF now
  <2>4. Marked(lldpLinkCache) \subseteq DOMAIN lldpLinkCache
    BY DEF Marked
  <2>5. /\ ConfigOK' /\ ReadOK'
        /\ KeysOK(linkCache)' /\ ParentsOK(linkCache)' /\ PairsOK(lldpLinkCache)'
    BY <1>0, <2>1, <2>2, <2>3, <2>4 DEF PassInv, ConfigOK, ReadOK, KeysOK, ParentsOK, PairsOK
  <2>6. LinksExact'
    BY <2>1 DEF PassInv, LldpStage, LinksExact, LinksSound, LinksComplete, Justified
  <2>7. LldpExact'
    BY <2>1, <2>2, <2>3 DEF PassInv, LldpStage, LldpExact, LldpSound, LldpComplete
  <2>8. MarkedVlans' = {}
    BY <2>1 DEF AgentInv, Swept, NoVlanMark, MarkedVlans
  <2>9. VlansSound(MarkedVlans)' /\ VlansComplete(DOMAIN lldpLinkCache \ todo, MarkedVlans)'
    BY <2>1, <2>8 DEF VlansSound, VlansComplete
  <2> QED
    BY <2>1, <2>5, <2>6, <2>7, <2>9 DEF PassInv, LinksStage, LldpStage, DevicesStage
<1>11. ASSUME NEW y \in DOMAIN lldpLinkCache, DeviceCentricView(y)
       PROVE  PassInv'
  <2>1. PairsOK(lldpLinkCache)' /\ DevicesStage'
    BY <1>11, DevicesStep
  <2>2. pc' = "devices" /\ UNCHANGED <<multusConfig, linkCache, nll>>
    BY <1>11 DEF DeviceCentricView
  <2>3. ConfigOK' /\ ReadOK' /\ KeysOK(linkCache)' /\ ParentsOK(linkCache)'
    BY <1>0, <2>2 DEF PassInv, ConfigOK, ReadOK, KeysOK, ParentsOK
  <2> QED
    BY <2>1, <2>2, <2>3 DEF PassInv, LinksStage, LldpStage
<1>12. CASE ValidateDeviceChanges
  <2>1. /\ pc' \in {"publish", "idle"}
        /\ UNCHANGED <<multusConfig, linkCache, lldpLinkCache, nll>>
    BY <1>12 DEF ValidateDeviceChanges
  <2>2. /\ ConfigOK' /\ ReadOK'
        /\ KeysOK(linkCache)' /\ ParentsOK(linkCache)' /\ PairsOK(lldpLinkCache)'
    BY <1>0, <2>1 DEF PassInv, ConfigOK, ReadOK, KeysOK, ParentsOK, PairsOK
  <2> QED
    BY <2>1, <2>2 DEF PassInv, LinksStage, LldpStage, DevicesStage
<1>13. CASE UpdateK8sNodeTopology \/ UpdateNameless \/ UpdateFails \/ Crash
  <2>1. ConfigOK' /\ ReadOK' /\ pc' \in {"idle", "down"} /\ UNCHANGED <<linkCache, lldpLinkCache, vlans>>
    BY <1>0, <1>13 DEF UpdateK8sNodeTopology, UpdateNameless, UpdateFails, Crash, ConfigOK, ReadOK
  <2> QED
    BY <2>1, PassUntouched
<1>14. CASE BootFails
  BY <1>14, PassUntouched DEF BootFails
<1>15. CASE Restart
  <2>1. DOMAIN Empty = {}
    BY DEF Empty
  <2>2. /\ pc' = "boot" /\ multusConfig' = Empty /\ linkCache' = Empty /\ lldpLinkCache' = Empty
        /\ nll' = {}
    BY <1>15 DEF Restart
  <2>3. /\ ConfigOK' /\ ReadOK'
        /\ KeysOK(linkCache)' /\ ParentsOK(linkCache)' /\ PairsOK(lldpLinkCache)'
    BY <1>0, <2>1, <2>2 DEF ConfigOK, ReadOK, KeysOK, ParentsOK, PairsOK
  <2> QED
    BY <2>2, <2>3 DEF PassInv, LinksStage, LldpStage, DevicesStage
<1>16. CASE UNCHANGED vars
  BY <1>16, PassUntouched DEF vars
<1> QED
  BY <1>1, <1>2, <1>3, <1>4, <1>5, <1>6, <1>7, <1>8, <1>9, <1>10, <1>11, <1>12, <1>13, <1>14,
     <1>15, <1>16 DEF Next, Tick, Failure

(* What the three caches lead to is what the attachments, the links and the *)
(* neighbours do.                                                           *)
LEMMA MarkedVlansExact ==
  ASSUME PassInv, pc = "devices", todo = {}
  PROVE  /\ MarkedVlans \subseteq Expected(multusConfig, nll, nbrs)
         /\ Expected(NotSriov(multusConfig), nll, nbrs) \subseteq MarkedVlans
<1>1. /\ LinksExact /\ LldpExact
      /\ VlansSound(MarkedVlans) /\ VlansComplete(DOMAIN lldpLinkCache, MarkedVlans)
  BY DEF PassInv, DevicesStage
<1>2. ASSUME NEW t \in MarkedVlans
      PROVE  t \in Expected(multusConfig, nll, nbrs)
  <2>1. PICK y \in DOMAIN lldpLinkCache : t = <<lldpLinkCache[y].dev, y[1], y[2]>>
    BY <1>1 DEF VlansSound, VlanOf
  <2>2. PICK x \in DOMAIN linkCache : x[2] = y[2] /\ y[1] \in linkCache[x].SlaveLinks
    BY <1>1 DEF LldpExact, LldpSound
  <2>3. y[1] \in DOMAIN nbrs /\ lldpLinkCache[y].dev = nbrs[y[1]].dev
    BY <1>1 DEF LldpExact, LldpSound
  <2>4. PICK a \in DOMAIN multusConfig, l \in nll :
          /\ Matches(multusConfig[a], l) /\ x[2] \in VlansOf(multusConfig[a], l)
          /\ linkCache[x].SlaveLinks = Slaves(l.name, l.parent, nll)
    BY <1>1 DEF LinksExact, LinksSound, Justified
  <2>5. t = <<nbrs[y[1]].dev, y[1], y[2]>> /\ y[2] \in VlansOf(multusConfig[a], l)
        /\ y[1] \in Slaves(l.name, l.parent, nll) \cap DOMAIN nbrs
    BY <2>1, <2>2, <2>3, <2>4
  <2> QED
    BY <2>4, <2>5 DEF Expected
<1>3. ASSUME NEW t \in Expected(NotSriov(multusConfig), nll, nbrs)
      PROVE  t \in MarkedVlans
  <2> DEFINE config == NotSriov(multusConfig)
  <2>1. PICK a \in DOMAIN config, l \in nll, s \in DOMAIN nbrs, v \in {t[3]} :
          /\ Matches(config[a], l)
          /\ s \in Slaves(l.name, l.parent, nll) /\ v \in VlansOf(config[a], l)
          /\ t = <<nbrs[s].dev, s, v>>
    <3> HIDE DEF config
    <3> QED
      BY <1>3 DEF Expected, config
  <2>2. a \in DOMAIN multusConfig /\ config[a] = multusConfig[a] /\ multusConfig[a].Kind # "sriov"
    BY DEF NotSriov, Keep
  <2>3. v = multusConfig[a].Vlan
    BY <2>1, <2>2 DEF VlansOf
  <2> DEFINE x == <<l.name, v>>
  <2>4. x \in DOMAIN linkCache
    BY <1>1, <2>1, <2>2, <2>3 DEF LinksExact, LinksComplete
  <2>5. linkCache[x].SlaveLinks = Slaves(l.name, l.parent, nll)
    <3>1. PICK b \in DOMAIN multusConfig, m \in nll :
            x[1] = m.name /\ linkCache[x].SlaveLinks = Slaves(m.name, m.parent, nll)
      BY <1>1, <2>4 DEF LinksExact, LinksSound, Justified
    <3>2. m = l
      BY <3>1, WorldsOK DEF PassInv, ReadOK
    <3> QED
      BY <3>1, <3>2
  <2>6. <<s, v>> \in DOMAIN lldpLinkCache
    BY <1>1, <2>1, <2>4, <2>5 DEF LldpExact, LldpComplete
  <2>7. lldpLinkCache[<<s, v>>].dev = nbrs[s].dev
    BY <1>1, <2>6 DEF LldpExact, LldpSound
  <2> QED
    BY <1>1, <2>1, <2>6, <2>7 DEF VlansComplete, VlanOf
<1> QED
  BY <1>2, <1>3

(* Whatever the caches held before, whatever fails, and in whatever order   *)
(* the maps are visited, a pass shows exactly the vlans that the            *)
(* attachments, links and neighbours it has read justify - as long as a     *)
(* link keeps its parent (ParentsKept): one that gets another parent is     *)
(* followed with the one it had (netlink.go:191).                           *)
THEOREM PassesAreExact ==
  ASSUME ParentsKept(Worlds)
  PROVE  Spec => PassExact
<1> DEFINE Inv == AgentInv /\ PassInv
           Exact == PassEnds => /\ DOMAIN vlans' \subseteq Expected(multusConfig, nll, nbrs)
                                /\ Expected(NotSriov(multusConfig), nll, nbrs) \subseteq DOMAIN vlans'
<1>1. Init => Inv
  BY AgentInvInit, PassInvInit
<1>2. Inv /\ [Next]_vars => Inv'
  BY AgentInvNext, PassInvNext
<1>3. Inv /\ [Next]_vars => [Exact]_vars
  <2> SUFFICES ASSUME Inv, Next, PassEnds
               PROVE  /\ DOMAIN vlans' \subseteq Expected(multusConfig, nll, nbrs)
                      /\ Expected(NotSriov(multusConfig), nll, nbrs) \subseteq DOMAIN vlans'
    OBVIOUS
  <2>1. ValidateDeviceChanges
    BY DEF PassEnds, Next, Boot, Message, Tick, Failure, WorldChange, BootFound, BootCreate,
           MultusUpdate, MultusDelete, SriovUpdate, TimerWork, NetLinkRead, UpdateNetLinkCache,
           ValidateNetLinkCacheChanges, LldpRead, UpdateLldpLinkCache, ValidateLldpLinkCacheChanges,
           DeviceCentricView, UpdateK8sNodeTopology, UpdateNameless, BootFails, NetLinkFails,
           LldpFails, UpdateFails, Crash, Restart
  <2>2. DOMAIN vlans' = MarkedVlans
    BY <2>1 DEF ValidateDeviceChanges, SweepVlans, MarkedVlans
  <2>3. pc = "devices" /\ todo = {}
    BY <2>1 DEF ValidateDeviceChanges
  <2> QED
    BY <2>2, <2>3, MarkedVlansExact
<1> QED
  BY <1>1, <1>2, <1>3, PTL DEF Spec, PassExact

-----------------------------------------------------------------------------
(* NothingInvented.  What the agent holds, it has from some of the worlds,  *)
(* though not from the same one.                                            *)
ConfigFound ==
  /\ \A a \in DOMAIN multusConfig : multusConfig[a] \in Attachments
  /\ \A r \in DOMAIN sriovConfig :
       \E w \in Worlds : r \in DOMAIN w.resources /\ sriovConfig[r] = w.resources[r]

NeighboursFound == \E w \in Worlds : \A s \in DOMAIN nbrs : s \in DOMAIN w.nbrs /\ nbrs[s] = w.nbrs[s]

KeyFound(x, parent) ==
  \E na \in Attachments, w \in Worlds : \E l \in w.links :
    Matches(na, l) /\ x[1] = l.name /\ x[2] \in VlansOf(na, l) /\ parent = l.parent

SlavesFound(x, parent, slaves) == \E w \in Worlds : slaves \subseteq Slaves(x[1], parent, w.links)

LinksFound(cache) ==
  \A x \in DOMAIN cache :
    /\ KeyFound(x, cache[x].ParentIndex)
    /\ SlavesFound(x, cache[x].ParentIndex, cache[x].SlaveLinks)

LldpFound == \A y \in DOMAIN lldpLinkCache : VlanOf(y) \in Places

ViewFound == DOMAIN vlans \subseteq Places

FoundInv ==
  /\ ReadOK /\ ConfigFound /\ NeighboursFound
  /\ LinksFound(linkCache) /\ LldpFound /\ ViewFound /\ NothingInvented

(* An attachment can be given the name of its interface time and again.     *)
LEMMA AttachmentsNamed ==
  ASSUME NEW na \in Attachments, na.Kind = "sriov",
         NEW w \in Worlds, na.ResourceName \in DOMAIN w.resources
  PROVE  Given(na, w) \in Attachments
<1>1. CASE na \in Parsed
  BY <1>1 DEF Attachments, Named
<1>2. CASE na \in Named
  <2>1. PICK u \in Worlds, p \in Parsed :
          p.Kind = "sriov" /\ na = Given(p, u)
    BY <1>2 DEF Named
  <2>2. AttOK(p)
    BY ParsedOK, WorldsOK DEF Parsed
  <2>3. /\ na.ResourceName = p.ResourceName
        /\ Given(na, w) = Given(p, w)
    BY <2>1, <2>2 DEF AttOK, Given
  <2>4. Given(p, w) \in Named
    BY <2>1, <2>3 DEF Named
  <2> QED
    BY <2>3, <2>4 DEF Attachments
<1> QED
  BY <1>1, <1>2 DEF Attachments

(* So the attachments the main loop holds are those there can be.           *)
LEMMA ConfigFoundKept ==
  ASSUME ConfigFound, ProcessOK, Message \/ TimerWork
  PROVE  ConfigFound'
<1>1. ASSUME NEW a \in DOMAIN world.nads, MultusUpdate(a)
      PROVE  ConfigFound'
  <2>1. /\ multusConfig' = Put(multusConfig, a, ParseConfig(world.nads[a]))
        /\ sriovConfig' = sriovConfig
    BY <1>1 DEF MultusUpdate
  <2>2. ParseConfig(world.nads[a]) \in Attachments
    BY DEF ProcessOK, Attachments, Parsed
  <2> QED
    BY <2>1, <2>2 DEF ConfigFound, Put
<1>2. ASSUME NEW a \in DOMAIN multusConfig, MultusDelete(a)
      PROVE  ConfigFound'
  BY <1>2 DEF MultusDelete, Keep, ConfigFound
<1>3. ASSUME NEW r \in DOMAIN world.resources, SriovUpdate(r)
      PROVE  ConfigFound'
  <2>1. /\ sriovConfig' = Put(sriovConfig, r, world.resources[r])
        /\ multusConfig' = multusConfig /\ world \in Worlds
    BY <1>3 DEF SriovUpdate, ProcessOK
  <2> QED
    BY <2>1 DEF ConfigFound, Put
<1>4. CASE TimerWork
  <2> DEFINE named(a) == [multusConfig[a] EXCEPT !.ItfceName = sriovConfig[multusConfig[a].ResourceName]]
             resolvable(a) == multusConfig[a].Kind = "sriov" /\ multusConfig[a].ResourceName \in DOMAIN sriovConfig
  <2>1. /\ multusConfig' = [a \in DOMAIN multusConfig |-> IF resolvable(a) THEN named(a) ELSE multusConfig[a]]
        /\ sriovConfig' = sriovConfig
    BY <1>4 DEF TimerWork
  <2>2. ASSUME NEW a \in DOMAIN multusConfig, resolvable(a)
        PROVE  named(a) \in Attachments
    <3>1. PICK w \in Worlds : /\ multusConfig[a].ResourceName \in DOMAIN w.resources
                              /\ sriovConfig[multusConfig[a].ResourceName]
                                   = w.resources[multusConfig[a].ResourceName]
      BY <2>2 DEF ConfigFound
    <3>2. Given(multusConfig[a], w) \in Attachments
      BY <2>2, <3>1, AttachmentsNamed DEF ConfigFound
    <3> QED
      BY <3>1, <3>2 DEF Given
  <2> HIDE DEF named, resolvable
  <2> QED
    BY <2>1, <2>2 DEF ConfigFound
<1> QED
  BY <1>1, <1>2, <1>3, <1>4 DEF Message

(* The links below a link are found among those of a world.                 *)
LEMMA SlavesOfWorld ==
  ASSUME NEW w \in Worlds, NEW links, links \subseteq w.links, NEW x, NEW parent
  PROVE  SlavesFound(x, parent, Slaves(x[1], parent, links))
BY DEF SlavesFound, Slaves

(* One attachment puts a link of a world into the cache.                    *)
LEMMA LinksFoundKept ==
  ASSUME AgentInv, FoundInv, NEW a \in DOMAIN multusConfig, UpdateNetLinkCache(a)
  PROVE  LinksFound(linkCache)'
<1> DEFINE na == multusConfig[a]
           matching == {l \in nll : Matches(na, l)}
           chosen == CHOOSE l \in matching : TRUE
           updated == IF matching = {} THEN linkCache ELSE UpdateLink(linkCache, na, chosen)
           now == UpdateSlaves(updated, nll)
           Found(cache, x) == /\ KeyFound(x, cache[x].ParentIndex)
                              /\ Flagged(cache[x]) \/ SlavesFound(x, cache[x].ParentIndex, cache[x].SlaveLinks)
<1>1. linkCache' = now
  BY DEF UpdateNetLinkCache
<1>2. PICK w \in Worlds : nll \subseteq w.links
  BY DEF FoundInv, ReadOK
<1>3. LinksOK(linkCache) /\ LinksFound(linkCache) /\ na \in Attachments
  BY DEF AgentInv, FoundInv, ConfigFound
<1>4. \A x \in DOMAIN linkCache : Found(linkCache, x)
  BY <1>3 DEF LinksFound
<1>5. LinksOK(updated) /\ \A x \in DOMAIN updated : Found(updated, x)
  <2>1. CASE matching = {}
    BY <1>3, <1>4, <2>1
  <2>2. CASE matching # {}
    <3> DEFINE keys == {<<chosen.name, v>> : v \in VlansOf(na, chosen)}
    <3>1. chosen \in nll /\ Matches(na, chosen) /\ updated = UpdateLink(linkCache, na, chosen)
      BY <2>2
    <3> HIDE DEF chosen, matching, updated, na
    <3>2. LinksOK(updated)
      BY <1>3, <3>1, UpdateLinkKeeps
    <3>3. \A x \in DOMAIN updated :
            \/ x \notin keys /\ x \in DOMAIN linkCache /\ updated[x] = linkCache[x]
            \/ /\ x \in keys /\ Flagged(updated[x])
               /\ \/ x \in DOMAIN linkCache /\ updated[x].ParentIndex = linkCache[x].ParentIndex
                  \/ updated[x].ParentIndex = chosen.parent
      BY <1>3, <3>1, UpdateLinkMarks
    <3>4. \A x \in keys : KeyFound(x, chosen.parent)
      BY <1>2, <1>3, <3>1 DEF KeyFound
    <3> HIDE DEF keys
    <3>5. ASSUME NEW x \in DOMAIN updated
          PROVE  Found(updated, x)
      BY <1>4, <3>3, <3>4
    <3> QED
      BY <3>2, <3>5
  <2> QED
    BY <2>1, <2>2
<1> HIDE DEF updated
<1>6. /\ DOMAIN now = DOMAIN updated
      /\ \A x \in DOMAIN updated :
           /\ now[x].ParentIndex = updated[x].ParentIndex
           /\ Flagged(updated[x]) => now[x].SlaveLinks = Slaves(x[1], updated[x].ParentIndex, nll)
           /\ ~Flagged(updated[x]) => now[x] = updated[x]
  BY <1>5, UpdateSlavesMarks
<1> HIDE DEF now
<1>7. ASSUME NEW x \in DOMAIN updated
      PROVE  KeyFound(x, now[x].ParentIndex) /\ SlavesFound(x, now[x].ParentIndex, now[x].SlaveLinks)
  BY <1>2, <1>5, <1>6, SlavesOfWorld
<1>8. LinksFound(now)
  BY <1>6, <1>7 DEF LinksFound
<1> QED
  BY <1>1, <1>8

LEMMA PlacesOfLink ==
  ASSUME NEW na \in Attachments, NEW l \in LinksOf(na), NEW u \in Worlds, NEW w \in Worlds
  PROVE  PlacesOf(na, l, u, w) \subseteq Places
<1> DEFINE PlacesFor(m, v, x) == UNION {PlacesOf(m, k, v, x) : k \in LinksOf(m)}
<1>1. PlacesOf(na, l, u, w) \subseteq PlacesFor(na, u, w)
  OBVIOUS
<1>2. Places = UNION {PlacesFor(m, v, x) : m \in Attachments, v \in Worlds, x \in Worlds}
  BY DEF Places
<1> HIDE DEF PlacesFor
<1>3. PlacesFor(na, u, w) \subseteq Places
  BY <1>2
<1> QED
  BY <1>1, <1>3

(* A link puts the places of its vlan into the lldp cache.                  *)
LEMMA LldpFoundKept ==
  ASSUME AgentInv, FoundInv, NEW x \in DOMAIN linkCache, UpdateLldpLinkCache(x)
  PROVE  LinksFound(linkCache)' /\ LldpFound'
<1> DEFINE seen == linkCache[x].SlaveLinks \cap DOMAIN nbrs
           keys == DOMAIN lldpLinkCache \cup {<<s, x[2]>> : s \in seen}
<1>1. /\ DOMAIN linkCache' = DOMAIN linkCache
      /\ \A z \in DOMAIN linkCache : /\ linkCache'[z].SlaveLinks = linkCache[z].SlaveLinks
                                     /\ linkCache'[z].ParentIndex = linkCache[z].ParentIndex
      /\ DOMAIN lldpLinkCache' = keys
      /\ \A y \in keys :
           IF y[2] = x[2] /\ y[1] \in seen
           THEN Flagged(lldpLinkCache'[y]) /\ lldpLinkCache'[y].dev = nbrs[y[1]].dev
           ELSE y \in DOMAIN lldpLinkCache /\ lldpLinkCache'[y] = lldpLinkCache[y]
  BY LldpEntries
<1>2. LinksFound(linkCache)'
  BY <1>1 DEF FoundInv, LinksFound
<1>3. PICK w \in Worlds : \A s \in DOMAIN nbrs : s \in DOMAIN w.nbrs /\ nbrs[s] = w.nbrs[s]
  BY DEF FoundInv, NeighboursFound
<1>4. PICK na \in Attachments, v \in Worlds :
        \E l \in v.links : /\ Matches(na, l)
                           /\ x[1] = l.name /\ x[2] \in VlansOf(na, l)
                           /\ linkCache[x].ParentIndex = l.parent
  BY DEF FoundInv, LinksFound, KeyFound
<1>5. PICK l \in v.links : /\ Matches(na, l)
                           /\ x[1] = l.name /\ x[2] \in VlansOf(na, l)
                           /\ linkCache[x].ParentIndex = l.parent
  BY <1>4
<1>6. PICK u \in Worlds : linkCache[x].SlaveLinks \subseteq Slaves(l.name, l.parent, u.links)
  BY <1>5 DEF FoundInv, LinksFound, SlavesFound
<1>7. ASSUME NEW s \in seen
      PROVE  <<nbrs[s].dev, s, x[2]>> \in Places
  <2>1. s \in Slaves(l.name, l.parent, u.links) \cap DOMAIN w.nbrs /\ nbrs[s] = w.nbrs[s]
    BY <1>3, <1>6
  <2>2. <<nbrs[s].dev, s, x[2]>> \in PlacesOf(na, l, u, w)
    BY <1>5, <2>1 DEF PlacesOf
  <2>3. l \in LinksOf(na)
    BY <1>5 DEF LinksOf
  <2> QED
    BY <2>2, <2>3, PlacesOfLink
<1> HIDE DEF seen
<1>8. ASSUME NEW y \in keys
      PROVE  <<lldpLinkCache'[y].dev, y[1], y[2]>> \in Places
  BY <1>1, <1>7 DEF FoundInv, LldpFound, VlanOf
<1> QED
  BY <1>1, <1>2, <1>8 DEF LldpFound, VlanOf

(* A process that starts holds nothing.                                     *)
LEMMA FoundInvInit == Init => FoundInv
<1> SUFFICES ASSUME Init PROVE FoundInv
  OBVIOUS
<1>1. DOMAIN Empty = {} /\ world \in Worlds
  BY WorldsOK DEF Init, Empty
<1>2. ReadOK /\ NeighboursFound /\ ConfigFound
  BY <1>1 DEF Init, ReadOK, NeighboursFound, ConfigFound
<1>3. LinksFound(linkCache) /\ LldpFound /\ ViewFound
  BY <1>1 DEF Init, LinksFound, LldpFound, ViewFound
<1>4. NothingInvented
  BY DEF Init, NothingInvented, NoView
<1> QED
  BY <1>2, <1>3, <1>4 DEF FoundInv

(* The steps that touch neither the caches nor the NodeTopology.            *)
LEMMA FoundUntouched ==
  ASSUME FoundInv, ReadOK', ConfigFound', NeighboursFound', topo'.view = topo.view,
         UNCHANGED <<linkCache, lldpLinkCache, vlans>>
  PROVE  FoundInv'
BY DEF FoundInv, LinksFound, LldpFound, VlanOf, ViewFound, NothingInvented

LEMMA FoundInvNext == AgentInv /\ FoundInv /\ [Next]_vars => FoundInv'
<1> SUFFICES ASSUME AgentInv, FoundInv, [Next]_vars PROVE FoundInv'
  OBVIOUS
<1> USE DEF configVars, cacheVars, deviceVars, readVars
<1>0. ProcessOK /\ ReadOK /\ ConfigFound /\ NeighboursFound
  BY DEF AgentInv, FoundInv
<1>1. CASE \/ \E w \in Worlds : WorldChange(w)
           \/ BootFound \/ BootFails \/ UpdateFails \/ UpdateNameless \/ Crash
           \/ UNCHANGED vars
  <2>1. UNCHANGED <<topo, multusConfig, sriovConfig, linkCache, lldpLinkCache, vlans, nll, nbrs>>
    BY <1>1 DEF WorldChange, BootFound, BootFails, UpdateFails, UpdateNameless, Crash, vars
  <2>2. ReadOK' /\ ConfigFound' /\ NeighboursFound'
    BY <1>0, <2>1 DEF ReadOK, ConfigFound, NeighboursFound
  <2> QED
    BY <2>1, <2>2, FoundUntouched
<1>2. CASE BootCreate
  <2>1. /\ topo'.view = topo.view
        /\ UNCHANGED <<multusConfig, sriovConfig, linkCache, lldpLinkCache, vlans, nll, nbrs>>
    BY <1>0, <1>2 DEF BootCreate, ProcessOK
  <2>2. ReadOK' /\ ConfigFound' /\ NeighboursFound'
    BY <1>0, <2>1 DEF ReadOK, ConfigFound, NeighboursFound
  <2> QED
    BY <2>1, <2>2, FoundUntouched
<1>3. CASE Message \/ TimerWork
  <2>1. UNCHANGED <<topo, linkCache, lldpLinkCache, vlans, nll, nbrs>>
    BY <1>3 DEF Message, MultusUpdate, MultusDelete, SriovUpdate, TimerWork
  <2>2. ReadOK' /\ NeighboursFound'
    BY <1>0, <2>1 DEF ReadOK, NeighboursFound
  <2>3. ConfigFound'
    BY <1>0, <1>3, ConfigFoundKept
  <2> QED
    BY <2>1, <2>2, <2>3, FoundUntouched
<1>4. CASE NetLinkRead \/ NetLinkFails
  <2>1. /\ UNCHANGED <<topo, multusConfig, sriovConfig, linkCache, lldpLinkCache, vlans, nbrs>>
        /\ nll' = world.links \/ nll' = {}
    BY <1>4 DEF NetLinkRead, NetLinkFails
  <2>2. ReadOK' /\ ConfigFound' /\ NeighboursFound'
    BY <1>0, <2>1 DEF ReadOK, ConfigFound, NeighboursFound, ProcessOK
  <2> QED
    BY <2>1, <2>2, FoundUntouched
<1>5. CASE LldpRead \/ LldpFails
  <2>1. /\ UNCHANGED <<topo, multusConfig, sriovConfig, linkCache, lldpLinkCache, vlans, nll>>
        /\ nbrs' = world.nbrs \/ nbrs' = Empty
    BY <1>5 DEF LldpRead, LldpFails
  <2>2. DOMAIN Empty = {}
    BY DEF Empty
  <2>3. ReadOK' /\ ConfigFound' /\ NeighboursFound'
    BY <1>0, <2>1, <2>2 DEF ReadOK, ConfigFound, NeighboursFound, ProcessOK
  <2> QED
    BY <2>1, <2>3, FoundUntouched
<1>6. ASSUME NEW a \in DOMAIN multusConfig, UpdateNetLinkCache(a)
      PROVE  FoundInv'
  <2>1. UNCHANGED <<topo, multusConfig, sriovConfig, lldpLinkCache, vlans, nll, nbrs>>
    BY <1>6 DEF UpdateNetLinkCache
  <2>2. LinksFound(linkCache)'
    BY <1>6, LinksFoundKept
  <2> QED
    BY <2>1, <2>2 DEF FoundInv, ReadOK, ConfigFound, NeighboursFound, LldpFound, VlanOf,
                      ViewFound, NothingInvented
<1>7. CASE ValidateNetLinkCacheChanges
  <2> DEFINE now == SweepLinks(linkCache)
  <2>1. /\ linkCache' = now
        /\ UNCHANGED <<topo, multusConfig, sriovConfig, lldpLinkCache, vlans, nll, nbrs>>
    BY <1>7 DEF ValidateNetLinkCacheChanges
  <2>2. /\ DOMAIN now = Marked(linkCache)
        /\ \A x \in Marked(linkCache) : /\ now[x].SlaveLinks = linkCache[x].SlaveLinks
                                        /\ now[x].ParentIndex = linkCache[x].ParentIndex
    BY SweepLinksMarked DEF AgentInv
  <2> HIDE DEF now
  <2>3. Marked(linkCache) \subseteq DOMAIN linkCache
    BY DEF Marked
  <2>4. LinksFound(now)
    BY <2>2, <2>3 DEF FoundInv, LinksFound
  <2> QED
    BY <2>1, <2>4 DEF FoundInv, ReadOK, ConfigFound, NeighboursFound, LldpFound, VlanOf,
                      ViewFound, NothingInvented
<1>8. ASSUME NEW x \in DOMAIN linkCache, UpdateLldpLinkCache(x)
      PROVE  FoundInv'
  <2>1. UNCHANGED <<topo, multusConfig, sriovConfig, vlans, nll, nbrs>>
    BY <1>8 DEF UpdateLldpLinkCache
  <2>2. LinksFound(linkCache)' /\ LldpFound'
    BY <1>8, LldpFoundKept
  <2> QED
    BY <2>1, <2>2 DEF FoundInv, ReadOK, ConfigFound, NeighboursFound, ViewFound, NothingInvented
<1>9. CASE ValidateLldpLinkCacheChanges
  <2> DEFINE now == SweepLldp(lldpLinkCache)
  <2>1. /\ lldpLinkCache' = now
        /\ UNCHANGED <<topo, multusConfig, sriovConfig, linkCache, vlans, nll, nbrs>>
    BY <1>9 DEF ValidateLldpLinkCacheChanges
  <2>2. /\ DOMAIN now = Marked(lldpLinkCache)
        /\ \A y \in Marked(lldpLinkCache) : now[y].dev = lldpLinkCache[y].dev
    BY SweepLldpMarked DEF AgentInv
  <2> HIDE DEF now
  <2>3. Marked(lldpLinkCache) \subseteq DOMAIN lldpLinkCache
    BY DEF Marked
  <2>4. LldpFound'
    BY <2>1, <2>2, <2>3 DEF FoundInv, LldpFound, VlanOf
  <2> QED
    BY <2>1, <2>4 DEF FoundInv, ReadOK, ConfigFound, NeighboursFound, LinksFound,
                      ViewFound, NothingInvented
<1>10. ASSUME NEW y \in DOMAIN lldpLinkCache, DeviceCentricView(y)
       PROVE  FoundInv'
  <2>1. UNCHANGED <<topo, multusConfig, sriovConfig, linkCache, nll, nbrs>>
    BY <1>10 DEF DeviceCentricView
  <2>2. /\ DOMAIN lldpLinkCache' = DOMAIN lldpLinkCache
        /\ \A z \in DOMAIN lldpLinkCache : lldpLinkCache'[z].dev = lldpLinkCache[z].dev
        /\ DOMAIN vlans' = DOMAIN vlans \cup {VlanOf(y)}
    BY <1>10, DeviceEntries
  <2>3. LldpFound' /\ ViewFound'
    BY <2>2 DEF FoundInv, LldpFound, VlanOf, ViewFound
  <2> QED
    BY <2>1, <2>3 DEF FoundInv, ReadOK, ConfigFound, NeighboursFound, LinksFound, NothingInvented
<1>11. CASE ValidateDeviceChanges
  <2>1. /\ UNCHANGED <<topo, multusConfig, sriovConfig, linkCache, lldpLinkCache, nll, nbrs>>
        /\ DOMAIN vlans' \subseteq DOMAIN vlans
    BY <1>11 DEF ValidateDeviceChanges, SweepVlans
  <2> QED
    BY <2>1 DEF FoundInv, ReadOK, ConfigFound, NeighboursFound, LinksFound, LldpFound, VlanOf,
                ViewFound, NothingInvented
<1>12. CASE UpdateK8sNodeTopology
  <2>1. /\ topo'.view.vlans = DOMAIN vlans
        /\ UNCHANGED <<multusConfig, sriovConfig, linkCache, lldpLinkCache, vlans, nll, nbrs>>
    BY <1>0, <1>12 DEF UpdateK8sNodeTopology, View, ProcessOK
  <2> QED
    BY <2>1 DEF FoundInv, ReadOK, ConfigFound, NeighboursFound, LinksFound, LldpFound, VlanOf,
                ViewFound, NothingInvented
<1>13. CASE Restart
  <2>1. DOMAIN Empty = {}
    BY DEF Empty
  <2>2. /\ multusConfig' = Empty /\ sriovConfig' = Empty /\ linkCache' = Empty
        /\ lldpLinkCache' = Empty /\ vlans' = Empty /\ nll' = {} /\ nbrs' = Empty
        /\ UNCHANGED topo
    BY <1>13 DEF Restart
  <2>3. ReadOK' /\ ConfigFound' /\ NeighboursFound'
    BY <1>0, <2>1, <2>2 DEF ReadOK, ConfigFound, NeighboursFound
  <2>4. LinksFound(linkCache)' /\ LldpFound' /\ ViewFound'
    BY <2>1, <2>2 DEF LinksFound, LldpFound, ViewFound
  <2> QED
    BY <2>2, <2>3, <2>4 DEF FoundInv, NothingInvented
<1> QED
  BY <1>1, <1>2, <1>3, <1>4, <1>5, <1>6, <1>7, <1>8, <1>9, <1>10, <1>11, <1>12, <1>13
     DEF Next, Boot, Tick, Failure

(* A vlan is only published at a place that the worlds account for, through *)
(* failures, restarts and links that get other parents: it does not take    *)
(* ParentsKept.                                                             *)
THEOREM NothingIsInvented == Spec => []NothingInvented
<1>1. FoundInv => NothingInvented
  BY DEF FoundInv
<1> QED
  BY <1>1, AgentInvInit, AgentInvNext, FoundInvInit, FoundInvNext, PTL DEF Spec

-----------------------------------------------------------------------------
(* PublishedWhenChanged.  The NodeTopology has what the agent shows, but    *)
(* for an agent with nothing to show, or what it shows has changed in the   *)
(* pass under way and one of the vlans the pass is done with tells.         *)
Changed(flag) == flag \notin {"", "noChange"}

ViewShown == topo.view = View \/ DOMAIN vlans = {}

ChangeFound == \E t \in DOMAIN vlans : Changed(vlans[t]) /\ \A y \in todo : VlanOf(y) # t

ShownInv ==
  /\ PairsOK(lldpLinkCache)
  /\ pc \notin {"boot", "down"} => nodeTopo
  /\ pc = "boot" => DOMAIN vlans = {}
  /\ pc \in {"idle", "netlink", "links", "neighbours", "lldp"} => ViewShown
  /\ pc = "devices" => todo \subseteq DOMAIN lldpLinkCache /\ (ViewShown \/ ChangeFound)

LEMMA ShownInvInit == Init => ShownInv
<1> SUFFICES ASSUME Init PROVE ShownInv
  OBVIOUS
<1>1. pc = "boot" /\ DOMAIN vlans = {} /\ DOMAIN lldpLinkCache = {}
  BY DEF Init, Empty
<1> QED
  BY <1>1 DEF ShownInv, PairsOK

(* What the agent shows is a matter of its devices only.                    *)
LEMMA ViewUntouched ==
  ASSUME ViewShown, UNCHANGED <<topo, deviceVars>>
  PROVE  ViewShown'
<1>1. View' = View
  BY DEF View, deviceVars
<1> QED
  BY <1>1 DEF ViewShown, deviceVars

(* An lldp entry of a vlan that is known changes nothing that is shown; one *)
(* of a vlan that is not marks it as new, and no other entry is of it.      *)
LEMMA DevicesShown ==
  ASSUME AgentInv, ShownInv, NEW y \in DOMAIN lldpLinkCache, DeviceCentricView(y)
  PROVE  ShownInv'
<1> DEFINE ep == lldpLinkCache[y]
           vlan == <<ep.dev, y[1], y[2]>>
           endpoint == <<ep.dev, y[1]>>
           flag == IF vlan \notin DOMAIN vlans THEN "newlyAdded"
                   ELSE IF ep.DeviceLinkChangeFlag THEN "someChange" ELSE "noChange"
<1>1. /\ pc = "devices" /\ pc' = pc /\ y \in todo /\ todo' = todo \ {y}
      /\ topo' = topo /\ nodeTopo' = nodeTopo
      /\ vlans' = [t \in DOMAIN vlans \cup {vlan} |-> IF t = vlan THEN flag ELSE vlans[t]]
      /\ Devices' = Devices \cup {ep.dev}
      /\ endpoint \in DOMAIN endpoints => endpoints' = endpoints
  BY DEF DeviceCentricView, Put
<1>2. /\ DOMAIN lldpLinkCache' = DOMAIN lldpLinkCache
      /\ \A z \in DOMAIN lldpLinkCache : lldpLinkCache'[z].dev = lldpLinkCache[z].dev
  BY DeviceEntries
<1>3. /\ todo' \subseteq todo /\ todo \subseteq DOMAIN lldpLinkCache
      /\ \A z \in todo' : VlanOf(z)' = VlanOf(z)
  BY <1>1, <1>2 DEF ShownInv, VlanOf
<1>4. vlan = VlanOf(y)
  BY DEF VlanOf
<1>5. vlan \notin DOMAIN vlans => Changed(flag)
  BY Zenon DEF Changed
<1>6. CASE vlan \notin DOMAIN vlans
  <2>1. ASSUME NEW z \in todo'
        PROVE  VlanOf(z) # vlan
    <3>1. z = <<z[1], z[2]>> /\ y = <<y[1], y[2]>> /\ z # y
      BY <1>1, <1>3 DEF ShownInv, PairsOK
    <3> QED
      BY <3>1 DEF VlanOf
  <2> HIDE DEF flag, vlan
  <2>2. vlan \in DOMAIN vlans' /\ vlans'[vlan] = flag
    BY <1>1
  <2>3. ChangeFound'
    BY <1>3, <1>5, <1>6, <2>1, <2>2 DEF ChangeFound, Changed
  <2> QED
    BY <1>1, <1>2, <1>3, <2>3 DEF ShownInv, PairsOK
<1>7. CASE vlan \in DOMAIN vlans
  <2>1. DOMAIN vlans' = DOMAIN vlans /\ \A t \in DOMAIN vlans : t # vlan => vlans'[t] = vlans[t]
    <3> HIDE DEF flag, vlan
    <3> QED
      BY <1>1, <1>7
  <2>2. Devices' = Devices /\ endpoints' = endpoints
    <3>1. vlan[1] = ep.dev /\ vlan[2] = y[1]
      OBVIOUS
    <3>2. ep.dev \in Devices /\ endpoint \in DOMAIN endpoints
      BY <1>7, <3>1 DEF AgentInv, DevicesOK
    <3> QED
      BY <1>1, <3>2
  <2>3. View' = View
    BY <2>1, <2>2 DEF View
  <2>4. ViewShown => ViewShown'
    BY <1>1, <2>1, <2>3 DEF ViewShown
  <2>5. ChangeFound => ChangeFound'
    <3> SUFFICES ASSUME NEW t \in DOMAIN vlans, Changed(vlans[t]), \A z \in todo : VlanOf(z) # t
                 PROVE  ChangeFound'
      BY DEF ChangeFound
    <3>1. t \in DOMAIN vlans' /\ vlans'[t] = vlans[t]
      BY <1>1, <1>4, <2>1
    <3> QED
      BY <1>3, <3>1, Zenon DEF ChangeFound, Changed
  <2> QED
    BY <1>1, <1>2, <1>3, <2>4, <2>5 DEF ShownInv, PairsOK
<1> QED
  BY <1>6, <1>7

(* A verdict that nothing changed is one of a pass that changed nothing.    *)
LEMMA VerdictShown ==
  ASSUME AgentInv, ShownInv, FlagsAgree, ValidateDeviceChanges
  PROVE  ShownInv' /\ (pc' = "idle" => topo' = topo /\ ViewShown')
<1>1. /\ pc = "devices" /\ todo = {} /\ pc' \in {"publish", "idle"}
      /\ UNCHANGED <<topo, lldpLinkCache, Devices, nodeTopo>>
      /\ pc' = "idle" => FALSE \in Verdicts(vlans)
  <2>1. PICK changed \in Verdicts(vlans) : pc' = IF changed THEN "publish" ELSE "idle"
    BY Zenon DEF ValidateDeviceChanges
  <2>2. changed \in BOOLEAN
    BY DEF Verdicts
  <2>3. pc = "devices" /\ todo = {} /\ UNCHANGED <<topo, lldpLinkCache, Devices, nodeTopo>>
    BY DEF ValidateDeviceChanges
  <2> QED
    BY <2>1, <2>2, <2>3
<1>2. DOMAIN vlans' = MarkedVlans
  BY DEF ValidateDeviceChanges, SweepVlans, MarkedVlans
<1>3. endpoints' = Keep(endpoints, {<<t[1], t[2]>> : t \in DOMAIN vlans'})
  BY DEF ValidateDeviceChanges
<1>4. ASSUME pc' = "idle", vlans # Empty
      PROVE  ViewShown'
  <2>1. PICK last \in DOMAIN vlans : vlans[last] = "noChange"
    BY <1>1, <1>4 DEF Verdicts
  <2>2. \A t \in DOMAIN vlans : vlans[t] = "noChange"
    BY <1>1, <2>1 DEF FlagsAgree
  <2>3. MarkedVlans = DOMAIN vlans
    BY <2>2, Zenon DEF MarkedVlans
  <2>4. ~ChangeFound
    BY <2>2, Zenon DEF ChangeFound, Changed
  <2>5. topo.view = View
    BY <1>1, <2>1, <2>4 DEF ShownInv, ViewShown
  <2>6. endpoints' = [x \in DOMAIN endpoints |-> endpoints[x]]
    BY <1>2, <1>3, <2>3 DEF Keep, AgentInv, DevicesOK
  <2>7. View' = View
    BY <1>1, <1>2, <2>3, <2>6 DEF View
  <2> QED
    BY <1>1, <2>5, <2>7 DEF ViewShown
<1>5. ASSUME vlans = Empty
      PROVE  ViewShown'
  BY <1>2, <1>5 DEF MarkedVlans, Empty, ViewShown
<1>6. pc' = "idle" => ViewShown'
  BY <1>4, <1>5
<1> QED
  BY <1>1, <1>6 DEF ShownInv, PairsOK

(* The other steps of the agent.                                            *)
LEMMA ShownUntouched ==
  ASSUME ShownInv, UNCHANGED <<topo, lldpLinkCache, deviceVars>>, nodeTopo' \in {TRUE, nodeTopo},
         \/ pc' = "down"
         \/ pc' = pc /\ pc # "devices"
         \/ pc' = pc /\ UNCHANGED todo
         \/ pc' = "idle" /\ pc = "boot" /\ nodeTopo'
         \/ /\ pc \in {"idle", "netlink", "links", "neighbours", "lldp"}
            /\ pc' \in {"idle", "netlink", "links", "neighbours", "lldp"}
  PROVE  ShownInv'
<1>1. PairsOK(lldpLinkCache)'
  BY DEF ShownInv, PairsOK
<1>2. ViewShown => ViewShown'
  BY ViewUntouched
<1>3. UNCHANGED todo /\ ChangeFound => ChangeFound'
  BY DEF ChangeFound, VlanOf, deviceVars, Changed
<1>4. DOMAIN vlans = {} => ViewShown /\ DOMAIN vlans' = {}
  BY DEF ViewShown, deviceVars
<1> QED
  BY <1>1, <1>2, <1>3, <1>4 DEF ShownInv

LEMMA ShownInvNext ==
  ASSUME "api" \notin MayFail, AgentInv, ShownInv, FlagsAgree, [Next]_vars
  PROVE  ShownInv' /\ (PassEnds /\ pc' = "idle" => topo' = topo /\ ViewShown')
<1>1. ASSUME pc # "devices"
      PROVE  ~PassEnds
  BY <1>1 DEF PassEnds
<1>2. ASSUME NEW w \in Worlds, WorldChange(w)
      PROVE  ShownInv' /\ pc' = pc
  <2>1. UNCHANGED <<topo, lldpLinkCache, deviceVars, nodeTopo, pc, todo>>
    BY <1>2 DEF WorldChange, cacheVars
  <2> QED
    BY <2>1, ShownUntouched
<1>3. CASE BootFound
  <2>1. UNCHANGED <<topo, lldpLinkCache, deviceVars>> /\ pc = "boot" /\ pc' = "idle" /\ nodeTopo'
    BY <1>3 DEF BootFound, cacheVars
  <2> QED
    BY <1>1, <2>1, ShownUntouched
<1>4. CASE BootCreate
  <2>1. /\ UNCHANGED <<lldpLinkCache, deviceVars>> /\ pc = "boot" /\ pc' = "idle" /\ nodeTopo'
    BY <1>4 DEF BootCreate, cacheVars
  <2>2. DOMAIN vlans' = {}
    BY <2>1 DEF ShownInv, deviceVars
  <2> QED
    BY <1>1, <2>1, <2>2 DEF ShownInv, PairsOK, ViewShown
<1>5. CASE Message
  <2>1. UNCHANGED <<topo, lldpLinkCache, deviceVars, nodeTopo>> /\ pc = "idle" /\ pc' = "idle"
    BY <1>5 DEF Message, MultusUpdate, MultusDelete, SriovUpdate, cacheVars
  <2> QED
    BY <1>1, <2>1, ShownUntouched
<1>6. CASE TimerWork \/ NetLinkRead \/ NetLinkFails \/ LldpRead
  <2>1. /\ UNCHANGED <<topo, lldpLinkCache, deviceVars, nodeTopo>>
        /\ pc \in {"idle", "netlink", "neighbours"} /\ pc' \in {"idle", "netlink", "links", "lldp"}
    BY <1>6 DEF TimerWork, NetLinkRead, NetLinkFails, LldpRead, cacheVars
  <2> QED
    BY <1>1, <2>1, ShownUntouched
<1>7. ASSUME NEW a \in DOMAIN multusConfig, UpdateNetLinkCache(a)
      PROVE  ShownInv' /\ ~PassEnds
  <2>1. UNCHANGED <<topo, lldpLinkCache, deviceVars, nodeTopo, pc>> /\ pc = "links"
    BY <1>7 DEF UpdateNetLinkCache
  <2> QED
    BY <1>1, <2>1, ShownUntouched
<1>8. CASE ValidateNetLinkCacheChanges
  <2>1. UNCHANGED <<topo, lldpLinkCache, deviceVars, nodeTopo>> /\ pc = "links" /\ pc' = "neighbours"
    BY <1>8 DEF ValidateNetLinkCacheChanges
  <2> QED
    BY <1>1, <2>1, ShownUntouched
<1>9. CASE LldpFails
  <2>1. /\ UNCHANGED <<topo, lldpLinkCache, deviceVars, nodeTopo>>
        /\ pc = "neighbours" /\ pc' \in {"down", "lldp"}
    BY <1>9 DEF LldpFails, cacheVars
  <2> QED
    BY <1>1, <2>1, ShownUntouched
<1>10. ASSUME NEW x \in DOMAIN linkCache, UpdateLldpLinkCache(x)
       PROVE  ShownInv' /\ ~PassEnds
  <2>1. UNCHANGED <<topo, deviceVars, nodeTopo, pc>> /\ pc = "lldp"
    BY <1>10 DEF UpdateLldpLinkCache
  <2>2. PairsOK(lldpLinkCache)'
    <3> DEFINE seen == linkCache[x].SlaveLinks \cap DOMAIN nbrs
               keys == DOMAIN lldpLinkCache \cup {<<s, x[2]>> : s \in seen}
    <3>1. DOMAIN lldpLinkCache' = keys
      BY <1>10, LldpEntries
    <3>2. \A y \in keys : y = <<y[1], y[2]>>
      BY DEF ShownInv, PairsOK
    <3> QED
      BY <3>1, <3>2 DEF PairsOK
  <2>3. ViewShown'
    BY <2>1, ViewUntouched DEF ShownInv
  <2> QED
    BY <1>1, <2>1, <2>2, <2>3 DEF ShownInv
<1>11. CASE ValidateLldpLinkCacheChanges
  <2>1. /\ UNCHANGED <<topo, deviceVars, nodeTopo>> /\ pc = "lldp" /\ pc' = "devices"
        /\ lldpLinkCache' = SweepLldp(lldpLinkCache) /\ todo' = DOMAIN lldpLinkCache'
    BY <1>11 DEF ValidateLldpLinkCacheChanges
  <2>2. DOMAIN lldpLinkCache' \subseteq DOMAIN lldpLinkCache
    BY <2>1, SweepLldpMarked DEF AgentInv, Marked
  <2>3. ViewShown'
    BY <2>1, ViewUntouched DEF ShownInv
  <2> QED
    BY <1>1, <2>1, <2>2, <2>3 DEF ShownInv, PairsOK
<1>12. ASSUME NEW y \in DOMAIN lldpLinkCache, DeviceCentricView(y)
       PROVE  ShownInv' /\ ~PassEnds
  BY <1>12, DevicesShown DEF DeviceCentricView, PassEnds
<1>13. CASE ValidateDeviceChanges
  BY <1>13, VerdictShown
<1>14. CASE UpdateK8sNodeTopology
  <2>1. /\ UNCHANGED <<lldpLinkCache, deviceVars, nodeTopo>> /\ pc = "publish" /\ pc' = "idle"
        /\ topo' = [topo EXCEPT !.view = View]
    BY <1>14 DEF UpdateK8sNodeTopology, cacheVars
  <2>2. topo'.view = View
    BY <2>1 DEF AgentInv, ProcessOK
  <2>3. View' = View
    BY <2>1 DEF View, deviceVars
  <2> QED
    BY <1>1, <2>1, <2>2, <2>3 DEF ShownInv, PairsOK, ViewShown
<1>15. CASE UpdateNameless
  BY <1>15 DEF UpdateNameless, ShownInv
<1>16. CASE BootFails \/ UpdateFails
  BY <1>16 DEF BootFails, UpdateFails, Fails
<1>17. CASE Crash
  <2>1. UNCHANGED <<topo, lldpLinkCache, deviceVars, nodeTopo>> /\ pc' = "down"
    BY <1>17 DEF Crash, cacheVars
  <2> QED
    BY <2>1, ShownUntouched DEF PassEnds
<1>18. CASE Restart
  <2>1. pc = "down" /\ pc' = "boot" /\ DOMAIN vlans' = {} /\ DOMAIN lldpLinkCache' = {}
    BY <1>18 DEF Restart, Empty
  <2> QED
    BY <1>1, <2>1 DEF ShownInv, PairsOK
<1>19. CASE UNCHANGED vars
  <2>1. UNCHANGED <<topo, lldpLinkCache, deviceVars, nodeTopo, pc, todo>>
    BY <1>19 DEF vars, cacheVars
  <2> QED
    BY <2>1, ShownUntouched DEF PassEnds
<1> QED
  BY <1>2, <1>3, <1>4, <1>5, <1>6, <1>7, <1>8, <1>9, <1>10, <1>11, <1>12, <1>13, <1>14, <1>15, <1>16,
     <1>17, <1>18, <1>19 DEF Next, Boot, Tick, Failure, PassEnds

(* The verdict of a pass goes wrong for one reason only: that of the vlan   *)
(* visited last stands for all of them (device.go:97).  As long as a pass   *)
(* finds all vlans as they were or none, and the API server takes what is   *)
(* written, the agent never keeps to itself what it shows.                  *)
THEOREM ChangesArePublished ==
  ASSUME "api" \notin MayFail
  PROVE  Spec /\ []FlagsAgree => PublishedWhenChanged
<1> DEFINE Inv == AgentInv /\ ShownInv
           Told == PassEnds /\ pc' = "idle" => topo.view = View' \/ vlans' = Empty
<1>1. Init => Inv
  BY AgentInvInit, ShownInvInit
<1>2. Inv /\ FlagsAgree /\ [Next]_vars => Inv'
  BY AgentInvNext, ShownInvNext
<1>3. Inv /\ FlagsAgree /\ [Next]_vars => [Told]_vars
  <2> SUFFICES ASSUME Inv, FlagsAgree, Next, PassEnds, pc' = "idle"
               PROVE  topo.view = View' \/ vlans' = Empty
    OBVIOUS
  <2>1. topo' = topo /\ ViewShown'
    BY ShownInvNext
  <2>2. ValidateDeviceChanges
    BY DEF PassEnds, Next, Boot, Message, Tick, Failure, WorldChange, BootFound, BootCreate,
           MultusUpdate, MultusDelete, SriovUpdate, TimerWork, NetLinkRead, UpdateNetLinkCache,
           ValidateNetLinkCacheChanges, LldpRead, UpdateLldpLinkCache, ValidateLldpLinkCacheChanges,
           DeviceCentricView, UpdateK8sNodeTopology, UpdateNameless, BootFails, NetLinkFails,
           LldpFails, UpdateFails, Crash, Restart
  <2>3. vlans' = SweepVlans(vlans)
    BY <2>2 DEF ValidateDeviceChanges
  <2>4. DOMAIN vlans' = {} => vlans' = Empty
    BY <2>3 DEF SweepVlans, Empty
  <2> QED
    BY <2>1, <2>4 DEF ViewShown
<1> QED
  BY <1>1, <1>2, <1>3, PTL DEF Spec, PublishedWhenChanged

-----------------------------------------------------------------------------
(* FlagsAgree, where at most one vlan is to show: each cache then has one   *)
(* entry at most when the pass over it is done, and a vlan that is found as *)
(* it was is the only one there is.                                         *)
VlansStage ==
  /\ todo \subseteq DOMAIN lldpLinkCache
  /\ VlansSound(MarkedVlans)
  /\ todo # {} => AtMostOne(DOMAIN vlans) /\ MarkedVlans = {}
  /\ AtMostOne(DOMAIN vlans) \/ \A t \in DOMAIN vlans : vlans[t] # "noChange"

OnePlace ==
  \A y \in Marked(lldpLinkCache) :
    y[1] \in DOMAIN nbrs /\ \E x \in DOMAIN linkCache : x[2] = y[2] /\ y[1] \in linkCache[x].SlaveLinks

OneInv ==
  /\ PairsOK(lldpLinkCache)
  /\ pc = "links" => Marked(linkCache) \subseteq LinkKeys(nll)
  /\ pc \notin {"links", "down"} => AtMostOne(DOMAIN linkCache)
  /\ pc = "lldp" => OnePlace
  /\ pc \notin {"lldp", "down"} => AtMostOne(DOMAIN lldpLinkCache)
  /\ pc = "devices" => VlansStage
  /\ pc \notin {"devices", "down"} => AtMostOne(DOMAIN vlans)

LEMMA OneInvInit == Init => OneInv
<1> SUFFICES ASSUME Init PROVE OneInv
  OBVIOUS
<1>1. /\ pc = "boot"
      /\ DOMAIN linkCache = {} /\ DOMAIN lldpLinkCache = {} /\ DOMAIN vlans = {}
  BY DEF Init, Empty
<1> QED
  BY <1>1 DEF OneInv, PairsOK, AtMostOne

(* An attachment marks link entries of its own vlans only.                  *)
LEMMA OneLinksStep ==
  ASSUME AgentInv, FoundInv, OneInv, NEW a \in DOMAIN multusConfig, UpdateNetLinkCache(a)
  PROVE  Marked(linkCache)' \subseteq LinkKeys(nll)
<1> DEFINE na == multusConfig[a]
           matching == {l \in nll : Matches(na, l)}
           chosen == CHOOSE l \in matching : TRUE
           updated == IF matching = {} THEN linkCache ELSE UpdateLink(linkCache, na, chosen)
           now == UpdateSlaves(updated, nll)
<1>1. linkCache' = now /\ pc = "links"
  BY DEF UpdateNetLinkCache
<1>2. /\ LinksOK(linkCache) /\ na \in Attachments
      /\ \A x \in DOMAIN linkCache : Flagged(linkCache[x]) => x \in LinkKeys(nll)
  BY <1>1, MarkedAreFlagged DEF AgentInv, FoundInv, ConfigFound, OneInv
<1>3. LinksOK(updated) /\ \A x \in DOMAIN updated : Flagged(updated[x]) => x \in LinkKeys(nll)
  <2>1. CASE matching = {}
    BY <1>2, <2>1
  <2>2. CASE matching # {}
    <3> DEFINE keys == {<<chosen.name, v>> : v \in VlansOf(na, chosen)}
    <3>1. chosen \in nll /\ Matches(na, chosen) /\ updated = UpdateLink(linkCache, na, chosen)
      BY <2>2
    <3> HIDE DEF chosen, matching, updated, na
    <3>2. LinksOK(updated)
      BY <1>2, <3>1, UpdateLinkKeeps
    <3>3. \A x \in DOMAIN updated :
            x \in keys \/ (x \in DOMAIN linkCache /\ updated[x] = linkCache[x])
      BY <1>2, <3>1, UpdateLinkMarks
    <3>4. keys \subseteq LinkKeys(nll)
      BY <1>2, <3>1 DEF LinkKeys
    <3> HIDE DEF keys
    <3> QED
      BY <1>2, <3>2, <3>3, <3>4
  <2> QED
    BY <2>1, <2>2
<1> HIDE DEF updated
<1>4. /\ DOMAIN now = DOMAIN updated
      /\ \A x \in DOMAIN updated : Flagged(now[x]) <=> Flagged(updated[x])
  BY <1>3, UpdateSlavesMarks
<1> HIDE DEF now
<1>5. Marked(now) \subseteq LinkKeys(nll)
  BY <1>3, <1>4, MarkedAreFlagged
<1>6. Marked(linkCache)' = Marked(now)
  BY <1>1 DEF Marked
<1> QED
  BY <1>5, <1>6

(* A link marks lldp entries of interfaces below it only.                   *)
LEMMA OneLldpStep ==
  ASSUME AgentInv, OneInv, NEW x \in DOMAIN linkCache, UpdateLldpLinkCache(x)
  PROVE  DOMAIN linkCache' = DOMAIN linkCache /\ OnePlace' /\ PairsOK(lldpLinkCache)'
<1> DEFINE seen == linkCache[x].SlaveLinks \cap DOMAIN nbrs
           keys == DOMAIN lldpLinkCache \cup {<<s, x[2]>> : s \in seen}
<1>1. /\ DOMAIN linkCache' = DOMAIN linkCache
      /\ \A z \in DOMAIN linkCache : linkCache'[z].SlaveLinks = linkCache[z].SlaveLinks
      /\ DOMAIN lldpLinkCache' = keys
      /\ \A y \in keys :
           \/ y[2] = x[2] /\ y[1] \in seen
           \/ y \in DOMAIN lldpLinkCache /\ lldpLinkCache'[y] = lldpLinkCache[y]
  BY LldpEntries
<1>2. nbrs' = nbrs /\ pc = "lldp"
  BY DEF UpdateLldpLinkCache, readVars
<1>3. \A y \in DOMAIN lldpLinkCache : Flagged(lldpLinkCache[y]) =>
        y[1] \in DOMAIN nbrs /\ \E z \in DOMAIN linkCache : z[2] = y[2] /\ y[1] \in linkCache[z].SlaveLinks
  BY <1>2, MarkedAreFlagged DEF OneInv, OnePlace
<1>4. PairsOK(lldpLinkCache)'
  <2>1. \A y \in keys : y = <<y[1], y[2]>>
    BY DEF OneInv, PairsOK
  <2> QED
    BY <1>1, <2>1 DEF PairsOK
<1>5. ASSUME NEW y \in keys, Flagged(lldpLinkCache'[y])
      PROVE  y[1] \in DOMAIN nbrs /\ \E z \in DOMAIN linkCache : z[2] = y[2] /\ y[1] \in linkCache[z].SlaveLinks
  <2>1. CASE y[2] = x[2] /\ y[1] \in seen
    BY <2>1
  <2>2. CASE y \in DOMAIN lldpLinkCache /\ lldpLinkCache'[y] = lldpLinkCache[y]
    BY <1>3, <1>5, <2>2
  <2> QED
    BY <1>1, <2>1, <2>2
<1>6. \A y \in Marked(lldpLinkCache') : y \in keys /\ Flagged(lldpLinkCache'[y])
  BY <1>1, MarkedAreFlagged
<1>7. Marked(lldpLinkCache)' = Marked(lldpLinkCache')
  BY DEF Marked
<1> HIDE DEF keys, seen
<1>8. OnePlace'
  BY <1>1, <1>2, <1>5, <1>6, <1>7 DEF OnePlace
<1> QED
  BY <1>1, <1>4, <1>8

(* So the pass over the lldp cache leaves one entry, where there is one     *)
(* interface below a link.                                                  *)
LEMMA OneLldpLeft ==
  ASSUME OneToShow, FoundInv, OneInv, pc = "lldp"
  PROVE  AtMostOne(Marked(lldpLinkCache))
<1> SUFFICES ASSUME NEW y \in Marked(lldpLinkCache), NEW z \in Marked(lldpLinkCache)
             PROVE  y = z
  BY DEF AtMostOne
<1>1. PICK x \in DOMAIN linkCache :
        /\ x[2] = y[2] /\ x[2] = z[2]
        /\ {y[1], z[1]} \subseteq linkCache[x].SlaveLinks \cap DOMAIN nbrs
  BY DEF OneInv, OnePlace, AtMostOne
<1>2. PICK na \in Attachments, v \in Worlds :
        \E l \in v.links : Matches(na, l) /\ x[1] = l.name /\ linkCache[x].ParentIndex = l.parent
  BY DEF FoundInv, LinksFound, KeyFound
<1>3. PICK l \in v.links : Matches(na, l) /\ x[1] = l.name /\ linkCache[x].ParentIndex = l.parent
  BY <1>2
<1>4. PICK u \in Worlds : linkCache[x].SlaveLinks \subseteq Slaves(l.name, l.parent, u.links)
  BY <1>3 DEF FoundInv, LinksFound, SlavesFound
<1>5. PICK w \in Worlds : DOMAIN nbrs \subseteq DOMAIN w.nbrs
  BY DEF FoundInv, NeighboursFound
<1>6. AtMostOne(Slaves(l.name, l.parent, u.links) \cap DOMAIN w.nbrs)
  BY <1>3 DEF OneToShow, LinksOf
<1>7. y[1] = z[1]
  BY <1>1, <1>4, <1>5, <1>6 DEF AtMostOne
<1>8. y = <<y[1], y[2]>> /\ z = <<z[1], z[2]>>
  BY DEF OneInv, PairsOK, Marked
<1> QED
  BY <1>1, <1>7, <1>8

(* The one lldp entry either finds its vlan, which is the only one, or adds *)
(* it, and no vlan is then found as it was.                                 *)
LEMMA OneDevicesStep ==
  ASSUME AgentInv, OneInv, NEW y \in DOMAIN lldpLinkCache, DeviceCentricView(y)
  PROVE  /\ DOMAIN lldpLinkCache' = DOMAIN lldpLinkCache
         /\ VlansStage'
<1> DEFINE ep == lldpLinkCache[y]
           vlan == <<ep.dev, y[1], y[2]>>
           flag == IF vlan \notin DOMAIN vlans THEN "newlyAdded"
                   ELSE IF ep.DeviceLinkChangeFlag THEN "someChange" ELSE "noChange"
<1>1. /\ pc = "devices" /\ y \in todo /\ todo' = todo \ {y}
      /\ vlans' = [t \in DOMAIN vlans \cup {vlan} |-> IF t = vlan THEN flag ELSE vlans[t]]
  BY DEF DeviceCentricView, Put
<1>2. /\ DOMAIN lldpLinkCache' = DOMAIN lldpLinkCache
      /\ \A z \in DOMAIN lldpLinkCache : lldpLinkCache'[z].dev = lldpLinkCache[z].dev
      /\ MarkedVlans' = MarkedVlans \cup {VlanOf(y)}
  BY DeviceEntries
<1>3. /\ AtMostOne(DOMAIN lldpLinkCache) /\ todo \subseteq DOMAIN lldpLinkCache
      /\ AtMostOne(DOMAIN vlans) /\ MarkedVlans = {}
  BY <1>1 DEF OneInv, VlansStage
<1>4. todo' = {}
  BY <1>1, <1>3 DEF AtMostOne
<1>5. VlansSound(MarkedVlans)'
  BY <1>2, <1>3 DEF VlansSound, VlanOf
<1>6. ASSUME AtMostOne(DOMAIN vlans)' \/ \A t \in DOMAIN vlans' : vlans'[t] # "noChange"
      PROVE  VlansStage'
  <2> HIDE DEF vlan, flag
  <2>1. todo' \subseteq DOMAIN lldpLinkCache' /\ ~(todo' # {})
    BY <1>4
  <2> QED
    BY <1>5, <1>6, <2>1 DEF VlansStage
<1>7. CASE vlan \in DOMAIN vlans
  <2>1. DOMAIN vlans' = DOMAIN vlans
    <3> HIDE DEF vlan, flag
    <3> QED
      BY <1>1, <1>7
  <2>2. AtMostOne(DOMAIN vlans)'
    BY <1>3, <2>1 DEF AtMostOne
  <2> QED
    BY <1>2, <1>6, <2>2
<1>8. CASE vlan \notin DOMAIN vlans
  <2>1. flag # "noChange" /\ \A t \in DOMAIN vlans : vlans[t] # "noChange"
    BY <1>3, <1>8 DEF MarkedVlans
  <2>2. \A t \in DOMAIN vlans' : vlans'[t] # "noChange"
    <3> HIDE DEF vlan, flag
    <3> QED
      BY <1>1, <2>1
  <2> QED
    BY <1>2, <1>6, <2>2
<1> QED
  BY <1>7, <1>8

(* The sweeps leave what the passes marked.                                 *)
LEMMA OneVlanLeft ==
  ASSUME AtMostOne(DOMAIN lldpLinkCache), VlansSound(MarkedVlans)
  PROVE  AtMostOne(MarkedVlans)
BY DEF AtMostOne, VlansSound

(* The steps that touch no cache.                                           *)
LEMMA OneUntouched ==
  ASSUME OneInv, UNCHANGED <<linkCache, lldpLinkCache, vlans>>,
         \/ pc' = "down"
         \/ pc' = pc /\ UNCHANGED <<nll, nbrs, todo>>
         \/ {pc, pc'} \subseteq {"boot", "idle", "netlink", "publish"}
  PROVE  OneInv'
<1>1. PairsOK(lldpLinkCache)'
  BY DEF OneInv, PairsOK
<1>2. UNCHANGED Marked(linkCache)
  BY DEF Marked
<1>3. UNCHANGED nbrs /\ OnePlace => OnePlace'
  BY DEF OnePlace, Marked
<1>4. UNCHANGED todo /\ VlansStage => VlansStage'
  BY DEF VlansStage, VlansSound, MarkedVlans, VlanOf
<1> QED
  BY <1>1, <1>2, <1>3, <1>4 DEF OneInv

LEMMA OneInvNext == OneToShow /\ AgentInv /\ FoundInv /\ OneInv /\ [Next]_vars => OneInv'
<1> SUFFICES ASSUME OneToShow, AgentInv, FoundInv, OneInv, [Next]_vars PROVE OneInv'
  OBVIOUS
<1> USE DEF configVars, cacheVars, deviceVars, readVars
<1>1. CASE (\E w \in Worlds : WorldChange(w)) \/ BootFails \/ Crash \/ UNCHANGED vars
  <2>1. /\ UNCHANGED <<linkCache, lldpLinkCache, vlans, nll, nbrs, todo>>
        /\ pc' = pc \/ pc' = "down"
    BY <1>1 DEF WorldChange, BootFails, Crash, vars
  <2> QED
    BY <2>1, OneUntouched
<1>2. CASE \/ BootFound \/ BootCreate \/ Message \/ TimerWork
           \/ UpdateK8sNodeTopology \/ UpdateNameless \/ UpdateFails
  <2>1. /\ UNCHANGED <<linkCache, lldpLinkCache, vlans>>
        /\ {pc, pc'} \subseteq {"boot", "idle", "netlink", "publish"}
    BY <1>2 DEF BootFound, BootCreate, Message, MultusUpdate, MultusDelete, SriovUpdate, TimerWork,
                UpdateK8sNodeTopology, UpdateNameless, UpdateFails
  <2> QED
    BY <2>1, OneUntouched
<1>3. CASE NetLinkRead \/ NetLinkFails
  <2>1. UNCHANGED <<linkCache, lldpLinkCache, vlans>> /\ pc = "netlink" /\ pc' = "links"
    BY <1>3 DEF NetLinkRead, NetLinkFails
  <2>2. Marked(linkCache)' = {}
    BY <2>1 DEF AgentInv, Swept, NoMark, Marked
  <2> QED
    BY <2>1, <2>2 DEF OneInv, PairsOK
<1>4. ASSUME NEW a \in DOMAIN multusConfig, UpdateNetLinkCache(a)
      PROVE  OneInv'
  <2>1. UNCHANGED <<lldpLinkCache, vlans, nll>> /\ pc = "links" /\ pc' = "links"
    BY <1>4 DEF UpdateNetLinkCache
  <2>2. (Marked(linkCache) \subseteq LinkKeys(nll))'
    BY <1>4, <2>1, OneLinksStep
  <2> QED
    BY <2>1, <2>2 DEF OneInv, PairsOK
<1>5. CASE ValidateNetLinkCacheChanges
  <2>1. /\ UNCHANGED <<lldpLinkCache, vlans>> /\ pc = "links" /\ pc' = "neighbours"
        /\ linkCache' = SweepLinks(linkCache)
    BY <1>5 DEF ValidateNetLinkCacheChanges
  <2>2. PICK w \in Worlds : nll \subseteq w.links
    BY DEF FoundInv, ReadOK
  <2>3. LinkKeys(nll) \subseteq LinkKeys(w.links)
    BY <2>2 DEF LinkKeys
  <2>4. AtMostOne(Marked(linkCache))
    BY <2>1, <2>3 DEF OneInv, OneToShow, AtMostOne
  <2>5. DOMAIN SweepLinks(linkCache) = Marked(linkCache)
    BY DEF SweepLinks
  <2> QED
    BY <2>1, <2>4, <2>5 DEF OneInv, PairsOK
<1>6. CASE LldpRead \/ LldpFails
  <2>1. UNCHANGED <<linkCache, lldpLinkCache, vlans>> /\ pc = "neighbours" /\ pc' \in {"lldp", "down"}
    BY <1>6 DEF LldpRead, LldpFails
  <2>2. OnePlace'
    BY <2>1 DEF AgentInv, Swept, NoMark, Marked, OnePlace
  <2> QED
    BY <2>1, <2>2 DEF OneInv, PairsOK
<1>7. ASSUME NEW x \in DOMAIN linkCache, UpdateLldpLinkCache(x)
      PROVE  OneInv'
  <2>1. UNCHANGED vlans /\ pc = "lldp" /\ pc' = "lldp"
    BY <1>7 DEF UpdateLldpLinkCache
  <2>2. DOMAIN linkCache' = DOMAIN linkCache /\ OnePlace' /\ PairsOK(lldpLinkCache)'
    BY <1>7, OneLldpStep
  <2> QED
    BY <2>1, <2>2 DEF OneInv
<1>8. CASE ValidateLldpLinkCacheChanges
  <2>1. /\ UNCHANGED <<linkCache, vlans>> /\ pc = "lldp" /\ pc' = "devices"
        /\ lldpLinkCache' = SweepLldp(lldpLinkCache) /\ todo' = DOMAIN lldpLinkCache'
    BY <1>8 DEF ValidateLldpLinkCacheChanges
  <2>2. DOMAIN lldpLinkCache' = Marked(lldpLinkCache)
    BY <2>1 DEF SweepLldp
  <2>3. AtMostOne(DOMAIN lldpLinkCache')
    BY <2>1, <2>2, OneLldpLeft
  <2>4. PairsOK(lldpLinkCache)'
    BY <2>2 DEF OneInv, PairsOK, Marked
  <2>5. MarkedVlans' = {} /\ AtMostOne(DOMAIN vlans)
    BY <2>1 DEF AgentInv, Swept, NoVlanMark, MarkedVlans, OneInv
  <2>6. VlansStage'
    BY <2>1, <2>5 DEF VlansStage, VlansSound
  <2> QED
    BY <2>1, <2>3, <2>4, <2>6 DEF OneInv
<1>9. ASSUME NEW y \in DOMAIN lldpLinkCache, DeviceCentricView(y)
      PROVE  OneInv'
  <2>1. UNCHANGED linkCache /\ pc = "devices" /\ pc' = "devices"
    BY <1>9 DEF DeviceCentricView
  <2>2. DOMAIN lldpLinkCache' = DOMAIN lldpLinkCache /\ VlansStage'
    BY <1>9, OneDevicesStep
  <2> QED
    BY <2>1, <2>2 DEF OneInv, PairsOK
<1>10. CASE ValidateDeviceChanges
  <2>1. /\ UNCHANGED <<linkCache, lldpLinkCache>> /\ pc = "devices" /\ pc' \in {"publish", "idle"}
        /\ DOMAIN vlans' = MarkedVlans
    BY <1>10 DEF ValidateDeviceChanges, SweepVlans, MarkedVlans
  <2>2. AtMostOne(DOMAIN vlans')
    BY <2>1, OneVlanLeft DEF OneInv, VlansStage
  <2> QED
    BY <2>1, <2>2 DEF OneInv, PairsOK
<1>11. CASE Restart
  <2>1. pc' = "boot" /\ DOMAIN linkCache' = {} /\ DOMAIN lldpLinkCache' = {} /\ DOMAIN vlans' = {}
    BY <1>11 DEF Restart, Empty
  <2> QED
    BY <2>1 DEF OneInv, PairsOK, AtMostOne
<1> QED
  BY <1>1, <1>2, <1>3, <1>4, <1>5, <1>6, <1>7, <1>8, <1>9, <1>10, <1>11 DEF Next, Boot, Tick, Failure

(* Where at most one vlan is to show, a pass finds all vlans as they were   *)
(* or none, however the worlds change, whatever fails and whenever the      *)
(* agent is restarted: one moves from place to place, and the place it had  *)
(* is not found as it was.                                                  *)
THEOREM OneVlanFlagsAgree ==
  ASSUME OneToShow
  PROVE  Spec => []FlagsAgree
<1>1. OneInv => FlagsAgree
  BY DEF OneInv, VlansStage, AtMostOne, FlagsAgree
<1> QED
  BY <1>1, AgentInvInit, AgentInvNext, FoundInvInit, FoundInvNext, OneInvInit, OneInvNext, PTL DEF Spec

(* So such an agent, if the API server takes what it writes, never keeps to *)
(* itself what it shows.                                                    *)
THEOREM OneVlanIsPublished ==
  ASSUME OneToShow, "api" \notin MayFail
  PROVE  Spec => PublishedWhenChanged
BY OneVlanFlagsAgree, ChangesArePublished, PTL
=============================================================================
