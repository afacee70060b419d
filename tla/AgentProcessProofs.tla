------------------------- MODULE AgentProcessProofs -------------------------
(***************************************************************************)
(* Theorems about the process of fsc-agent.  It is a WorkLoop, whatever its *)
(* configmap watcher and its main loop do between two messages, so what is  *)
(* proved of WorkLoop holds of it; and the map of the watcher is what the   *)
(* configmap says, by an invariant on how far it has come in the list.      *)
(***************************************************************************)
EXTENDS AgentProcess, WorkLoopProofs, SequenceTheorems

(* Every step of the process is a step of the channel's, or leaves it be.   *)
LEMMA ProcessStep == [ProcessNext]_processVars => [Next]_vars
<1> SUFFICES ASSUME [ProcessNext]_processVars
             PROVE  [Next]_vars
  OBVIOUS
<1>1. CASE UNCHANGED processVars
  BY <1>1 DEF processVars
<1>2. ASSUME NEW c \in Configs, ConfigChange(c)
      PROVE  UNCHANGED vars
  BY <1>2 DEF ConfigChange
<1>3. CASE TimerStep(TimerExpires) \/ TimerStep(TimerSend)
  BY <1>3 DEF TimerStep, Next
<1>4. CASE Watch
  <2>1. CASE SendConfig
    BY <2>1, ProcessAssumption DEF SendConfig, Next
  <2>2. CASE Take \/ CopyName \/ StoreName \/ Stored \/ NextEntry
    BY <2>2 DEF Take, CopyName, StoreName, Stored, NextEntry
  <2> QED
    BY <1>4, <2>1, <2>2 DEF Watch
<1>5. ASSUME NEW s \in Watcher, SendOther(s)
      PROVE  Next
  BY <1>5 DEF SendOther, Next
<1>6. CASE MainLoop
  <2>1. CASE Booted \/ Worked
    BY <2>1 DEF Booted, Worked, Next
  <2>2. CASE ReceiveTick \/ ReceiveConfig \/ \E a \in DOMAIN Attachment : ReceiveOther(a)
    BY <2>2 DEF ReceiveTick, ReceiveConfig, ReceiveOther, Next
  <2>3. CASE Ranged \/ \E a \in DOMAIN multusConfig : Lookup(a)
    BY <2>3 DEF Ranged, Lookup
  <2> QED
    BY <1>6, <2>1, <2>2, <2>3 DEF MainLoop
<1>7. CASE ConcurrentMapAccess \/ OtherCrash \/ Restarted
  BY <1>7 DEF ConcurrentMapAccess, OtherCrash, Restarted, Next
<1> QED
  BY <1>1, <1>2, <1>3, <1>4, <1>5, <1>6, <1>7 DEF ProcessNext

(* The safety part of ImplementsWorkLoop.                                   *)
THEOREM ProcessIsWorkLoop == ProcessSpec => Loop!Init /\ [][Loop!Next]_Loop!vars
<1>1. ProcessInit => Loop!Init
  BY DEF ProcessInit, Init, Loop!Init, Sender, Loop!Sender
<1>2. [Next]_vars => [Loop!Next]_Loop!vars
  BY DEF Next, vars, Loop!Next, Loop!vars, TimerExpires, TimerSend, WatcherSend, Block, BootDone,
         Receive, WorkDone, Crash, Restart, Running, Sender, Loop!TimerExpires, Loop!TimerSend,
         Loop!WatcherSend, Loop!Block, Loop!BootDone, Loop!Receive, Loop!WorkDone, Loop!Crash,
         Loop!Restart, Loop!Running, Loop!Sender
<1> QED
  BY <1>1, <1>2, ProcessStep, PTL DEF ProcessSpec

(* So the channel's invariant is the process's.                             *)
LEMMA ProcessLoopInvariant == ProcessSpec => []LoopInv
<1>1. ProcessInit => LoopInv
  BY LoopInvInit DEF ProcessInit
<1>2. LoopInv /\ [ProcessNext]_processVars => LoopInv'
  BY LoopInvNext, ProcessStep
<1> QED
  BY <1>1, <1>2, PTL DEF ProcessSpec

(* The ticks of the agent neither pile up nor die out, although a tick      *)
(* reads the configmap's names one by one.                                  *)
THEOREM ProcessTicksBounded == ProcessSpec => []OneTickToCome
<1>1. LoopInv => OneTickToCome
  BY DEF LoopInv
<1> QED
  BY <1>1, ProcessLoopInvariant, PTL

(* The watchers of the agent that are blocked are queued, each once.        *)
THEOREM ProcessSendersQueued == ProcessSpec => []SendersQueued
<1>1. LoopInv => SendersQueued
  BY DEF LoopInv
<1> QED
  BY <1>1, ProcessLoopInvariant, PTL

-----------------------------------------------------------------------------
(* The names of a configmap have places: entry p, name q.                   *)
Before(p, q, i, j) == p < i \/ (p = i /\ q < j)

(* The last place before entry i, name j that names its resource.           *)
LastBefore(c, p, q, i, j) ==
  /\ Before(p, q, i, j)
  /\ \A v \in 1..Len(c) : \A w \in 1..Len(c[v].pfNames) :
       Before(v, w, i, j) /\ c[v].resource = c[p].resource => ~Before(p, q, v, w)

Shows(c, p, q) ==
  c[p].resource \in DOMAIN sriovConfig /\ sriovConfig[c[p].resource] = c[p].pfNames[q]

(* Up to there the map shows the last name of every resource, or of every   *)
(* one but that of entry i.                                                 *)
MapUpTo(c, i, j) ==
  \A p \in 1..Len(c) : \A q \in 1..Len(c[p].pfNames) : LastBefore(c, p, q, i, j) => Shows(c, p, q)

MapUpToBut(c, i, j) ==
  \A p \in 1..Len(c) : \A q \in 1..Len(c[p].pfNames) :
    LastBefore(c, p, q, i, j) /\ c[p].resource # c[i].resource => Shows(c, p, q)

(* The entry of c the watcher is at, when it has yet to do the entries left. *)
Here(c) == Len(c) - Len(parse.left) + 1

LeftOf(c) ==
  /\ Len(parse.left) <= Len(c)
  /\ parse.left = SubSeq(c, Here(c), Len(c))

(* If the configmap has not changed since the watcher took it, then the     *)
(* watcher has stored the names up to the one it is at.                     *)
MapProgress ==
  ~news /\ Parses(config) =>
    CASE parse.step = "wait" -> MapUpTo(config, Len(config) + 1, 1)
      [] parse.step = "send" -> MapUpTo(config, Len(config) + 1, 1)
      [] parse.step = "next" -> LeftOf(config) /\ MapUpTo(config, Here(config), parse.name)
      [] parse.step = "copy" -> LeftOf(config) /\ MapUpTo(config, Here(config), parse.name)
      [] parse.step = "store" -> LeftOf(config) /\ MapUpToBut(config, Here(config), parse.name)

WatcherOK ==
  /\ config \in Configs /\ news \in BOOLEAN
  /\ parse \in [step : Steps, left : Contents, name : Nat]
  /\ parse.step = "next" => parse.name # 0
  /\ parse.step \in {"copy", "store"} => parse.left # <<>> /\ parse.name \in 1..Len(Entry.pfNames)
  /\ sriovConfig \in [DOMAIN sriovConfig -> Name] /\ DOMAIN sriovConfig \subseteq Resource

-----------------------------------------------------------------------------
(* A list, from one of its entries on.                                      *)
LEMMA EntriesLeft ==
  ASSUME NEW c \in Contents, NEW i \in 1..Len(c)
  PROVE  LET left == SubSeq(c, i, Len(c)) IN
         /\ Len(left) = Len(c) - i + 1
         /\ left # <<>>
         /\ Head(left) = c[i]
         /\ Tail(left) \in Contents
         /\ Tail(left) = SubSeq(c, i + 1, Len(c))
         /\ Len(Tail(left)) = Len(c) - i
<1> DEFINE Item == [resource : Resource, pfNames : Seq(Name)]
<1>1. c \in Seq(Item) /\ Len(c) \in i..Len(c) /\ i \in Int /\ Len(c) \in Int
  <2>1. c \in Seq(Item)
    BY DEF Contents
  <2> QED
    BY <2>1, LenProperties
<1> HIDE DEF Item
<1>2. /\ Head(SubSeq(c, i, Len(c))) = c[i]
      /\ Tail(SubSeq(c, i, Len(c))) = SubSeq(c, i + 1, Len(c))
  BY <1>1, HeadTailOfSubSeq
<1>3. \A m \in 1..Len(c) : c[m] \in Item
  BY <1>1, ElementOfSeq
<1>4. Len(SubSeq(c, i, Len(c))) = Len(c) - i + 1
  BY <1>1, <1>3, SubSeqProperties
<1>5. SubSeq(c, i + 1, Len(c)) \in Seq(Item) /\ Len(SubSeq(c, i + 1, Len(c))) = Len(c) - i
  BY <1>1, <1>3, SubSeqProperties
<1>6. SubSeq(c, i, Len(c)) # <<>>
  <2>1. Len(c) - i + 1 # 0
    BY <1>1
  <2>2. Len(SubSeq(c, i, Len(c))) # 0
    BY <1>4, <2>1
  <2> QED
    BY <2>2, EmptySeq
<1> QED
  BY <1>2, <1>4, <1>5, <1>6 DEF Contents, Item

(* An entry has a resource and a list of names.                             *)
LEMMA EntryOf ==
  ASSUME NEW c \in Contents, NEW i \in 1..Len(c)
  PROVE  c[i].resource \in Resource /\ c[i].pfNames \in Seq(Name) /\ Len(c[i].pfNames) \in Nat
<1>1. c[i] \in [resource : Resource, pfNames : Seq(Name)]
  BY ElementOfSeq DEF Contents
<1> QED
  BY <1>1

(* There is no name before the first.                                       *)
LEMMA MapUpToStart ==
  ASSUME NEW c \in Contents
  PROVE  MapUpTo(c, 1, 1)
BY DEF MapUpTo, LastBefore, Before, Contents

(* The next name begins to be stored: what the map showed of the other      *)
(* resources it goes on showing.                                            *)
LEMMA StoreNameKeeps ==
  ASSUME NEW c \in Contents, NEW i \in 1..Len(c), NEW j \in 1..Len(c[i].pfNames), MapUpTo(c, i, j),
         \/ sriovConfig' = sriovConfig
         \/ sriovConfig' = Put(sriovConfig, c[i].resource, c[i].pfNames[j])
  PROVE  MapUpToBut(c, i, j)'
BY DEF MapUpTo, MapUpToBut, Shows, Put

(* It is stored: the map shows it, as the last name of its resource.        *)
LEMMA StoredKeeps ==
  ASSUME NEW c \in Contents, NEW i \in 1..Len(c), NEW j \in 1..Len(c[i].pfNames), MapUpToBut(c, i, j),
         sriovConfig' = Put(sriovConfig, c[i].resource, c[i].pfNames[j])
  PROVE  MapUpTo(c, i, j + 1)'
<1> SUFFICES ASSUME NEW p \in 1..Len(c), NEW q \in 1..Len(c[p].pfNames), LastBefore(c, p, q, i, j + 1)
             PROVE  Shows(c, p, q)'
  BY DEF MapUpTo
<1>1. CASE c[p].resource = c[i].resource
  <2>1. ~Before(p, q, i, j)
    BY <1>1 DEF LastBefore, Before
  <2>2. p = i /\ q = j
    BY <2>1 DEF LastBefore, Before, Contents
  <2> QED
    BY <2>2 DEF Shows, Put
<1>2. CASE c[p].resource # c[i].resource
  <2>1. LastBefore(c, p, q, i, j)
    BY <1>2 DEF LastBefore, Before, Contents
  <2>2. Shows(c, p, q)
    BY <1>2, <2>1 DEF MapUpToBut
  <2> QED
    BY <1>2, <2>2 DEF Shows, Put
<1> QED
  BY <1>1, <1>2

(* An entry is done when all of its names are.                              *)
LEMMA NextEntryKeeps ==
  ASSUME NEW c \in Contents, NEW i \in 1..Len(c), NEW j \in Nat, j > Len(c[i].pfNames), MapUpTo(c, i, j)
  PROVE  MapUpTo(c, i + 1, 1)
<1>1. ASSUME NEW p \in 1..Len(c), NEW q \in 1..Len(c[p].pfNames)
      PROVE  Before(p, q, i + 1, 1) <=> Before(p, q, i, j)
  BY DEF Before, Contents
<1> QED
  BY <1>1 DEF MapUpTo, LastBefore

(* At the end of the list the map shows what the list says.                 *)
LEMMA MapAtTheEnd ==
  ASSUME NEW c \in Contents, NEW i \in 1..Len(c), NamedLast(c, i), MapUpTo(c, Len(c) + 1, 1)
  PROVE  Shows(c, i, Len(c[i].pfNames))
<1> DEFINE n == Len(c[i].pfNames)
<1>1. Len(c) \in Nat /\ n \in 1..n /\ c[i].pfNames \in Seq(Name)
  <2>1. Len(c) \in Nat /\ c[i].pfNames \in Seq(Name)
    BY EntryOf, LenProperties DEF Contents
  <2>2. n \in Nat /\ n # 0
    BY <2>1, EmptySeq DEF NamedLast
  <2> QED
    BY <2>1, <2>2
<1>2. LastBefore(c, i, n, Len(c) + 1, 1)
  <2>1. Before(i, n, Len(c) + 1, 1)
    BY <1>1 DEF Before
  <2>2. ASSUME NEW v \in 1..Len(c), NEW w \in 1..Len(c[v].pfNames), c[v].resource = c[i].resource
        PROVE  ~Before(i, n, v, w)
    <3>1. CASE v > i
      <4>1. v \in (i + 1)..Len(c)
        BY <1>1, <3>1
      <4>2. c[v].pfNames = <<>>
        BY <2>2, <4>1 DEF NamedLast
      <4> QED
        BY <4>2
    <3>2. CASE v <= i
      BY <1>1, <3>2 DEF Before
    <3> QED
      BY <1>1, <3>1, <3>2
  <2> QED
    BY <2>1, <2>2 DEF LastBefore
<1> QED
  BY <1>1, <1>2 DEF MapUpTo

-----------------------------------------------------------------------------
(* The watcher and its map when the process starts.                         *)
LEMMA WatcherInit == ProcessInit => WatcherOK /\ MapProgress
<1> SUFFICES ASSUME ProcessInit PROVE WatcherOK /\ MapProgress
  OBVIOUS
<1>1. /\ config \in Configs /\ news = (config # Absent) /\ parse = Waits
      /\ sriovConfig = Empty /\ DOMAIN Empty = {} /\ Empty = [x \in {} |-> Empty[x]]
  BY DEF ProcessInit, Empty
<1>2. <<>> \in Contents
  BY EmptySeq DEF Contents
<1>3. WatcherOK
  BY <1>1, <1>2 DEF WatcherOK, Waits, Steps
<1>4. MapProgress
  BY <1>1 DEF MapProgress, Parses
<1> QED
  BY <1>3, <1>4

(* Where an entry is, from the entries left.                                *)
LEMMA Places ==
  ASSUME NEW n \in Nat, NEW m \in Nat, m <= n
  PROVE  /\ n - m + 1 \in 1..(n + 1)
         /\ m # 0 => n - m + 1 \in 1..n /\ n - (m - 1) + 1 = (n - m + 1) + 1 /\ m - 1 <= n
         /\ m = 0 => n - m + 1 = n + 1
         /\ m # 0 => n - (n - m + 1) = m - 1
OBVIOUS

(* What the watcher is at, in the list it took.                             *)
LEMMA AtEntry ==
  ASSUME WatcherOK, NEW c \in Contents, LeftOf(c)
  PROVE  /\ Here(c) \in 1..(Len(c) + 1) /\ Len(c) \in Nat
         /\ parse.left = <<>> => Here(c) = Len(c) + 1
         /\ parse.left # <<>> =>
              /\ Here(c) \in 1..Len(c)
              /\ Entry = c[Here(c)]
              /\ Tail(parse.left) \in Contents
              /\ Tail(parse.left) = SubSeq(c, Here(c) + 1, Len(c))
              /\ Len(Tail(parse.left)) = Len(parse.left) - 1
              /\ Len(Tail(parse.left)) <= Len(c)
<1>1. parse.left \in Contents
  BY DEF WatcherOK
<1>2. Len(c) \in Nat /\ Len(parse.left) \in Nat /\ Len(parse.left) <= Len(c)
  BY <1>1, LenProperties DEF Contents, LeftOf
<1>3. Here(c) \in 1..(Len(c) + 1)
  BY <1>2, Places, Zenon DEF Here
<1>4. parse.left = <<>> => Here(c) = Len(c) + 1
  BY <1>2, EmptySeq DEF Here
<1>5. ASSUME parse.left # <<>>
      PROVE  /\ Here(c) \in 1..Len(c)
             /\ Entry = c[Here(c)]
             /\ Tail(parse.left) \in Contents
             /\ Tail(parse.left) = SubSeq(c, Here(c) + 1, Len(c))
             /\ Len(Tail(parse.left)) = Len(parse.left) - 1
             /\ Len(Tail(parse.left)) <= Len(c)
  <2>1. Len(parse.left) # 0
    BY <1>1, <1>5, EmptySeq DEF Contents
  <2>2. Here(c) \in 1..Len(c)
    BY <1>2, <2>1 DEF Here
  <2>3. PICK i \in 1..Len(c) : i = Here(c)
    BY <2>2
  <2>4. parse.left = SubSeq(c, i, Len(c))
    BY <2>3 DEF LeftOf
  <2>5. Len(c) - i = Len(parse.left) - 1 /\ Len(parse.left) - 1 <= Len(c)
    BY <1>2, <2>1, <2>3, Places DEF Here
  <2>6. /\ Entry = c[i] /\ Tail(parse.left) \in Contents
        /\ Tail(parse.left) = SubSeq(c, i + 1, Len(c))
        /\ Len(Tail(parse.left)) = Len(c) - i
    BY <2>4, EntriesLeft DEF Entry
  <2> QED
    BY <2>2, <2>3, <2>5, <2>6
<1> QED
  BY <1>2, <1>3, <1>4, <1>5

(* The name it is at.                                                       *)
LEMMA EntryTyped ==
  ASSUME parse.left \in Contents, parse.left # <<>>, parse.name \in 1..Len(Entry.pfNames)
  PROVE  Entry.resource \in Resource /\ Entry.pfNames[parse.name] \in Name
<1>1. 1 \in 1..Len(parse.left) /\ Entry = parse.left[1]
  <2>1. Len(parse.left) \in Nat \ {0}
    BY EmptySeq DEF Contents
  <2> QED
    BY <2>1 DEF Entry
<1>2. Entry.resource \in Resource /\ Entry.pfNames \in Seq(Name)
  BY <1>1, EntryOf
<1> QED
  BY <1>2, ElementOfSeq

(* The watcher moves on to another entry or to no entry.                    *)
LEMMA MovesOn ==
  ASSUME WatcherOK, NEW step \in {"wait", "next", "send"}, NEW left \in Contents, NEW j \in Nat,
         step = "next" => j # 0,
         config' = config, news' \in BOOLEAN, sriovConfig' = sriovConfig,
         parse' = At(step, left, j)
  PROVE  /\ WatcherOK'
         /\ parse'.step = step /\ parse'.left = left /\ parse'.name = j
<1>1. parse'.step = step /\ parse'.left = left /\ parse'.name = j
  BY DEF At
<1>2. step \in Steps
  BY DEF Steps
<1>3. parse' \in [step : Steps, left : Contents, name : Nat]
  BY <1>2 DEF At
<1>4. step \notin {"copy", "store"}
  OBVIOUS
<1>5. /\ config \in Configs
      /\ sriovConfig \in [DOMAIN sriovConfig -> Name] /\ DOMAIN sriovConfig \subseteq Resource
  BY DEF WatcherOK
<1> QED
  BY <1>1, <1>3, <1>4, <1>5 DEF WatcherOK

(* No entries are a list, too.                                              *)
LEMMA NoEntries == <<>> \in Contents /\ Waits = At("wait", <<>>, 0) /\ Sends = At("send", <<>>, 0)
BY EmptySeq DEF Contents, Waits, Sends, At

(* The steps of the watcher.                                                *)
LEMMA TakeKeeps == WatcherOK /\ MapProgress /\ Take => WatcherOK' /\ MapProgress'
<1> SUFFICES ASSUME WatcherOK, MapProgress, Take PROVE WatcherOK' /\ MapProgress'
  OBVIOUS
<1>1. /\ UNCHANGED <<config, sriovConfig>> /\ news' = FALSE /\ news' \in BOOLEAN
      /\ config \in Configs
      /\ parse' = IF Parses(config) THEN At("next", config, 1)
                  ELSE IF config = Absent THEN Sends ELSE Waits
  BY DEF Take, WatcherOK
<1>3. CASE Parses(config)
  <2>1. config \in Contents /\ parse' = At("next", config, 1)
    BY <1>1, <1>3, ProcessAssumption DEF Parses
  <2>2. WatcherOK'
    <3>1. "next" \in {"wait", "next", "send"} /\ 1 \in Nat /\ 1 # 0
      OBVIOUS
    <3> QED
      BY <1>1, <2>1, <3>1, MovesOn, Zenon
  <2> PICK c \in Contents : c = config
    BY <2>1
  <2>3. Len(c) \in Nat /\ SubSeq(c, 1, Len(c)) = c /\ MapUpTo(c, 1, 1)
    BY MapUpToStart, LenProperties, SubSeqFull DEF Contents
  <2>4. parse'.step = "next" /\ parse'.left = c /\ parse'.name = 1
    BY <2>1 DEF At
  <2>5. LeftOf(c)' /\ Here(c)' = 1
    BY <2>3, <2>4 DEF LeftOf, Here
  <2>6. MapUpTo(c, 1, 1)'
    BY <1>1, <2>3 DEF MapUpTo, Shows
  <2>7. MapProgress'
    BY <1>1, <2>4, <2>5, <2>6 DEF MapProgress
  <2> QED
    BY <2>2, <2>7
<1>4. CASE ~Parses(config)
  <2>1. parse' = At("send", <<>>, 0) \/ parse' = At("wait", <<>>, 0)
    BY <1>1, <1>4, NoEntries
  <2>2. WatcherOK'
    BY <1>1, <2>1, NoEntries, MovesOn
  <2> QED
    BY <1>1, <1>4, <2>2 DEF MapProgress, Parses
<1> QED
  BY <1>3, <1>4

LEMMA CopyNameKeeps == WatcherOK /\ MapProgress /\ CopyName => WatcherOK' /\ MapProgress'
<1> SUFFICES ASSUME WatcherOK, MapProgress, CopyName PROVE WatcherOK' /\ MapProgress'
  OBVIOUS
<1>1. /\ UNCHANGED <<config, news, sriovConfig>> /\ parse' = [parse EXCEPT !.step = "copy"]
      /\ parse.step = "next" /\ parse.left # <<>> /\ parse.name <= Len(Entry.pfNames)
  BY DEF CopyName
<1>2. parse'.step = "copy" /\ parse'.left = parse.left /\ parse'.name = parse.name
      /\ parse' \in [step : Steps, left : Contents, name : Nat]
  BY <1>1 DEF WatcherOK, Steps
<1>3. WatcherOK'
  BY <1>1, <1>2 DEF WatcherOK, Entry
<1>4. MapProgress'
  BY <1>1, <1>2 DEF MapProgress, LeftOf, Here, MapUpTo, Shows
<1> QED
  BY <1>3, <1>4

LEMMA StoreNameStep == WatcherOK /\ MapProgress /\ StoreName => WatcherOK' /\ MapProgress'
<1> SUFFICES ASSUME WatcherOK, MapProgress, StoreName PROVE WatcherOK' /\ MapProgress'
  OBVIOUS
<1>1. /\ UNCHANGED <<config, news>> /\ parse' = [parse EXCEPT !.step = "store"]
      /\ parse.step = "copy" /\ parse.left # <<>> /\ parse.name \in 1..Len(Entry.pfNames)
      /\ \/ sriovConfig' = sriovConfig
         \/ sriovConfig' = Put(sriovConfig, Entry.resource, Entry.pfNames[parse.name])
  BY DEF StoreName, WatcherOK
<1>2. parse'.step = "store" /\ parse'.left = parse.left /\ parse'.name = parse.name
      /\ parse' \in [step : Steps, left : Contents, name : Nat]
  BY <1>1 DEF WatcherOK, Steps
<1>3. Entry.resource \in Resource /\ Entry.pfNames[parse.name] \in Name
  BY <1>1, EntryTyped DEF WatcherOK
<1>4. sriovConfig' \in [DOMAIN sriovConfig' -> Name] /\ DOMAIN sriovConfig' \subseteq Resource
  BY <1>1, <1>3 DEF WatcherOK, Put
<1>5. WatcherOK'
  BY <1>1, <1>2, <1>4 DEF WatcherOK, Entry
<1>6. MapProgress'
  <2> SUFFICES ASSUME ~news, Parses(config)
               PROVE  LeftOf(config)' /\ MapUpToBut(config, Here(config), parse.name)'
    BY <1>1, <1>2 DEF MapProgress
  <2> PICK c \in Contents : c = config
    BY ProcessAssumption DEF WatcherOK, Parses
  <2>1. LeftOf(c) /\ MapUpTo(c, Here(c), parse.name)
    BY <1>1 DEF MapProgress
  <2>2. PICK i \in 1..Len(c) : i = Here(c) /\ Entry = c[i]
    BY <1>1, <2>1, AtEntry
  <2> PICK j \in 1..Len(c[i].pfNames) : j = parse.name
    BY <1>1, <2>2
  <2>3. MapUpToBut(c, i, j)'
    BY <1>1, <2>1, <2>2, StoreNameKeeps
  <2>4. LeftOf(c)' /\ Here(c)' = i /\ parse'.name = j /\ config' = c
    BY <1>1, <1>2, <2>1, <2>2 DEF LeftOf, Here
  <2> QED
    BY <2>3, <2>4
<1> QED
  BY <1>5, <1>6

LEMMA StoredStep == WatcherOK /\ MapProgress /\ Stored => WatcherOK' /\ MapProgress'
<1> SUFFICES ASSUME WatcherOK, MapProgress, Stored PROVE WatcherOK' /\ MapProgress'
  OBVIOUS
<1>1. /\ UNCHANGED <<config, news>> /\ parse' = [parse EXCEPT !.step = "next", !.name = @ + 1]
      /\ parse.step = "store" /\ parse.left # <<>> /\ parse.name \in 1..Len(Entry.pfNames)
      /\ sriovConfig' = Put(sriovConfig, Entry.resource, Entry.pfNames[parse.name])
  BY DEF Stored, WatcherOK
<1>2. parse'.step = "next" /\ parse'.left = parse.left /\ parse'.name = parse.name + 1
      /\ parse'.name # 0 /\ parse' \in [step : Steps, left : Contents, name : Nat]
  <2>1. parse \in [step : Steps, left : Contents, name : Nat] /\ "next" \in Steps
    BY DEF WatcherOK, Steps
  <2>2. parse.name + 1 \in Nat /\ parse.name + 1 # 0
    BY <2>1
  <2> QED
    BY <1>1, <2>1, <2>2
<1>3. Entry.resource \in Resource /\ Entry.pfNames[parse.name] \in Name
  BY <1>1, EntryTyped DEF WatcherOK
<1>4. sriovConfig' \in [DOMAIN sriovConfig' -> Name] /\ DOMAIN sriovConfig' \subseteq Resource
  BY <1>1, <1>3 DEF WatcherOK, Put
<1>5. WatcherOK'
  BY <1>1, <1>2, <1>4 DEF WatcherOK, Entry
<1>6. MapProgress'
  <2> SUFFICES ASSUME ~news, Parses(config)
               PROVE  LeftOf(config)' /\ MapUpTo(config, Here(config), parse.name)'
    BY <1>1, <1>2 DEF MapProgress
  <2> PICK c \in Contents : c = config
    BY ProcessAssumption DEF WatcherOK, Parses
  <2>1. LeftOf(c) /\ MapUpToBut(c, Here(c), parse.name)
    BY <1>1 DEF MapProgress
  <2>2. PICK i \in 1..Len(c) : i = Here(c) /\ Entry = c[i]
    BY <1>1, <2>1, AtEntry
  <2> PICK j \in 1..Len(c[i].pfNames) : j = parse.name
    BY <1>1, <2>2
  <2>3. MapUpTo(c, i, j + 1)'
    BY <1>1, <2>1, <2>2, StoredKeeps
  <2>4. LeftOf(c)' /\ Here(c)' = i /\ parse'.name = j + 1 /\ config' = c
    BY <1>1, <1>2, <2>1, <2>2 DEF LeftOf, Here
  <2> QED
    BY <2>3, <2>4
<1> QED
  BY <1>5, <1>6

LEMMA NextEntryStep == WatcherOK /\ MapProgress /\ NextEntry => WatcherOK' /\ MapProgress'
<1> SUFFICES ASSUME WatcherOK, MapProgress, NextEntry PROVE WatcherOK' /\ MapProgress'
  OBVIOUS
<1>1. /\ UNCHANGED <<config, news, sriovConfig>> /\ parse.step = "next" /\ parse.name \in Nat
      /\ parse.left # <<>> => parse.name > Len(Entry.pfNames)
      /\ parse' = IF parse.left = <<>> THEN Sends ELSE At("next", Tail(parse.left), 1)
  BY DEF NextEntry, WatcherOK
<1>2. CASE parse.left = <<>>
  <2>1. parse' = At("send", <<>>, 0)
    BY <1>1, <1>2, NoEntries
  <2>2. WatcherOK' /\ parse'.step = "send"
    BY <1>1, <2>1, NoEntries, MovesOn DEF WatcherOK
  <2>3. MapProgress'
    <3> SUFFICES ASSUME ~news, Parses(config)
                 PROVE  MapUpTo(config, Len(config) + 1, 1)'
      BY <1>1, <2>2 DEF MapProgress
    <3> PICK c \in Contents : c = config
      BY ProcessAssumption DEF WatcherOK, Parses
    <3>1. LeftOf(c) /\ MapUpTo(c, Here(c), parse.name) /\ parse.name # 0
      BY <1>1 DEF MapProgress, WatcherOK
    <3>2. Here(c) = Len(c) + 1 /\ Len(c) \in Nat
      BY <1>2, <3>1, AtEntry
    <3>3. MapUpTo(c, Len(c) + 1, 1)
      BY <3>1, <3>2 DEF MapUpTo, LastBefore, Before
    <3> QED
      BY <1>1, <3>3 DEF MapUpTo, Shows
  <2> QED
    BY <2>2, <2>3
<1>3. CASE parse.left # <<>>
  <2>1. parse' = At("next", Tail(parse.left), 1) /\ Tail(parse.left) \in Contents
    BY <1>1, <1>3, HeadTailProperties DEF WatcherOK, Contents
  <2>2. /\ WatcherOK'
        /\ parse'.step = "next" /\ parse'.left = Tail(parse.left) /\ parse'.name = 1
    <3>1. "next" \in {"wait", "next", "send"} /\ 1 \in Nat /\ 1 # 0 /\ news' \in BOOLEAN
      BY <1>1 DEF WatcherOK
    <3> QED
      BY <1>1, <2>1, <3>1, MovesOn, Zenon
  <2>3. MapProgress'
    <3> SUFFICES ASSUME ~news, Parses(config)
                 PROVE  LeftOf(config)' /\ MapUpTo(config, Here(config), parse.name)'
      BY <1>1, <2>2 DEF MapProgress
    <3> PICK c \in Contents : c = config
      BY ProcessAssumption DEF WatcherOK, Parses
    <3>1. LeftOf(c) /\ MapUpTo(c, Here(c), parse.name)
      BY <1>1 DEF MapProgress
    <3>2. PICK i \in 1..Len(c) : i = Here(c) /\ Entry = c[i]
      BY <1>3, <3>1, AtEntry
    <3>3. MapUpTo(c, i + 1, 1)
      <4>1. MapUpTo(c, i, parse.name) /\ parse.name > Len(c[i].pfNames)
        BY <1>1, <1>3, <3>1, <3>2
      <4> QED
        BY <1>1, <4>1, NextEntryKeeps
    <3>4. parse'.left = Tail(parse.left) /\ parse'.name = 1 /\ config' = c
      BY <1>1, <2>2
    <3>5. LeftOf(c)' /\ Here(c)' = i + 1
      <4>1. /\ Tail(parse.left) = SubSeq(c, i + 1, Len(c)) /\ Len(c) \in Nat
            /\ Len(Tail(parse.left)) = Len(parse.left) - 1 /\ Len(Tail(parse.left)) <= Len(c)
        BY <1>3, <3>1, <3>2, AtEntry
      <4>2. Len(parse.left) \in Nat /\ Len(parse.left) # 0 /\ Len(parse.left) <= Len(c)
        BY <1>3, <3>1, LenProperties, EmptySeq DEF WatcherOK, Contents, LeftOf
      <4>3. Len(c) - (Len(parse.left) - 1) + 1 = (Len(c) - Len(parse.left) + 1) + 1
        BY <4>1, <4>2, Places
      <4>4. Here(c)' = Len(c) - Len(Tail(parse.left)) + 1
        BY <3>4 DEF Here
      <4>5. Here(c)' = i + 1
        BY <3>2, <4>1, <4>3, <4>4 DEF Here
      <4> QED
        BY <3>4, <4>1, <4>5 DEF LeftOf
    <3>6. MapUpTo(c, i + 1, 1)'
      BY <1>1, <3>3 DEF MapUpTo, Shows
    <3> QED
      BY <3>4, <3>5, <3>6
  <2> QED
    BY <2>2, <2>3
<1> QED
  BY <1>2, <1>3

LEMMA SendConfigStep == WatcherOK /\ MapProgress /\ SendConfig => WatcherOK' /\ MapProgress'
<1> SUFFICES ASSUME WatcherOK, MapProgress, SendConfig PROVE WatcherOK' /\ MapProgress'
  OBVIOUS
<1>1. UNCHANGED <<config, news, sriovConfig>> /\ parse.step = "send" /\ parse' = Waits
  BY DEF SendConfig
<1>2. parse' = At("wait", <<>>, 0)
  BY <1>1, NoEntries
<1>3. WatcherOK' /\ parse'.step = "wait"
  BY <1>1, <1>2, NoEntries, MovesOn DEF WatcherOK
<1>4. MapProgress'
  BY <1>1, <1>3 DEF MapProgress, MapUpTo, Shows
<1> QED
  BY <1>3, <1>4

(* A change of the configmap: what the watcher has stored says nothing of   *)
(* the new contents, and its key is on the queue.                           *)
LEMMA ConfigChangeStep ==
  ASSUME WatcherOK, NEW c \in Configs, ConfigChange(c)
  PROVE  WatcherOK' /\ MapProgress'
<1>1. UNCHANGED <<sriovConfig, parse>> /\ config' = c /\ news' = TRUE
  BY DEF ConfigChange
<1>2. WatcherOK'
  BY <1>1 DEF WatcherOK, Entry
<1>3. MapProgress'
  BY <1>1 DEF MapProgress
<1> QED
  BY <1>2, <1>3

(* A new process has nothing stored, and the key of a configmap there is.   *)
LEMMA RestartedStep == WatcherOK /\ Restarted => WatcherOK' /\ MapProgress'
<1> SUFFICES ASSUME WatcherOK, Restarted PROVE WatcherOK' /\ MapProgress'
  OBVIOUS
<1>1. config' = config /\ news' = (config # Absent) /\ parse' = Waits /\ sriovConfig' = Empty
  BY DEF Restarted
<1>2. <<>> \in Contents
  BY EmptySeq DEF Contents
<1>3. DOMAIN Empty = {} /\ Empty \in [{} -> Name]
  BY DEF Empty
<1>4. WatcherOK'
  BY <1>1, <1>2, <1>3 DEF WatcherOK, Waits, Steps
<1>5. MapProgress'
  BY <1>1 DEF MapProgress, Parses
<1> QED
  BY <1>4, <1>5

(* Whatever else happens leaves the watcher be.                             *)
LEMMA WatcherKept ==
  ASSUME WatcherOK, MapProgress, UNCHANGED <<config, watcherVars>>
  PROVE  WatcherOK' /\ MapProgress'
<1>1. UNCHANGED <<config, news, sriovConfig, parse>>
  BY DEF watcherVars
<1>2. WatcherOK'
  BY <1>1 DEF WatcherOK, Entry
<1>3. Here(config)' = Here(config)
  BY <1>1 DEF Here
<1>4. /\ MapUpTo(config, Len(config) + 1, 1)' <=> MapUpTo(config, Len(config) + 1, 1)
      /\ MapUpTo(config, Here(config), parse.name)' <=> MapUpTo(config, Here(config), parse.name)
      /\ MapUpToBut(config, Here(config), parse.name)' <=> MapUpToBut(config, Here(config), parse.name)
      /\ LeftOf(config)' <=> LeftOf(config)
  BY <1>1, <1>3 DEF MapUpTo, MapUpToBut, Shows, LeftOf
<1>5. MapProgress'
  <2>1. parse.step \in {"wait", "next", "copy", "store", "send"}
    BY DEF WatcherOK, Steps
  <2> QED
    BY <1>1, <1>4, <2>1 DEF MapProgress
<1> QED
  BY <1>2, <1>5

LEMMA WatcherNext == WatcherOK /\ MapProgress /\ [ProcessNext]_processVars => WatcherOK' /\ MapProgress'
<1> SUFFICES ASSUME WatcherOK, MapProgress, [ProcessNext]_processVars
             PROVE  WatcherOK' /\ MapProgress'
  OBVIOUS
<1>1. CASE UNCHANGED processVars
  BY <1>1, WatcherKept DEF processVars
<1>2. ASSUME NEW c \in Configs, ConfigChange(c)
      PROVE  WatcherOK' /\ MapProgress'
  BY <1>2, ConfigChangeStep
<1>3. CASE TimerStep(TimerExpires) \/ TimerStep(TimerSend)
  BY <1>3, WatcherKept DEF TimerStep
<1>4. CASE Watch
  BY <1>4, TakeKeeps, CopyNameKeeps, StoreNameStep, StoredStep, NextEntryStep, SendConfigStep DEF Watch
<1>5. ASSUME NEW s \in Watcher, SendOther(s)
      PROVE  WatcherOK' /\ MapProgress'
  BY <1>5, WatcherKept DEF SendOther
<1>6. CASE MainLoop
  <2>1. UNCHANGED <<config, watcherVars>>
    BY <1>6 DEF MainLoop, Booted, ReceiveTick, ReceiveConfig, ReceiveOther, Ranged, Lookup, Worked
  <2> QED
    BY <2>1, WatcherKept
<1>7. CASE ConcurrentMapAccess \/ OtherCrash
  BY <1>7, WatcherKept DEF ConcurrentMapAccess, OtherCrash
<1>8. CASE Restarted
  BY <1>8, RestartedStep
<1> QED
  BY <1>1, <1>2, <1>3, <1>4, <1>5, <1>6, <1>7, <1>8 DEF ProcessNext

(* The map gives every resource of the configmap the last of its            *)
(* interfaces, for every list of entries, whenever the watcher is done.     *)
THEOREM MapIsTheConfig == ProcessSpec => []MapFollowsConfig
<1>1. WatcherOK /\ MapProgress => MapFollowsConfig
  <2> SUFFICES ASSUME WatcherOK, MapProgress, parse = Waits, ~news, Parses(config),
                      NEW r \in Resource, NameIn(config, r) # NoName
               PROVE  r \in DOMAIN sriovConfig /\ sriovConfig[r] = NameIn(config, r)
    BY DEF MapFollowsConfig
  <2> PICK c \in Contents : c = config
    BY ProcessAssumption DEF WatcherOK, Parses
  <2> DEFINE naming == {i \in 1..Len(c) : c[i].resource = r /\ NamedLast(c, i)}
             last == CHOOSE i \in naming : TRUE
  <2>1. naming # {} /\ NameIn(c, r) = c[last].pfNames[Len(c[last].pfNames)]
    BY DEF NameIn
  <2>2. last \in naming
    BY <2>1
  <2> HIDE DEF last
  <2>3. last \in 1..Len(c) /\ c[last].resource = r /\ NamedLast(c, last)
    BY <2>2
  <2>4. MapUpTo(c, Len(c) + 1, 1)
    BY DEF MapProgress, Waits
  <2>5. Shows(c, last, Len(c[last].pfNames))
    BY <2>3, <2>4, MapAtTheEnd
  <2> QED
    BY <2>1, <2>3, <2>5 DEF Shows
<1> QED
  BY <1>1, WatcherInit, WatcherNext, PTL DEF ProcessSpec

-----------------------------------------------------------------------------
(* The main loop looks up attachments it has, and only while it works.      *)
TickOK ==
  /\ shared \in BOOLEAN
  /\ multusConfig \in [DOMAIN multusConfig -> Name \cup {NoName, Torn}]
  /\ DOMAIN multusConfig \subseteq DOMAIN Attachment
  /\ tick \in {"none", "range", "lookup"}
  /\ todo \subseteq DOMAIN multusConfig
  /\ tick # "none" => main \in {"work", "down"}
  /\ tick # "lookup" => todo = {}

(* A name that is read is a name or half of one.                            *)
LEMMA ReadableTyped ==
  ASSUME WatcherOK, NEW r
  PROVE  Readable(r) \subseteq Name \cup {Torn}
<1>1. ASSUME r \in DOMAIN sriovConfig PROVE sriovConfig[r] \in Name
  BY <1>1 DEF WatcherOK
<1>2. ASSUME Copying(r) PROVE Entry.pfNames[parse.name] \in Name
  BY <1>2, EntryTyped DEF Copying, WatcherOK
<1> QED
  BY <1>1, <1>2 DEF Readable

(* Steps that leave the main loop where it is, or end it.                   *)
LEMMA TickKept ==
  ASSUME TickOK, UNCHANGED tickVars, main' = main \/ main' = "down" \/ tick = "none"
  PROVE  TickOK'
<1>1. UNCHANGED <<shared, multusConfig, tick, todo>>
  BY DEF tickVars
<1> QED
  BY <1>1 DEF TickOK

LEMMA MainLoopKeeps == WatcherOK /\ TickOK /\ MainLoop => TickOK'
<1> SUFFICES ASSUME WatcherOK, TickOK, MainLoop PROVE TickOK'
  OBVIOUS
<1>1. CASE Booted
  BY <1>1, TickKept DEF Booted, BootDone, TickOK
<1>2. CASE ReceiveTick
  BY <1>2 DEF ReceiveTick, Receive, TickOK
<1>3. CASE ReceiveConfig
  BY <1>3 DEF ReceiveConfig, Receive, TickOK
<1>4. ASSUME NEW a \in DOMAIN Attachment, ReceiveOther(a)
      PROVE  TickOK'
  <2>1. tick = "none" /\ todo = {} /\ UNCHANGED <<shared, tick, todo>>
    BY <1>4 DEF ReceiveOther, Receive, TickOK
  <2>2. /\ multusConfig' \in [DOMAIN multusConfig' -> Name \cup {NoName, Torn}]
        /\ DOMAIN multusConfig' \subseteq DOMAIN Attachment
    <3>1. CASE multusConfig' = Put(multusConfig, a, NoName)
      BY <3>1 DEF Put, TickOK
    <3>2. CASE multusConfig' = [b \in DOMAIN multusConfig \ {a} |-> multusConfig[b]]
      BY <3>2 DEF TickOK
    <3> QED
      BY <1>4, <3>1, <3>2 DEF ReceiveOther
  <2> QED
    BY <2>1, <2>2 DEF TickOK
<1>5. CASE Ranged
  BY <1>5 DEF Ranged, TickOK, vars
<1>6. ASSUME NEW a \in DOMAIN multusConfig, Lookup(a)
      PROVE  TickOK'
  <2>1. /\ main' = main /\ UNCHANGED <<shared, tick>>
        /\ todo' = todo \ {a} /\ tick = "lookup"
    BY <1>6 DEF Lookup, vars
  <2>2. /\ multusConfig' \in [DOMAIN multusConfig' -> Name \cup {NoName, Torn}]
        /\ DOMAIN multusConfig' = DOMAIN multusConfig
    <3>1. CASE UNCHANGED multusConfig
      BY <3>1 DEF TickOK
    <3>2. ASSUME NEW n \in Readable(Attachment[a]), multusConfig' = Put(multusConfig, a, n)
          PROVE  <2>2!:
      <4>1. n \in Name \cup {Torn}
        BY ReadableTyped
      <4> QED
        BY <3>2, <4>1 DEF Put, TickOK
    <3> QED
      BY <1>6, <3>1, <3>2 DEF Lookup
  <2> QED
    BY <2>1, <2>2 DEF TickOK
<1>7. CASE Worked
  BY <1>7 DEF Worked, WorkDone, Reading, TickOK
<1> QED
  BY <1>1, <1>2, <1>3, <1>4, <1>5, <1>6, <1>7 DEF MainLoop

LEMMA TickNext == WatcherOK /\ TickOK /\ [ProcessNext]_processVars => TickOK'
<1> SUFFICES ASSUME WatcherOK, TickOK, [ProcessNext]_processVars
             PROVE  TickOK'
  OBVIOUS
<1>1. CASE UNCHANGED processVars
  BY <1>1, TickKept DEF processVars, vars
<1>2. ASSUME NEW c \in Configs, ConfigChange(c)
      PROVE  TickOK'
  BY <1>2, TickKept DEF ConfigChange, vars
<1>3. CASE TimerStep(TimerExpires) \/ TimerStep(TimerSend)
  BY <1>3, TickKept DEF TimerStep, TimerExpires, TimerSend
<1>4. CASE Watch
  <2>1. UNCHANGED tickVars /\ main' = main
    BY <1>4 DEF Watch, Take, CopyName, StoreName, Stored, NextEntry, SendConfig, WatcherSend, vars
  <2> QED
    BY <2>1, TickKept
<1>5. ASSUME NEW s \in Watcher, SendOther(s)
      PROVE  TickOK'
  BY <1>5, TickKept DEF SendOther, WatcherSend
<1>6. CASE MainLoop
  BY <1>6, MainLoopKeeps
<1>7. CASE ConcurrentMapAccess \/ OtherCrash
  BY <1>7, TickKept DEF ConcurrentMapAccess, OtherCrash, Crash
<1>8. CASE Restarted
  <2>1. shared' = FALSE /\ multusConfig' = Empty /\ tick' = "none" /\ todo' = {}
    BY <1>8 DEF Restarted
  <2>2. DOMAIN Empty = {} /\ Empty \in [{} -> Name \cup {NoName, Torn}]
    BY DEF Empty
  <2> QED
    BY <2>1, <2>2 DEF TickOK
<1> QED
  BY <1>1, <1>2, <1>3, <1>4, <1>5, <1>6, <1>7, <1>8 DEF ProcessNext

(* The watcher stays within the contents it took, the main loop within the  *)
(* attachments it has.                                                      *)
THEOREM ProcessTypeCorrect == ProcessSpec => []ProcessTypeOK
<1>1. ProcessInit => TickOK
  <2>1. DOMAIN Empty = {} /\ Empty \in [{} -> Name \cup {NoName, Torn}]
    BY DEF Empty
  <2> QED
    BY <2>1 DEF ProcessInit, TickOK
<1>2. WatcherOK /\ TickOK => ProcessTypeOK
  <2> SUFFICES ASSUME WatcherOK, TickOK PROVE ProcessTypeOK
    OBVIOUS
  <2>1. parse.step \in Steps /\ parse.name \in Nat
    BY DEF WatcherOK
  <2> QED
    BY <2>1 DEF WatcherOK, TickOK, ProcessTypeOK
<1> QED
  BY <1>1, <1>2, WatcherInit, WatcherNext, TickNext, PTL DEF ProcessSpec
=============================================================================
