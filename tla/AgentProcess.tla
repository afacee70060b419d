---------------------------- MODULE AgentProcess ----------------------------
(***************************************************************************)
(* The process of fsc-agent as a whole: WorkLoop with the watcher of the    *)
(* sriov configmap and the main loop's use of what it sends.                *)
(*                                                                          *)
(* The watcher keeps one map from resource names to interface names, fills  *)
(* it in place, and sends the map itself.  From its first message on the    *)
(* main loop reads at every tick the map that the watcher goes on writing.  *)
(* The Go runtime ends a process that it sees read a map while it is        *)
(* written; what it does not see may read an entry half written.            *)
(*                                                                          *)
(* The map holds pointers.  All names of one entry of the configmap go      *)
(* through one variable, and the map points at it from the first name on.   *)
(***************************************************************************)
EXTENDS WorkLoop

CONSTANTS
  configmap,    \* the watcher of the configmap
  Resource,     \* the resource names
  Name,         \* the names of interfaces
  NoName,       \* the interface name of an attachment before it is known
  Torn,         \* a name of which one half has been written
  Configs,      \* the contents the configmap can have
  Absent,       \* there is no configmap
  Unparsable,   \* its contents are not the expected JSON
  Attachment,   \* the sriov attachments, by the resource they use
  MaxChanges,   \* bound on the changes of the configmap
  MaxCrashes    \* bound on crashes, those of the Go runtime aside

(* The contents of a configmap that parses are a list of resources, each    *)
(* with its list of interfaces.                                             *)
Contents == Seq([resource : Resource, pfNames : Seq(Name)])

ASSUME ProcessAssumption ==
  /\ configmap \in Watcher
  /\ NoName \notin Name /\ Torn \notin Name
  /\ Absent \in Configs
  /\ \A c \in Configs : c \in Contents \/ c \in {Absent, Unparsable}
  /\ Attachment \in [DOMAIN Attachment -> Resource]
  /\ MaxChanges \in Nat /\ MaxCrashes \in Nat

VARIABLES
  config,       \* the configmap on the API server
  news,         \* its key is on the watcher's queue
  sriovConfig,  \* the watcher's map: the name each resource points at
  parse,        \* what the watcher does: see ParseTypeOK
  shared,       \* the main loop holds the watcher's map
  multusConfig, \* the main loop's attachments: the ItfceName of each
  tick,         \* where the main loop is in a tick
  todo,         \* the attachments the tick has not looked up yet
  changes, crashes

watcherVars == <<news, sriovConfig, parse>>
tickVars == <<shared, multusConfig, tick, todo>>
counters == <<changes, crashes>>
processVars == <<vars, config, watcherVars, tickVars, counters>>

Empty == [x \in {} |-> NoName]
Put(f, x, v) == [y \in DOMAIN f \cup {x} |-> IF y = x THEN v ELSE f[y]]

Parses(c) == c \notin {Absent, Unparsable}

(* The watcher waits for work, has the i-th entry of contents c before it,  *)
(* whose j-th name it is about to copy, copies, or stores, or has a message *)
(* to send.                                                                 *)
Waits == [step |-> "wait", left |-> <<>>, name |-> 0]
Sends == [step |-> "send", left |-> <<>>, name |-> 0]
At(step, left, j) == [step |-> step, left |-> left, name |-> j]

ProcessInit ==
  /\ Init
  /\ config \in Configs
  /\ news = (config # Absent)
  /\ sriovConfig = Empty
  /\ parse = Waits
  /\ shared = FALSE
  /\ multusConfig = Empty
  /\ tick = "none" /\ todo = {}
  /\ changes = 0 /\ crashes = 0

-----------------------------------------------------------------------------
(* The configmap is written, deleted, or listed anew.  The watcher reads it *)
(* some time after that, and does not see what is replaced before it does   *)
(* (ObjectWatcher).                                                         *)
ConfigChange(c) ==
  /\ changes < MaxChanges
  /\ changes' = changes + 1
  /\ config' = c
  /\ news' = TRUE
  /\ UNCHANGED <<vars, sriovConfig, parse, tickVars, crashes>>

(* process: read the configmap; sriovParseConfig: Unmarshal.  A configmap   *)
(* that is gone has the map sent as it is, one that does not parse nothing. *)
Take ==
  /\ Running
  /\ parse.step = "wait"
  /\ sender[configmap] = "busy"
  /\ news
  /\ news' = FALSE
  /\ parse' = IF Parses(config) THEN At("next", config, 1)
              ELSE IF config = Absent THEN Sends ELSE Waits
  /\ UNCHANGED <<vars, config, sriovConfig, tickVars, counters>>

Entry == Head(parse.left)

(* Bug: the inner loop runs once too often.                                 *)
CopyNameBeyond ==
  /\ Running
  /\ parse.step = "next"
  /\ parse.left # <<>>
  /\ parse.name <= Len(Entry.pfNames) + 1
  /\ parse' = [parse EXCEPT !.step = "copy"]
  /\ UNCHANGED <<vars, config, news, sriovConfig, tickVars, counters>>

(* The inner loop: its variable n takes the next name.                      *)
CopyName ==
  /\ Running
  /\ parse.step = "next"
  /\ parse.left # <<>>
  /\ parse.name <= Len(Entry.pfNames)
  /\ parse' = [parse EXCEPT !.step = "copy"]
  /\ UNCHANGED <<vars, config, news, sriovConfig, tickVars, counters>>

(* The name is copied; from the second name on the map shows it already.    *)
(* The assignment to the map begins.                                        *)
StoreName ==
  /\ Running
  /\ parse.step = "copy"
  /\ parse' = [parse EXCEPT !.step = "store"]
  /\ sriovConfig' =
       IF parse.name = 1 THEN sriovConfig
       ELSE Put(sriovConfig, Entry.resource, Entry.pfNames[parse.name])
  /\ UNCHANGED <<vars, config, news, tickVars, counters>>

(* Bug: the first name of a resource is kept.                               *)
StoredFirst ==
  /\ Running
  /\ parse.step = "store"
  /\ parse' = [parse EXCEPT !.step = "next", !.name = @ + 1]
  /\ sriovConfig' = IF Entry.resource \in DOMAIN sriovConfig THEN sriovConfig
                    ELSE Put(sriovConfig, Entry.resource, Entry.pfNames[parse.name])
  /\ UNCHANGED <<vars, config, news, tickVars, counters>>

Stored ==
  /\ Running
  /\ parse.step = "store"
  /\ parse' = [parse EXCEPT !.step = "next", !.name = @ + 1]
  /\ sriovConfig' = Put(sriovConfig, Entry.resource, Entry.pfNames[parse.name])
  /\ UNCHANGED <<vars, config, news, tickVars, counters>>

(* The next entry, or the end of the list.                                  *)
NextEntry ==
  /\ Running
  /\ parse.step = "next"
  /\ parse.left # <<>> => parse.name > Len(Entry.pfNames)
  /\ parse' = IF parse.left = <<>> THEN Sends ELSE At("next", Tail(parse.left), 1)
  /\ UNCHANGED <<vars, config, news, sriovConfig, tickVars, counters>>

(* SriovUpdate or SriovDelete, either with the map itself.                  *)
SendConfig ==
  /\ parse.step = "send"
  /\ WatcherSend(configmap)
  /\ parse' = Waits
  /\ UNCHANGED <<config, news, sriovConfig, tickVars, counters>>

(* Bug: the other watchers do not wait for their messages to be received.   *)
SendOtherAgain(s) ==
  /\ s # configmap
  /\ BlockAgain(s)
  /\ UNCHANGED <<timeout, sleepers, main, serving, config, watcherVars, tickVars, counters>>

(* The other watchers.                                                      *)
SendOther(s) ==
  /\ s # configmap
  /\ WatcherSend(s)
  /\ UNCHANGED <<config, watcherVars, tickVars, counters>>

-----------------------------------------------------------------------------
(* The main loop. *)

Booted == BootDone /\ UNCHANGED <<config, watcherVars, tickVars, counters>>

(* The messages: a tick begins, the watcher's map takes the place of the    *)
(* one the main loop has, or an attachment comes or goes.                   *)
ReceiveTick ==
  /\ Receive
  /\ serving' = Timer
  /\ tick' = "range"
  /\ UNCHANGED <<config, watcherVars, shared, multusConfig, todo, counters>>

ReceiveConfig ==
  /\ Receive
  /\ serving' = configmap
  /\ shared' = TRUE
  /\ UNCHANGED <<config, watcherVars, multusConfig, tick, todo, counters>>

ReceiveOther(a) ==
  /\ Receive
  /\ serving' \notin {Timer, configmap}
  /\ \/ multusConfig' = Put(multusConfig, a, NoName)
     \/ multusConfig' = [b \in DOMAIN multusConfig \ {a} |-> multusConfig[b]]
  /\ UNCHANGED <<config, watcherVars, shared, tick, todo, counters>>

(* The range over the map, which is for a log line only, comes to its end.  *)
Ranged ==
  /\ Running
  /\ tick = "range"
  /\ tick' = "lookup"
  /\ todo' = DOMAIN multusConfig
  /\ UNCHANGED <<vars, config, watcherVars, shared, multusConfig, counters>>

(* The names a read of the map can give for r: none if it has no entry, and *)
(* while a name is copied into the entry, the old one, the new one, or one  *)
(* that is half of each.                                                    *)
Copying(r) == parse.step = "copy" /\ parse.name > 1 /\ Entry.resource = r

Readable(r) ==
  IF ~shared \/ r \notin DOMAIN sriovConfig THEN {}
  ELSE {sriovConfig[r]} \cup (IF Copying(r) THEN {Entry.pfNames[parse.name], Torn} ELSE {})

(* Bug: only an attachment without a name is given one.                     *)
LookupOnce(a) ==
  /\ Running
  /\ tick = "lookup"
  /\ a \in todo
  /\ todo' = todo \ {a}
  /\ IF multusConfig[a] # NoName \/ Readable(Attachment[a]) = {} THEN UNCHANGED multusConfig
     ELSE \E n \in Readable(Attachment[a]) : multusConfig' = Put(multusConfig, a, n)
  /\ UNCHANGED <<vars, config, watcherVars, shared, tick, counters>>

Lookup(a) ==
  /\ Running
  /\ tick = "lookup"
  /\ a \in todo
  /\ todo' = todo \ {a}
  /\ IF Readable(Attachment[a]) = {} THEN UNCHANGED multusConfig
     ELSE \E n \in Readable(Attachment[a]) : multusConfig' = Put(multusConfig, a, n)
  /\ UNCHANGED <<vars, config, watcherVars, shared, tick, counters>>

(* A read while the watcher's assignment is under way may find that out, or *)
(* meet a new entry that points nowhere yet.                                *)
Reading == tick = "range" \/ (tick = "lookup" /\ todo # {})

ConcurrentMapAccess ==
  /\ Reading
  /\ shared
  /\ parse.step = "store"
  /\ Crash
  /\ UNCHANGED <<config, watcherVars, tickVars, counters>>

(* A tick's further work is FscAgent's; a message needs no work.            *)
Worked ==
  /\ ~Reading
  /\ WorkDone
  /\ tick' = "none"
  /\ UNCHANGED <<config, watcherVars, shared, multusConfig, todo, counters>>

-----------------------------------------------------------------------------
(* The process ends for another reason.                                     *)
OtherCrash ==
  /\ crashes < MaxCrashes
  /\ crashes' = crashes + 1
  /\ Crash
  /\ UNCHANGED <<config, watcherVars, tickVars, changes>>

(* Bug: the main loop is given the watcher's map from the start.            *)
RestartedShared ==
  /\ Restart
  /\ news' = (config # Absent)
  /\ sriovConfig' = Empty
  /\ parse' = Waits
  /\ shared' = TRUE
  /\ multusConfig' = Empty
  /\ tick' = "none" /\ todo' = {}
  /\ UNCHANGED <<config, counters>>

(* Its informer lists the configmap.                                        *)
Restarted ==
  /\ Restart
  /\ news' = (config # Absent)
  /\ sriovConfig' = Empty
  /\ parse' = Waits
  /\ shared' = FALSE
  /\ multusConfig' = Empty
  /\ tick' = "none" /\ todo' = {}
  /\ UNCHANGED <<config, counters>>

TimerStep(step) == step /\ UNCHANGED <<config, watcherVars, tickVars, counters>>

Watch == Take \/ CopyName \/ StoreName \/ Stored \/ NextEntry \/ SendConfig

MainLoop ==
  \/ Booted
  \/ ReceiveTick \/ ReceiveConfig \/ \E a \in DOMAIN Attachment : ReceiveOther(a)
  \/ Ranged
  \/ \E a \in DOMAIN multusConfig : Lookup(a)
  \/ Worked

ProcessNext ==
  \/ \E c \in Configs : ConfigChange(c)
  \/ TimerStep(TimerExpires) \/ TimerStep(TimerSend)
  \/ Watch
  \/ \E s \in Watcher : SendOther(s)
  \/ MainLoop
  \/ ConcurrentMapAccess \/ OtherCrash
  \/ Restarted

(* As in WorkLoop: the goroutines run, the API server is there in the end,  *)
(* and the container is restarted.                                          *)
ProcessFairness ==
  /\ WF_processVars(TimerStep(TimerExpires)) /\ WF_processVars(TimerStep(TimerSend))
  /\ WF_processVars(Watch)
  /\ WF_processVars(MainLoop)
  /\ WF_processVars(Restarted)

ProcessSpec == ProcessInit /\ [][ProcessNext]_processVars /\ ProcessFairness

-----------------------------------------------------------------------------
Steps == {"wait", "next", "copy", "store", "send"}

ProcessTypeOK ==
  /\ config \in Configs
  /\ news \in BOOLEAN
  /\ sriovConfig \in [DOMAIN sriovConfig -> Name] /\ DOMAIN sriovConfig \subseteq Resource
  /\ parse.step \in Steps /\ parse.name \in Nat
  /\ parse.step \in {"copy", "store"} => parse.left # <<>> /\ parse.name \in 1..Len(Entry.pfNames)
  /\ shared \in BOOLEAN
  /\ multusConfig \in [DOMAIN multusConfig -> Name \cup {NoName, Torn}]
  /\ DOMAIN multusConfig \subseteq DOMAIN Attachment
  /\ tick \in {"none", "range", "lookup"}
  /\ todo \subseteq DOMAIN multusConfig

(* The interface the configmap gives a resource: the last one of its last   *)
(* entry that has one; NoName if there is none.                             *)
NamedLast(c, i) ==
  /\ c[i].pfNames # <<>>
  /\ \A j \in (i + 1)..Len(c) : c[j].resource = c[i].resource => c[j].pfNames = <<>>

NameIn(c, r) ==
  LET naming == {i \in 1..Len(c) : c[i].resource = r /\ NamedLast(c, i)} IN
  IF naming = {} THEN NoName
  ELSE LET last == CHOOSE i \in naming : TRUE IN c[last].pfNames[Len(c[last].pfNames)]

(* When the watcher has nothing left to do, its map gives every resource of *)
(* the configmap the last of its interfaces, although all names of an entry *)
(* go through one variable to which the map points (sriov.go:27-31).        *)
MapFollowsConfig ==
  Running /\ parse = Waits /\ ~news /\ Parses(config) =>
    \A r \in Resource : NameIn(config, r) # NoName =>
      r \in DOMAIN sriovConfig /\ sriovConfig[r] = NameIn(config, r)

(* Once the configmap is stable, every tick works with the interface it     *)
(* gives: a name read half written or too early lasts until the next tick,  *)
(* and the process started after a crash finds them all again.              *)
TickEnds == Worked /\ serving = Timer

Named ==
  \A a \in DOMAIN multusConfig :
    Parses(config) /\ NameIn(config, Attachment[a]) # NoName =>
      multusConfig[a] = NameIn(config, Attachment[a])

EventuallyNamed == <>[][TickEnds => Named']_processVars

(* There is no crash loop: a process started while the configmap is stable  *)
(* has filled the map before its main loop gets to see it                   *)
(* (configmap_controller.go:152-161).                                       *)
EventuallySteady == <>[]Running

(* "Run the controllers. This runs indefinitely." (controller.go:58): the   *)
(* agent does not end of itself.                                            *)
RunsIndefinitely == crashes = 0 => Running

(* "SriovDelete indicates a delete of the sriov information" (message.go:14, *)
(* where the code sends what it had): without a configmap no attachment     *)
(* that comes is given an interface.                                        *)
EventuallyForgotten ==
  <>[](config = Absent) => <>[][TickEnds => \A a \in DOMAIN multusConfig : multusConfig'[a] = NoName]_processVars

(* The process is a WorkLoop, whose senders do the work they have.          *)
Loop == INSTANCE WorkLoop WITH
          Watcher <- Watcher, Timer <- Timer, sendq <- sendq, sender <- sender,
          timeout <- timeout, sleepers <- sleepers, main <- main, serving <- serving

ImplementsWorkLoop == Loop!Spec
=============================================================================
