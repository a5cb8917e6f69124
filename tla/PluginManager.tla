---------------------------- MODULE PluginManager ----------------------------
(***************************************************************************)
(* The plugin manager of internal/plugin/manager/manager.go in one server  *)
(* process: the map of managed plugins under its lock, and the starts and  *)
(* stops that work on a plugin after they have let go of the lock.         *)
(***************************************************************************)
EXTENDS Naturals, FiniteSets

CONSTANTS
  Key,     \* plugins
  Req,     \* goroutines that serve requests
  MaxLoads \* bound: times one process loads a plugin

ASSUME PluginAssumption == MaxLoads \in Nat \ {0}

VARIABLES
  up,      \* whether the process runs
  files,   \* files[k]: its .so file: "none", "part" while it is copied, "whole"
  plugins, \* plugins[k]: which load of k is in m.plugins, 0 when none is
  loads,   \* loads[k]: times k was loaded
  state,   \* state[k][g]: State of the ManagedPlugin of the g-th load
  running, \* the plugins that were started and not stopped since
  pending, \* plugins with an event handed to a goroutine of EmitEvent
  pc,      \* pc[q]: what request q does next, "idle" when it is over
  key,     \* key[q]: the plugin it is about
  ptr,     \* ptr[q]: the load whose ManagedPlugin it has looked up
  crossed  \* history: plugins on which two operations overlapped, or whose Stop
           \* has failed

managed  == <<plugins, loads, state>>
reqVars  == <<pc, key, ptr>>
procVars == <<up, running, pending, crossed>>

State == {"LOADED", "STARTED", "STOPPED", "ERROR"}
StartStop == {"init", "start", "started", "stop", "stopped"}

ManagerInit ==
  /\ up = FALSE
  /\ files = [k \in Key |-> "none"]
  /\ plugins = [k \in Key |-> 0]
  /\ loads = [k \in Key |-> 0]
  /\ state = [k \in Key |-> [g \in 1 .. MaxLoads |-> "LOADED"]]
  /\ running = {} /\ pending = {} /\ crossed = {}
  /\ pc = [q \in Req |-> "idle"]
  /\ key \in [Req -> Key]
  /\ ptr = [q \in Req |-> 0]

Busy(k) == {q \in Req : pc[q] \in StartStop /\ key[q] = k}
Ends(q) == pc' = [pc EXCEPT ![q] = "idle"] /\ ptr' = [ptr EXCEPT ![q] = 0] /\ UNCHANGED key
Goes(q, l) == pc' = [pc EXCEPT ![q] = l] /\ UNCHANGED <<key, ptr>>
SetState(q, s) == state' = [state EXCEPT ![key[q]][ptr[q]] = s]
Crosses(k) == crossed' = IF Busy(k) # {} THEN crossed \cup {k} ELSE crossed
-----------------------------------------------------------------------------
\* LoadPlugin for each k of ks, whole, under the lock; plugin.Open may fail.
Loads(ks) ==
  LET new == {k \in ks : plugins[k] = 0 /\ loads[k] < MaxLoads}
  IN  /\ plugins' = [k \in Key |-> IF k \in new THEN loads[k] + 1 ELSE plugins[k]]
      /\ loads' = [k \in Key |-> IF k \in new THEN loads[k] + 1 ELSE loads[k]]
      /\ state' = [k \in Key |-> [g \in 1 .. MaxLoads |->
                     IF k \in new /\ g = loads[k] + 1 THEN "LOADED" ELSE state[k][g]]]

\* The process starts; with AutoLoad it loads what is in the directory.
LoadAll ==
  /\ ~up /\ up' = TRUE
  /\ \E ks \in SUBSET {k \in Key : files[k] = "whole"} : Loads(ks)
  /\ UNCHANGED <<files, running, pending, crossed, reqVars>>

LoadPlugin(k) ==
  /\ up /\ files[k] = "whole" /\ plugins[k] = 0 /\ loads[k] < MaxLoads
  /\ Loads({k})
  /\ UNCHANGED <<files, procVars, reqVars>>
-----------------------------------------------------------------------------
\* StartPlugin and StopPlugin: the look-up, under the lock ...
LookUp(q, k, l) ==
  /\ up /\ pc[q] = "idle" /\ plugins[k] # 0
  /\ pc' = [pc EXCEPT ![q] = l]
  /\ key' = [key EXCEPT ![q] = k]
  /\ ptr' = [ptr EXCEPT ![q] = plugins[k]]
  /\ Crosses(k)
  /\ UNCHANGED <<files, managed, up, running, pending>>

\* ... the rest without it: nothing to do when started, else Init ...
StartInit(q) ==
  /\ pc[q] = "init"
  /\ \/ state[key[q]][ptr[q]] = "STARTED" /\ Ends(q) /\ UNCHANGED state
     \/ state[key[q]][ptr[q]] # "STARTED" /\ Goes(q, "start") /\ UNCHANGED state
     \/ state[key[q]][ptr[q]] # "STARTED" /\ SetState(q, "ERROR") /\ Ends(q)
  /\ UNCHANGED <<files, plugins, loads, procVars>>

\* ... Start ...
StartStart(q) ==
  /\ pc[q] = "start"
  /\ \/ running' = running \cup {key[q]} /\ Goes(q, "started") /\ UNCHANGED state
     \/ SetState(q, "ERROR") /\ Ends(q) /\ UNCHANGED running
  /\ UNCHANGED <<files, plugins, loads, up, pending, crossed>>

\* ... and the new state.
StartDone(q) ==
  /\ pc[q] = "started"
  /\ SetState(q, "STARTED") /\ Ends(q)
  /\ UNCHANGED <<files, plugins, loads, procVars>>

\* Mutant: StopPlugin takes a failed Stop for a stop.
StopIgnoresError(q) ==
  /\ pc[q] = "stop" /\ state[key[q]][ptr[q]] = "STARTED"
  /\ Goes(q, "stopped")
  /\ \/ running' = running \ {key[q]}
     \/ UNCHANGED running
  /\ UNCHANGED <<files, managed, up, pending, crossed>>

StopStop(q) ==
  /\ pc[q] = "stop"
  /\ \/ /\ state[key[q]][ptr[q]] # "STARTED" /\ Ends(q)
        /\ UNCHANGED <<state, running, crossed>>
     \/ /\ state[key[q]][ptr[q]] = "STARTED" /\ Goes(q, "stopped")
        /\ running' = running \ {key[q]}
        /\ UNCHANGED <<state, crossed>>
     \/ /\ state[key[q]][ptr[q]] = "STARTED"
        /\ SetState(q, "ERROR") /\ Ends(q)
        /\ crossed' = crossed \cup {key[q]}
        /\ UNCHANGED running
  /\ UNCHANGED <<files, plugins, loads, up, pending>>

StopDone(q) ==
  /\ pc[q] = "stopped"
  /\ SetState(q, "STOPPED") /\ Ends(q)
  /\ UNCHANGED <<files, plugins, loads, procVars>>
-----------------------------------------------------------------------------
\* Stop is called for the plugins of the map that are started; the ones in
\* failed do not stop, which is only logged.
StopAll(ks, failed) ==
  LET on == {k \in ks : plugins[k] # 0 /\ state[k][plugins[k]] = "STARTED"}
  IN  /\ running' = running \ (on \ failed)
      /\ plugins' = [k \in Key |-> IF k \in ks THEN 0 ELSE plugins[k]]
      /\ crossed' = crossed \cup (on \cap failed) \cup {k \in ks : Busy(k) # {}}

\* UnloadPlugin, under the lock throughout.
UnloadPlugin(k) ==
  /\ up /\ plugins[k] # 0
  /\ \E failed \in SUBSET {k} : StopAll({k}, failed)
  /\ UNCHANGED <<files, loads, state, up, pending, reqVars>>

\* EmitEvent, to the started plugins; each one's handler runs in a goroutine.
EmitEvent ==
  /\ up
  /\ pending' = pending \cup {k \in Key : plugins[k] # 0 /\ state[k][plugins[k]] = "STARTED"}
  /\ UNCHANGED <<files, managed, up, running, crossed, reqVars>>

HandleEvent(k) ==
  /\ up /\ k \in pending
  /\ pending' = pending \ {k}
  /\ UNCHANGED <<files, managed, up, running, crossed, reqVars>>

\* Shutdown, from the application's OnStop.
Shutdown ==
  /\ up
  /\ \E failed \in SUBSET Key : StopAll(Key, failed)
  /\ UNCHANGED <<files, loads, state, up, pending, reqVars>>

\* The process ends, by itself or not: only the files stay.
Exit ==
  /\ up /\ up' = FALSE
  /\ plugins' = [k \in Key |-> 0]
  /\ loads' = [k \in Key |-> 0]
  /\ state' = [k \in Key |-> [g \in 1 .. MaxLoads |-> "LOADED"]]
  /\ running' = {} /\ pending' = {} /\ crossed' = {}
  /\ pc' = [q \in Req |-> "idle"]
  /\ ptr' = [q \in Req |-> 0]
  /\ UNCHANGED <<files, key>>

\* The GraphQL mutations enablePlugin and disablePlugin call the manager.
ResolvePlugin(q) == \E k \in Key : LookUp(q, k, "init") \/ LookUp(q, k, "stop")

ManagerStep(q) == StartInit(q) \/ StartStart(q) \/ StartDone(q) \/ StopStop(q) \/ StopDone(q)

ManagerNext ==
  \/ LoadAll \/ EmitEvent \/ Shutdown
  \/ \E k \in Key : LoadPlugin(k) \/ UnloadPlugin(k) \/ HandleEvent(k)
  \/ \E q \in Req : ResolvePlugin(q) \/ ManagerStep(q)
-----------------------------------------------------------------------------
(* Properties.                                                             *)

ManagerTypeOK ==
  /\ up \in BOOLEAN
  /\ files \in [Key -> {"none", "part", "whole"}]
  /\ plugins \in [Key -> 0 .. MaxLoads] /\ loads \in [Key -> 0 .. MaxLoads]
  /\ state \in [Key -> [1 .. MaxLoads -> State]]
  /\ running \subseteq Key /\ pending \subseteq Key /\ crossed \subseteq Key
  /\ key \in [Req -> Key] /\ ptr \in [Req -> 0 .. MaxLoads]

\* The state the manager reports is the plugin's own: outside an operation on
\* it, a plugin runs exactly if the map holds it as STARTED, across failed
\* starts, unloads and reloads.  The lock is not held while a plugin is
\* started or stopped, so this is lost once two operations on the plugin
\* overlap, and once a Stop has failed.
StateTruthful ==
  \A k \in Key \ crossed :
    Busy(k) = {} => (k \in running <=> plugins[k] # 0 /\ state[k][plugins[k]] = "STARTED")
=============================================================================
