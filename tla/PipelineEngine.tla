--------------------------- MODULE PipelineEngine ---------------------------
(* PipelineEngine of the media crate: a map of chains under a lock, a flag    *)
(* that is read and swapped outside of it, a task per started chain and one   *)
(* shutdown signal all tasks watch.  Callers on several threads add and       *)
(* remove chains while others start and stop the engine.                      *)
EXTENDS Naturals, FiniteSets

CONSTANTS
  EngineCallers,  \* threads that call the engine
  ChainIds,
  MaxChains,      \* bound: chains made
  MaxEngineCalls  \* bound: calls of start and stop

ASSUME PipelineEngineAssumption == MaxChains \in Nat /\ MaxEngineCalls \in Nat

VARIABLES
  engineRunning,  \* the flag
  shutdownSent,   \* the value of the watch channel
  chainAt,        \* chainAt[id]: the chain registered under id, 0 none
  nodesTaken,     \* chains whose source, processors and sinks were moved out
  chainTask,      \* chainTask[c]: "none", "run", "ended"
  taskAborted,    \* chains whose task was aborted
  taskHandles,    \* chains whose map entry holds the task
  watching,       \* chains whose task holds a receiver of the signal
  nTasks,         \* ghost: nTasks[c]: tasks made from the nodes of c
  sinkSaw,        \* sinkSaw[c]: what its sinks last got: "none", "data", "end"
  enginePc,       \* enginePc[k]: where caller k is: "idle", "spawn", "list", "each",
                  \*   "send", "collect", "wait"
  spawning,       \* spawning[k]: ids caller k still has to spawn
  awaited,        \* awaited[k]: tasks caller k waits for
  nChains, nEngineCalls

engineVars == <<engineRunning, shutdownSent, chainAt, nodesTaken, chainTask, taskAborted, taskHandles,
                watching, nTasks, sinkSaw, enginePc, spawning, awaited, nChains, nEngineCalls>>
taskState == <<nodesTaken, chainTask, taskAborted, taskHandles, watching, nTasks, sinkSaw>>

Chains == 1 .. MaxChains
Registered == {chainAt[id] : id \in ChainIds} \ {0}

EngineTypeOK ==
  /\ engineRunning \in BOOLEAN /\ shutdownSent \in BOOLEAN /\ \A id \in ChainIds : chainAt[id] \in 0 .. nChains
  /\ \A c \in Chains : chainTask[c] \in {"none", "run", "ended"}
  /\ watching \subseteq nodesTaken /\ taskHandles \subseteq nodesTaken /\ nodesTaken \subseteq Chains
  /\ \A k \in EngineCallers : awaited[k] \subseteq Chains /\ spawning[k] \subseteq ChainIds

EngineInit ==
  /\ engineRunning = FALSE /\ shutdownSent = FALSE /\ chainAt = [id \in ChainIds |-> 0]
  /\ nodesTaken = {} /\ chainTask = [c \in Chains |-> "none"] /\ taskAborted = {} /\ taskHandles = {}
  /\ watching = {} /\ nTasks = [c \in Chains |-> 0] /\ sinkSaw = [c \in Chains |-> "none"]
  /\ enginePc = [k \in EngineCallers |-> "idle"]
  /\ spawning = [k \in EngineCallers |-> {}] /\ awaited = [k \in EngineCallers |-> {}]
  /\ nChains = 0 /\ nEngineCalls = 0

Steps(k, from, to) == enginePc[k] = from /\ enginePc' = [enginePc EXCEPT ![k] = to]

-----------------------------------------------------------------------------
(* spawn_chain, under the lock.  It fails when the id is gone or its nodes    *)
(* were moved out before.                                                     *)
Spawnable(id) == chainAt[id] # 0 /\ chainAt[id] \notin nodesTaken

MakeTask(c) ==
  /\ nodesTaken' = nodesTaken \cup {c} /\ chainTask' = [chainTask EXCEPT ![c] = "run"]
  /\ watching' = watching \cup {c} /\ nTasks' = [nTasks EXCEPT ![c] = @ + 1]
  /\ taskHandles' = taskHandles \cup {c} /\ UNCHANGED <<taskAborted, sinkSaw>>

(* Wrong variant: the nodes stay in the map and are used again.               *)
SpawnFromMap(id) == IF chainAt[id] # 0 THEN MakeTask(chainAt[id]) ELSE UNCHANGED taskState

SpawnChain(id) == IF Spawnable(id) THEN MakeTask(chainAt[id]) ELSE UNCHANGED taskState

(* add_chain: insertion and the look at the flag under the lock, which is     *)
(* released before the chain is spawned.                                      *)
AddChain(k, id) ==
  /\ chainAt[id] = 0 /\ nChains < MaxChains /\ nChains' = nChains + 1
  /\ chainAt' = [chainAt EXCEPT ![id] = nChains'] /\ spawning' = [spawning EXCEPT ![k] = {id}]
  /\ Steps(k, "idle", IF engineRunning THEN "spawn" ELSE "idle")
  /\ UNCHANGED <<engineRunning, shutdownSent, taskState, awaited, nEngineCalls>>

AddSpawns(k) ==
  /\ Steps(k, "spawn", "idle") /\ \A id \in spawning[k] : SpawnChain(id)
  /\ UNCHANGED <<engineRunning, shutdownSent, chainAt, spawning, awaited, nChains, nEngineCalls>>

(* remove_chain aborts the task: it ends at its next await, without on_stop.  *)
RemoveChain(k, id) ==
  /\ enginePc[k] = "idle" /\ chainAt[id] # 0 /\ chainAt' = [chainAt EXCEPT ![id] = 0]
  /\ taskAborted' = IF chainAt[id] \in taskHandles THEN taskAborted \cup {chainAt[id]} ELSE taskAborted
  /\ taskHandles' = taskHandles \ {chainAt[id]}
  /\ UNCHANGED <<engineRunning, shutdownSent, nodesTaken, chainTask, watching, nTasks, sinkSaw,
                 enginePc, spawning, awaited, nChains, nEngineCalls>>

-----------------------------------------------------------------------------
(* start: nothing when the flag was set; else every id there is, one lock     *)
(* each, and none after the first that cannot be spawned.                     *)
StartEngine(k) ==
  /\ nEngineCalls < MaxEngineCalls /\ nEngineCalls' = nEngineCalls + 1 /\ engineRunning' = TRUE
  /\ Steps(k, "idle", IF engineRunning THEN "idle" ELSE "list")
  /\ UNCHANGED <<shutdownSent, chainAt, taskState, spawning, awaited, nChains>>

ListChains(k) ==
  /\ Steps(k, "list", "each") /\ spawning' = [spawning EXCEPT ![k] = {id \in ChainIds : chainAt[id] # 0}]
  /\ UNCHANGED <<engineRunning, shutdownSent, chainAt, taskState, awaited, nChains, nEngineCalls>>

SpawnNext(k) ==
  /\ \/ spawning[k] = {} /\ Steps(k, "each", "idle") /\ UNCHANGED <<spawning, taskState>>
     \/ \E id \in spawning[k] :
          /\ SpawnChain(id) /\ spawning' = [spawning EXCEPT ![k] = IF Spawnable(id) THEN @ \ {id} ELSE {}]
          /\ Steps(k, "each", IF Spawnable(id) THEN "each" ELSE "idle")
  /\ UNCHANGED <<engineRunning, shutdownSent, chainAt, awaited, nChains, nEngineCalls>>

(* stop: the signal is kept only when some task is there to receive it.       *)
StopEngine(k) ==
  /\ nEngineCalls < MaxEngineCalls /\ nEngineCalls' = nEngineCalls + 1 /\ engineRunning' = FALSE
  /\ Steps(k, "idle", IF engineRunning THEN "send" ELSE "idle")
  /\ UNCHANGED <<shutdownSent, chainAt, taskState, spawning, awaited, nChains>>

SendShutdown(k) ==
  /\ Steps(k, "send", "collect") /\ shutdownSent' = (shutdownSent \/ watching # {})
  /\ UNCHANGED <<engineRunning, chainAt, taskState, spawning, awaited, nChains, nEngineCalls>>

CollectTasks(k) ==
  /\ Steps(k, "collect", "wait") /\ awaited' = [awaited EXCEPT ![k] = taskHandles \cap Registered]
  /\ taskHandles' = taskHandles \ Registered
  /\ UNCHANGED <<engineRunning, shutdownSent, chainAt, nodesTaken, chainTask, taskAborted, watching, nTasks,
                 sinkSaw, spawning, nChains, nEngineCalls>>

(* Each task is waited for at most a second.                                  *)
StopReturns(k) ==
  /\ Steps(k, "wait", "idle") /\ awaited' = [awaited EXCEPT ![k] = {}]
  /\ UNCHANGED <<engineRunning, shutdownSent, chainAt, taskState, spawning, nChains, nEngineCalls>>

-----------------------------------------------------------------------------
(* run_chain.  The signal is looked at once per turn; a turn without a        *)
(* fragment yields, and there alone an abort takes effect.                    *)
TaskEnd(c) ==
  /\ chainTask[c] = "run" /\ chainTask' = [chainTask EXCEPT ![c] = "ended"] /\ watching' = watching \ {c}
  /\ UNCHANGED <<engineRunning, shutdownSent, chainAt, nodesTaken, taskAborted, taskHandles, nTasks, sinkSaw,
                 enginePc, spawning, awaited, nChains, nEngineCalls>>

SeesShutdown(c) == shutdownSent /\ TaskEnd(c)
AbortTakesEffect(c) == c \in taskAborted /\ TaskEnd(c)

(* A processor that fails turns the fragment into the end of a track, and the *)
(* chain goes on.                                                             *)
Process(c) ==
  /\ chainTask[c] = "run" /\ ~shutdownSent
  /\ \E what \in {"data", "end"} : sinkSaw' = [sinkSaw EXCEPT ![c] = what]
  /\ UNCHANGED <<engineRunning, shutdownSent, chainAt, nodesTaken, chainTask, taskAborted, taskHandles,
                 watching, nTasks, enginePc, spawning, awaited, nChains, nEngineCalls>>

EngineNext ==
  \/ \E k \in EngineCallers : \/ AddSpawns(k) \/ StartEngine(k) \/ ListChains(k) \/ SpawnNext(k)
                              \/ StopEngine(k) \/ SendShutdown(k) \/ CollectTasks(k) \/ StopReturns(k)
                              \/ \E id \in ChainIds : AddChain(k, id) \/ RemoveChain(k, id)
  \/ \E c \in Chains : SeesShutdown(c) \/ AbortTakesEffect(c) \/ Process(c)

EngineSpec == EngineInit /\ [][EngineNext]_engineVars

-----------------------------------------------------------------------------
EngineAtRest == \A k \in EngineCallers : enginePc[k] = "idle"

(* The nodes of a chain are run by one task, whoever spawns it; the map holds *)
(* the tasks of the chains registered now, and none that was aborted: an id   *)
(* used again does not inherit the end of the chain removed.                  *)
OneTaskPerChain ==
  /\ \A c \in Chains : nTasks[c] <= 1
  /\ taskHandles \subseteq Registered /\ taskAborted \cap Registered = {}

(* "If the engine is already running, the chain starts immediately"           *)
(* (engine.rs:72).  Does not hold: a chain added while start runs may be      *)
(* spawned by both, the second refusal ends start, and the ids it had left    *)
(* are never spawned.                                                         *)
RunningChainsStarted == engineRunning /\ EngineAtRest => Registered \subseteq nodesTaken

(* After stop no task goes on ("Stop all chains gracefully", engine.rs:134).      *)
(* Does not hold: a chain spawned after an unheard signal runs on.            *)
StoppedMeansStopped ==
  ~engineRunning /\ EngineAtRest => \A c \in Chains : chainTask[c] = "run" => shutdownSent \/ c \in taskAborted

(* Sinks get nothing after the end of the track.  Does not hold: a processor  *)
(* that failed once may do the next fragment.                                 *)
EndIsTheEnd == [][\A c \in Chains : sinkSaw[c] = "end" => sinkSaw'[c] = "end"]_engineVars
=============================================================================
