----------------------------- MODULE HostMonitor -----------------------------
(* The monitors of host-agent: TopologyMonitor compares the processes and     *)
(* publishers host.toml asks for with what oxmgr and the frame bus list;      *)
(* FlowMonitor subscribes to every camera and to the statistics of every      *)
(* stream, and a task per subscription fills a window that each report reads  *)
(* and resets.                                                                *)
EXTENDS Naturals

CONSTANTS
  MonCameras, MonStreams, \* cameras and streams of host.toml
  MonProcesses,           \* and the processes it expects
  StallAfter,             \* threshold of a stall, in ticks
  Freshness,              \* STATS_FRESHNESS
  Grace,                  \* DEFAULT_GRACE
  MaxMonTime,             \* bound: ticks
  MaxMonFrames            \* bound: frames per camera

ASSUME HostMonitorAssumption ==
  /\ StallAfter \in Nat \ {0} /\ Freshness \in Nat \ {0} /\ Grace \in Nat
  /\ MaxMonTime \in Nat \ {0} /\ MaxMonFrames \in Nat

VARIABLES
  monTime,
  monitor,                 \* "attach", or what is collected next: "topology", "flow"
  liveTopics,              \* cameras with a publisher on the bus
  upProcesses,             \* processes oxmgr has running
  listens,                 \* cameras FlowMonitor is subscribed to
  listensStats,            \* and streams
  windowFrames, windowTs,  \* frames and last_ts of the window; 0 none
  lastArrival,             \* last_arrival, 0 none
  lastStats,               \* last_stats, 0 none
  topology,                \* the last topology snapshot
  flow,                    \* the last flow snapshot
  frameStamp,              \* ghost: time stamp of the last frame that came
  frameAt, statsAt,        \* ghost: when the last frame and statistics came
  framesReceived, reported \* ghost: frames framesReceived, and reported by all snapshots

monitorVars == <<monTime, monitor, liveTopics, upProcesses, listens, listensStats, windowFrames, windowTs,
                 lastArrival, lastStats, topology, flow, frameStamp, frameAt, statsAt, framesReceived, reported>>
windowState == <<windowFrames, windowTs, lastArrival, lastStats, frameStamp, frameAt, statsAt, framesReceived>>
plantState == <<liveTopics, upProcesses>>

NoTopology == [taken |-> FALSE, missing |-> {}, silent |-> {}, grace |-> TRUE, published |-> {}]
NoFlow == [at |-> 0, frames |-> [c \in MonCameras |-> 0], stamp |-> [c \in MonCameras |-> 0],
           stalled |-> {}, connected |-> {}]

MonitorTypeOK ==
  /\ monitor \in {"attach", "topology", "flow"} /\ monTime \in 1 .. MaxMonTime
  /\ liveTopics \subseteq MonCameras /\ upProcesses \subseteq MonProcesses
  /\ listens \subseteq MonCameras /\ listensStats \subseteq MonStreams
  /\ \A c \in MonCameras : windowFrames[c] \in 0 .. MaxMonFrames /\ lastArrival[c] <= monTime
  /\ topology.missing \subseteq MonProcesses /\ flow.stalled \subseteq MonCameras

MonitorInit ==
  /\ monTime = 1 /\ monitor = "attach" /\ liveTopics = {} /\ upProcesses = {}
  /\ listens = {} /\ listensStats = {}
  /\ windowFrames = [c \in MonCameras |-> 0] /\ windowTs = windowFrames /\ lastArrival = windowFrames
  /\ frameStamp = windowFrames /\ frameAt = windowFrames /\ framesReceived = windowFrames
  /\ reported = windowFrames /\ lastStats = [s \in MonStreams |-> 0] /\ statsAt = lastStats
  /\ topology = NoTopology /\ flow = NoFlow

-----------------------------------------------------------------------------
(* The vehicle: processes come and go, and with a capturer its publisher.     *)
MonitorTick ==
  /\ monTime < MaxMonTime /\ monTime' = monTime + 1
  /\ UNCHANGED <<monitor, plantState, listens, listensStats, windowState, topology, flow, reported>>
PublisherComes(c) ==
  /\ liveTopics' = IF c \in liveTopics THEN liveTopics \ {c} ELSE liveTopics \cup {c}
  /\ UNCHANGED <<monTime, monitor, upProcesses, listens, listensStats, windowState, topology, flow, reported>>
ProcessChanges(p) ==
  /\ upProcesses' = IF p \in upProcesses THEN upProcesses \ {p} ELSE upProcesses \cup {p}
  /\ UNCHANGED <<monTime, monitor, liveTopics, listens, listensStats, windowState, topology, flow, reported>>

(* attach_with_stall: a subscription that fails is logged and never retried.  *)
AttachFlow ==
  /\ monitor = "attach" /\ monitor' = "topology"
  /\ listens' \in SUBSET MonCameras /\ listensStats' \in SUBSET MonStreams
  /\ UNCHANGED <<monTime, plantState, windowState, topology, flow, reported>>

(* spawn_frame_drain: the time stamp is the one of the publisher.             *)
FrameArrives(c) ==
  /\ c \in liveTopics \cap listens /\ framesReceived[c] < MaxMonFrames
  /\ framesReceived' = [framesReceived EXCEPT ![c] = @ + 1] /\ frameStamp' = [frameStamp EXCEPT ![c] = monTime]
  /\ frameAt' = [frameAt EXCEPT ![c] = monTime]
  /\ windowFrames' = [windowFrames EXCEPT ![c] = @ + 1] /\ windowTs' = [windowTs EXCEPT ![c] = monTime]
  /\ lastArrival' = [lastArrival EXCEPT ![c] = monTime]
  /\ UNCHANGED <<monTime, monitor, plantState, listens, listensStats, lastStats, statsAt, topology, flow, reported>>

(* spawn_stats_drain.                                                         *)
StatsArrive(s) ==
  /\ s \in listensStats /\ lastStats' = [lastStats EXCEPT ![s] = monTime]
  /\ statsAt' = [statsAt EXCEPT ![s] = monTime]
  /\ UNCHANGED <<monTime, monitor, plantState, listens, listensStats, windowFrames, windowTs, lastArrival,
                 frameStamp, frameAt, framesReceived, topology, flow, reported>>

-----------------------------------------------------------------------------
(* list_topics counts every node at the service, the subscriber of the        *)
(* monitor among them.                                                        *)
ActualTopics == liveTopics \cup listens

(* TopologyMonitor::collect and diff.  An oxmgr or a bus that cannot be asked *)
(* lists nothing.                                                             *)
CollectTopology ==
  /\ monitor = "topology" /\ monitor' = "flow"
  /\ \E procs \in {upProcesses, {}}, topics \in {ActualTopics, {}} :
       topology' = [taken |-> TRUE, missing |-> MonProcesses \ procs, silent |-> MonCameras \ topics,
                    grace |-> monTime <= Grace, published |-> liveTopics]
  /\ UNCHANGED <<monTime, plantState, listens, listensStats, windowState, flow, reported>>

Overdue(at, limit) == at = 0 \/ monTime - at > limit

ResetWindow ==
  /\ windowFrames' = [c \in MonCameras |-> 0] /\ windowTs' = windowFrames' /\ UNCHANGED lastArrival

(* FlowMonitor::collect.                                                      *)
CollectFlow ==
  /\ monitor = "flow" /\ monitor' = "topology"
  /\ flow' = [at |-> monTime, frames |-> windowFrames, stamp |-> windowTs,
              stalled |-> {c \in listens : Overdue(lastArrival[c], StallAfter)},
              connected |-> {s \in listensStats : lastStats[s] # 0 /\ monTime - lastStats[s] < Freshness}]
  /\ reported' = [c \in MonCameras |-> reported[c] + windowFrames[c]] /\ ResetWindow
  /\ UNCHANGED <<monTime, plantState, listens, listensStats, lastStats, topology, frameStamp, frameAt, statsAt, framesReceived>>

MonitorNext ==
  \/ MonitorTick \/ AttachFlow \/ CollectTopology \/ CollectFlow
  \/ \E c \in MonCameras : PublisherComes(c) \/ FrameArrives(c)
  \/ \E p \in MonProcesses : ProcessChanges(p)
  \/ \E s \in MonStreams : StatsArrive(s)

MonitorSpec == MonitorInit /\ [][MonitorNext]_monitorVars

-----------------------------------------------------------------------------
(* Every frame is counted by one report; when a report is made, the cameras   *)
(* it calls stalled are the ones whose last frame, in whichever window it     *)
(* came, is too old, and the streams it calls connected had news of late.     *)
FlowTruth ==
  /\ \A c \in MonCameras : framesReceived[c] = reported[c] + windowFrames[c]
  /\ flow.at = monTime =>
       /\ \A c \in listens : c \in flow.stalled => frameAt[c] = 0 \/ monTime - frameAt[c] > StallAfter
                                                    \/ windowFrames[c] > 0
       /\ \A c \in listens \ flow.stalled : frameAt[c] # 0 /\ monTime - frameAt[c] <= StallAfter
       /\ \A s \in flow.connected : monTime - statsAt[s] < Freshness

(* PublisherMissing: "期望相机 topic 无活跃连接（发布端进程活着但总线无发布者）"       *)
(* (topology.rs:25).  Does not hold: the monitor's own subscriber keeps the   *)
(* topic alive, so a camera without a publisher is never reported.            *)
DeadPublisherReported ==
  topology.taken /\ ~topology.grace => MonCameras \ topology.published \subseteq topology.silent

(* last_ts_mono_ns: time stamp of the last frame, 0 only if there was none    *)
(* (flow.rs:41).  Does not hold: it is 0 after every window without a frame.  *)
LastStampKept == flow.at = monTime => \A c \in MonCameras : flow.stamp[c] = 0 => frameStamp[c] = 0
=============================================================================
