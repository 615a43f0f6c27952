---------------------------- MODULE HostStreamer ----------------------------
(* host-streamer: camera frames from the bus into the published track, with a *)
(* watchdog on the frames; and, over a peer connection of its own, the vision *)
(* results of the camera into a data channel for the cockpit.  host-capturer  *)
(* is the source of the frames.                                               *)
EXTENDS Naturals, Sequences, Functions

CONSTANTS
  FrameTimeout,    \* NO_FRAME_TIMEOUT, in ticks
  VisionTimeout,   \* VISION_NEGOTIATE_TIMEOUT
  AnsweredFor,     \* the hour the deadline is moved by once the answer is there
  VisionKept,      \* capacity of the event channel of a signalling session (64)
  MaxVisionEvents  \* bound: signalling events of the vision session

ASSUME HostStreamerAssumption ==
  /\ FrameTimeout \in Nat \ {0} /\ VisionTimeout \in Nat \ {0} /\ AnsweredFor \in Nat \ {0}
  /\ VisionKept \in Nat \ {0} /\ MaxVisionEvents \in Nat

VARIABLES
  streamer,       \* "attach", "connect", "first", "select", "handle", "exit0", "exit1"
  capturerUp, frameReady,
  frameWait,      \* ticks until the time-out of the frame now waited for
  dry,            \* ghost: ticks since the last frame
  vision,         \* "none", "offered", "answered", "off"
  visionWait,     \* ticks until its deadline
  visionEvents,   \* events of its signalling session not handled yet
  visionLagged,   \* its receiver lost events and will say so first
  visionSent,     \* ghost: candidates the cockpit sent
  visionMissed,   \* ghost: those among the events lost
  visionIce, addedIce,
  channelOpen,    \* state of the data channel
  forwarded,      \* ghost: a result has been sent
  nVisionEvents

streamerVars == <<streamer, capturerUp, frameReady, frameWait, dry, vision, visionWait,
                 visionEvents, visionLagged, visionSent, visionMissed, visionIce, addedIce,
                 channelOpen, forwarded, nVisionEvents>>
visionState == <<vision, visionWait, visionEvents, visionLagged, visionSent, visionMissed,
                 visionIce, addedIce, channelOpen, forwarded, nVisionEvents>>
visionIceState == <<visionEvents, visionLagged, visionSent, visionMissed, visionIce, addedIce>>

StreamerRunning == streamer \in {"first", "select", "handle"}
VisionOn == vision \in {"offered", "answered"}
Cand(n) == [kind |-> "cand", n |-> n]
Other(k) == [kind |-> k, n |-> 0]

StreamerTypeOK ==
  /\ streamer \in {"attach", "connect", "first", "select", "handle", "exit0", "exit1"}
  /\ frameWait \in 0 .. FrameTimeout /\ vision \in {"none", "offered", "answered", "off"}
  /\ visionWait \in 0 .. (VisionTimeout + AnsweredFor)
  /\ Range(addedIce) \subseteq 1 .. visionSent /\ Len(visionEvents) <= VisionKept
  /\ frameReady \in BOOLEAN /\ channelOpen \in BOOLEAN

StreamerInit ==
  /\ streamer = "attach" /\ capturerUp \in BOOLEAN /\ frameReady = FALSE
  /\ frameWait = FrameTimeout /\ dry = 0 /\ vision = "none" /\ visionWait = 0
  /\ visionEvents = <<>> /\ visionLagged = FALSE /\ visionSent = 0 /\ visionMissed = {}
  /\ visionIce = <<>> /\ addedIce = <<>>
  /\ channelOpen = FALSE /\ forwarded = FALSE
  /\ nVisionEvents = 0

-----------------------------------------------------------------------------
(* host-capturer: started and stopped by the process manager.                 *)
CapturerStarts ==
  /\ ~capturerUp /\ capturerUp' = TRUE
  /\ UNCHANGED <<streamer, frameReady, frameWait, dry, visionState>>
CapturerStops ==
  /\ capturerUp /\ capturerUp' = FALSE
  /\ UNCHANGED <<streamer, frameReady, frameWait, dry, visionState>>
CapturerPublishes ==
  /\ capturerUp /\ ~frameReady /\ streamer \notin {"attach", "exit0", "exit1"} /\ frameReady' = TRUE
  /\ UNCHANGED <<streamer, capturerUp, frameWait, dry, visionState>>

(* The cockpit answers and sends candidates; the session is lost, or somebody *)
(* offers, which counts the same; the room has other news. The event channel  *)
(* keeps the newest VisionKept.                                               *)
VisionSignalled(e) ==
  /\ StreamerRunning /\ VisionOn /\ nVisionEvents < MaxVisionEvents /\ nVisionEvents' = nVisionEvents + 1
  /\ IF Len(visionEvents) < VisionKept
       THEN /\ visionEvents' = Append(visionEvents, e)
            /\ UNCHANGED <<visionLagged, visionMissed>>
       ELSE /\ visionEvents' = Append(Tail(visionEvents), e) /\ visionLagged' = TRUE
            /\ visionMissed' = IF Head(visionEvents).kind = "cand"
                                  THEN visionMissed \cup {Head(visionEvents).n} ELSE visionMissed
  /\ e.kind = "cand" => e.n = visionSent + 1
  /\ visionSent' = IF e.kind = "cand" THEN e.n ELSE visionSent
  /\ UNCHANGED <<streamer, capturerUp, frameReady, frameWait, dry, vision, visionWait,
                 visionIce, addedIce, channelOpen, forwarded>>

ChannelOpens ==
  /\ StreamerRunning /\ vision = "answered" /\ ~channelOpen /\ channelOpen' = TRUE
  /\ UNCHANGED <<streamer, capturerUp, frameReady, frameWait, dry, vision, visionWait,
                 visionIceState, forwarded, nVisionEvents>>

(* Time passes until the next time-out of what is waited for.                 *)
StreamerTick ==
  /\ StreamerRunning /\ ~(streamer \in {"first", "select"} /\ frameWait = 0)
  /\ ~(streamer = "select" /\ VisionOn /\ visionWait = 0)
  /\ frameWait' = IF streamer \in {"first", "select"} THEN frameWait - 1 ELSE frameWait
  /\ visionWait' = IF VisionOn /\ visionWait > 0 THEN visionWait - 1 ELSE visionWait
  /\ dry' = IF dry > FrameTimeout THEN dry ELSE dry + 1
  /\ UNCHANGED <<streamer, capturerUp, frameReady, vision, visionIceState, channelOpen, forwarded, nVisionEvents>>

-----------------------------------------------------------------------------
(* main up to the loop: subscribe, connect, set the vision connection up.  A  *)
(* refused subscription is tried again every 3 s, without the bound of ten    *)
(* tries its comment names (host-streamer.rs:514).                            *)
SubscribeCamera ==
  /\ streamer = "attach" /\ streamer' = "connect"
  /\ UNCHANGED <<capturerUp, frameReady, frameWait, dry, visionState>>

ConnectPush ==
  /\ streamer = "connect" /\ dry' = 0 /\ frameWait' = FrameTimeout
  /\ \/ streamer' = "exit1" /\ UNCHANGED <<vision, visionWait>>
     \/ streamer' = "first" /\ vision' = "offered" /\ visionWait' = VisionTimeout
     \/ streamer' = "first" /\ vision' = "none" /\ UNCHANGED visionWait
  /\ UNCHANGED <<capturerUp, frameReady, visionIceState, channelOpen,
                 forwarded, nVisionEvents>>

(* The first frame gives the size; an invalid one, or a refused publication,  *)
(* ends the process.                                                          *)
FirstFrame ==
  /\ streamer = "first" /\ frameReady /\ frameReady' = FALSE /\ dry' = 0 /\ frameWait' = FrameTimeout
  /\ streamer' \in {"select", "exit1"} /\ UNCHANGED <<capturerUp, visionState>>

FrameTimesOut ==
  /\ streamer \in {"first", "select"} /\ frameWait = 0 /\ streamer' = "exit1"
  /\ UNCHANGED <<capturerUp, frameReady, frameWait, dry, visionState>>

-----------------------------------------------------------------------------
(* The loop: one branch is taken, and the next turn makes every future anew,  *)
(* the time-out of the frame among them.                                      *)
NextTurn ==
  /\ streamer = "handle" /\ streamer' = "select" /\ frameWait' = FrameTimeout
  /\ UNCHANGED <<capturerUp, frameReady, dry, visionState>>

WriteFrame ==
  /\ streamer = "select" /\ frameReady /\ frameReady' = FALSE /\ dry' = 0 /\ streamer' = "handle"
  /\ UNCHANGED <<capturerUp, frameWait, visionState>>

(* An event of the push session: its loss ends the process, everything else   *)
(* is passed over.                                                            *)
PushEvent ==
  /\ streamer = "select" /\ streamer' \in {"handle", "exit1"}
  /\ UNCHANGED <<capturerUp, frameReady, frameWait, dry, visionState>>

VisionOff == /\ vision' = "off" /\ visionEvents' = <<>> /\ visionLagged' = FALSE /\ visionIce' = <<>>
             /\ channelOpen' = FALSE /\ UNCHANGED <<visionWait, addedIce>>

AddIce(n) ==
  IF vision = "answered" THEN addedIce' = Append(addedIce, n) /\ UNCHANGED visionIce
  ELSE visionIce' = Append(visionIce, n) /\ UNCHANGED addedIce

(* handle_vision_signal, told that it lost events: it goes on with the rest.  *)
VisionLags ==
  /\ streamer = "select" /\ VisionOn /\ visionLagged /\ visionLagged' = FALSE /\ streamer' = "handle"
  /\ UNCHANGED <<capturerUp, frameReady, frameWait, dry, vision, visionWait, visionEvents,
                 visionSent, visionMissed, visionIce, addedIce, channelOpen, forwarded,
                 nVisionEvents>>

(* The same with an event.  What is not an answer, an answer that is refused  *)
(* and the loss of the session switch the vision off; other news are passed   *)
(* over.                                                                      *)
VisionSignal ==
  /\ streamer = "select" /\ VisionOn /\ ~visionLagged /\ visionEvents # <<>> /\ streamer' = "handle"
  /\ LET e == Head(visionEvents)
     IN  \/ /\ e.kind = "answer" /\ vision' = "answered" /\ visionWait' = AnsweredFor
            /\ addedIce' = addedIce \o visionIce /\ visionIce' = <<>> /\ visionEvents' = Tail(visionEvents)
            /\ UNCHANGED <<visionLagged, channelOpen>>
         \/ e.kind \in {"answer", "lost"} /\ VisionOff
         \/ /\ e.kind = "cand" /\ AddIce(e.n) /\ visionEvents' = Tail(visionEvents)
            /\ UNCHANGED <<vision, visionWait, visionLagged, channelOpen>>
         \/ /\ e.kind = "news" /\ visionEvents' = Tail(visionEvents)
            /\ UNCHANGED <<vision, visionWait, visionLagged, visionIce, addedIce, channelOpen>>
  /\ UNCHANGED <<capturerUp, frameReady, frameWait, dry, visionSent, visionMissed, forwarded,
                 nVisionEvents>>

(* A result of the vision node is sent only over an open channel, and dropped *)
(* before.                                                                    *)
VisionFrame ==
  /\ streamer = "select" /\ VisionOn /\ streamer' = "handle"
  /\ forwarded' = (forwarded \/ channelOpen)
  /\ UNCHANGED <<capturerUp, frameReady, frameWait, dry, vision, visionWait,
                 visionIceState, channelOpen, nVisionEvents>>

VisionDeadline ==
  /\ streamer = "select" /\ VisionOn /\ visionWait = 0 /\ streamer' = "handle" /\ VisionOff
  /\ UNCHANGED <<capturerUp, frameReady, frameWait, dry, visionSent, visionMissed, forwarded,
                 nVisionEvents>>

(* A signal is seen by the receivers that exist: those of this turn.  The     *)
(* handler stays installed, so one that comes while a branch runs is lost.    *)
StreamerTerminated ==
  /\ streamer = "select" /\ streamer' = "exit0"
  /\ UNCHANGED <<capturerUp, frameReady, frameWait, dry, visionState>>

StreamerStep ==
  \/ SubscribeCamera \/ ConnectPush \/ FirstFrame \/ FrameTimesOut \/ NextTurn \/ WriteFrame
  \/ PushEvent \/ VisionLags \/ VisionSignal \/ VisionFrame \/ VisionDeadline

StreamerNext ==
  \/ StreamerStep \/ StreamerTick \/ StreamerTerminated \/ CapturerStarts \/ CapturerStops
  \/ CapturerPublishes \/ ChannelOpens
  \/ VisionSignalled(Cand(visionSent + 1))
  \/ \E k \in {"answer", "lost", "news"} : VisionSignalled(Other(k))

StreamerSpec == StreamerInit /\ [][StreamerNext]_streamerVars

-----------------------------------------------------------------------------
(* The candidates of the cockpit are added in the order they were sent, each  *)
(* once, with none left out but those its event channel lost, and none before *)
(* the answer, before which no result leaves either.                          *)
VisionInOrder ==
  /\ \A i, j \in DOMAIN addedIce : i < j => addedIce[i] < addedIce[j]
  /\ \A i \in DOMAIN addedIce : 1 .. addedIce[i] \subseteq Range(addedIce) \cup visionMissed
  /\ vision = "offered" => addedIce = <<>> /\ ~forwarded

(* None is left out at all.  Does not hold: after a lag the task goes on      *)
(* without the candidates it missed, and nobody sends them again.             *)
VisionIceComplete == visionMissed = {}

(* The watchdog promised at NO_FRAME_TIMEOUT: the process does not go on for  *)
(* longer than that without a frame of the camera.  Does not hold.            *)
WatchdogBites == StreamerRunning => dry <= FrameTimeout

(* Once the answer is there the deadline no longer ends the vision (host-streamer.rs:245). *)
(* Does not hold: it is moved by an hour.                                     *)
DeadlineCancelled == [][vision = "answered" /\ visionWait = 0 => vision' # "off"]_streamerVars
=============================================================================
