---------------------------- MODULE MCComponents ----------------------------
(* The components that TLC checks on instances of their own, side by side: a  *)
(* behaviour picks one part and runs that part alone.  The variables of the   *)
(* parts are disjoint, so each part has here the behaviours it has alone.     *)
EXTENDS Integers, Sequences, SequencesExt, FiniteSets, ServerLife, Backup,
        AdminApi, ConfigPush, HostInit, HostInstances, HostMonitor,
        EmergencyStop, HostStreamer, HostAudio, OperatorClient, LinkClient,
        FieldSession, TopicPublisher, FrameStream, Recorder, Playback,
        DeckHandles, LinkHandles, BusHandles, RemoteSdp, RtcPeer,
        DataChannel, TrackSink, VideoTrack, DecodePath, PipelineEngine,
        FramePacing

VARIABLE part

Parts ==
  {"life", "backup", "admin", "config", "init", "instances", "monitor",
   "controller", "emergency", "streamer", "audio", "client", "link", "field",
   "topic", "stream", "recorder", "playback", "deck", "sig", "bus", "sdp",
   "rtc", "channel", "sink", "track", "decode", "engine", "pacer"}

(* What the applications of a vehicle need tokens for, in the order host init *)
(* issues them; and the time stamps of frames.                                *)
MCAppOrder == <<[id |-> "cam", role |-> "capture"], [id |-> "str", role |-> "pusher"],
                [id |-> "recorder", role |-> "recorder"], [id |-> "agent", role |-> "monitor"]>>
MCTokenApps == {MCAppOrder[i] : i \in 1 .. Len(MCAppOrder)}
MCStamps == -1 .. 14

-----------------------------------------------------------------------------
(* One part runs: the others start in one fixed state and stay there.         *)
Fixed(p, state) == part # p => state

Init ==
  /\ part \in Parts
  /\ LifeInit /\ Fixed("life", listener = "plain" /\ ~psk /\ ~jwt)
  /\ BackupInit
  /\ AdminInit /\ Fixed("admin", ~hasSecret /\ accountFile = CHOOSE f \in AccountFiles : TRUE)
  /\ ConfigInit
  /\ HostInitInit
  /\ InstancesInit /\ Fixed("instances", ~samePort /\ \A d \in Dirs : instanceToml[d] = {Agent})
  /\ MonitorInit
  /\ StopInit
  /\ StreamerInit /\ Fixed("streamer", ~capturerUp)
  /\ AudioInit /\ Fixed("audio", audioHeard = <<>>)
  /\ ClientInit
  /\ LinkInit /\ Fixed("link", ~gateway)
  /\ FieldInit /\ Fixed("field", role = "push")
  /\ PublisherInit
  /\ StreamInit
  /\ RecorderInit
  /\ PlaybackInit /\ Fixed("playback", packets = <<>> /\ delay = 0)
  /\ DeckInit /\ Fixed("deck", undecoded = 0)
  /\ SigInit
  /\ BusInit
  /\ SdpInit /\ Fixed("sdp", asked = CHOOSE a \in Descriptions : TRUE)
  /\ RtcInit
  /\ DcInit
  /\ SinkInit
  /\ VideoTrackInit
  /\ DecodeInit
  /\ EngineInit
  /\ PacerInit /\ Fixed("pacer", maxRate = NoLimit)

(* Bound: candidates are the controller's question; the emergency process,    *)
(* which treats them the same way, is sent none.                              *)
NoCandidates == Range(inbox') \cap Candidates = {}

(* EmergencyStop has the process of PeerChild in it.                          *)
Alone(p) ==
  /\ part' = p
  /\ IF p \in {"controller", "emergency"} THEN TRUE ELSE UNCHANGED peerVars
  /\ IF p = "emergency" THEN TRUE ELSE UNCHANGED stopVars
  /\ IF p = "life" THEN TRUE ELSE UNCHANGED lifeVars
  /\ IF p = "backup" THEN TRUE ELSE UNCHANGED backupVars
  /\ IF p = "admin" THEN TRUE ELSE UNCHANGED adminVars
  /\ IF p = "config" THEN TRUE ELSE UNCHANGED configVars
  /\ IF p = "init" THEN TRUE ELSE UNCHANGED initVars
  /\ IF p = "instances" THEN TRUE ELSE UNCHANGED hostVars
  /\ IF p = "monitor" THEN TRUE ELSE UNCHANGED monitorVars
  /\ IF p = "streamer" THEN TRUE ELSE UNCHANGED streamerVars
  /\ IF p = "audio" THEN TRUE ELSE UNCHANGED audioVars
  /\ IF p = "client" THEN TRUE ELSE UNCHANGED clientVars
  /\ IF p = "link" THEN TRUE ELSE UNCHANGED linkVars
  /\ IF p = "field" THEN TRUE ELSE UNCHANGED fieldVars
  /\ IF p = "topic" THEN TRUE ELSE UNCHANGED publisherVars
  /\ IF p = "stream" THEN TRUE ELSE UNCHANGED streamVars
  /\ IF p = "recorder" THEN TRUE ELSE UNCHANGED recVars
  /\ IF p = "playback" THEN TRUE ELSE UNCHANGED playVars
  /\ IF p = "deck" THEN TRUE ELSE UNCHANGED deckVars
  /\ IF p = "sig" THEN TRUE ELSE UNCHANGED sigVars
  /\ IF p = "bus" THEN TRUE ELSE UNCHANGED busVars
  /\ IF p = "sdp" THEN TRUE ELSE UNCHANGED sdpVars
  /\ IF p = "rtc" THEN TRUE ELSE UNCHANGED rtcVars
  /\ IF p = "channel" THEN TRUE ELSE UNCHANGED dcVars
  /\ IF p = "sink" THEN TRUE ELSE UNCHANGED sinkVars
  /\ IF p = "track" THEN TRUE ELSE UNCHANGED videoTrackVars
  /\ IF p = "decode" THEN TRUE ELSE UNCHANGED decodeVars
  /\ IF p = "engine" THEN TRUE ELSE UNCHANGED engineVars
  /\ IF p = "pacer" THEN TRUE ELSE UNCHANGED pacerVars

Next ==
  \/ part = "life" /\ LifeNext /\ Alone("life")
  \/ part = "backup" /\ BackupNext /\ Alone("backup")
  \/ part = "admin" /\ AdminNext /\ Alone("admin")
  \/ part = "config" /\ ConfigNext /\ Alone("config")
  \/ part = "init" /\ HostInitNext /\ Alone("init")
  \/ part = "instances" /\ HostNext /\ Alone("instances")
  \/ part = "monitor" /\ MonitorNext /\ Alone("monitor")
  \/ part = "controller" /\ PeerNext /\ Alone("controller")
  \/ part = "emergency" /\ EmergencyNext /\ NoCandidates /\ Alone("emergency")
  \/ part = "streamer" /\ StreamerNext /\ Alone("streamer")
  \/ part = "audio" /\ AudioNext /\ Alone("audio")
  \/ part = "client" /\ ClientNext /\ Alone("client")
  \/ part = "link" /\ LinkNext /\ Alone("link")
  \/ part = "field" /\ FieldNext /\ Alone("field")
  \/ part = "topic" /\ PublisherNext /\ Alone("topic")
  \/ part = "stream" /\ StreamNext /\ Alone("stream")
  \/ part = "recorder" /\ RecorderNext /\ Alone("recorder")
  \/ part = "playback" /\ PlaybackNext /\ Alone("playback")
  \/ part = "deck" /\ DeckNext /\ Alone("deck")
  \/ part = "sig" /\ SigNext /\ Alone("sig")
  \/ part = "bus" /\ BusNext /\ Alone("bus")
  \/ part = "sdp" /\ SdpNext /\ Alone("sdp")
  \/ part = "rtc" /\ RtcNext /\ Alone("rtc")
  \/ part = "channel" /\ DcNext /\ Alone("channel")
  \/ part = "sink" /\ SinkNext /\ Alone("sink")
  \/ part = "track" /\ VideoTrackNext /\ Alone("track")
  \/ part = "decode" /\ DecodeNext /\ Alone("decode")
  \/ part = "engine" /\ EngineNext /\ Alone("engine")
  \/ part = "pacer" /\ PacerNext /\ Alone("pacer")

vars == <<part, lifeVars, backupVars, adminVars, configVars, initVars, hostVars, monitorVars, emergencyVars,
          streamerVars, audioVars, clientVars, linkVars, fieldVars, publisherVars, streamVars, recVars,
          playVars, deckVars, sigVars, busVars, sdpVars, rtcVars, dcVars, sinkVars, videoTrackVars,
          decodeVars, engineVars, pacerVars>>

Spec == Init /\ [][Next]_vars

(* What has to go on when it can.  Server: its timers, and an exit that is    *)
(* due.  Agent: applying what it took from its mailbox.  Field session: its   *)
(* task, and the server, which answers.  Recorder: each pump, each thread.    *)
(* Streams: a call of recv() under way.  Bus: a call of recv, subscribe or    *)
(* close under way.  The rest is up to the surroundings.                      *)
FairSpec ==
  /\ Spec
  /\ WF_lifeVars(part = "life" /\ Deadline)
  /\ WF_lifeVars(part = "life" /\ Drain250ms)
  /\ WF_lifeVars(part = "life" /\ ExitServer)
  /\ WF_configVars(part = "config" /\ ApplyStep)
  /\ WF_fieldVars(part = "field" /\ FieldStep)
  /\ WF_fieldVars(part = "field" /\ (ServerAnswers \/ Arrives))
  /\ \A c \in Cameras : /\ WF_recVars(part = "recorder" /\ PumpStep(c))
                         /\ WF_recVars(part = "recorder" /\ WorkerStep(c))
  /\ \A r \in Receivers : WF_streamVars(part = "stream" /\ recv[r] # "idle" /\ RecvStep(r))
  /\ WF_busVars(part = "bus" /\ BusCloses)
  /\ \A r \in Readers : /\ WF_busVars(part = "bus" /\ RecvReturns(r))
                         /\ WF_busVars(part = "bus" /\ BusSubscribed(r))

-----------------------------------------------------------------------------
(* Every variable keeps its type, and what the parts keep in several          *)
(* variables fits together.                                                   *)
ComponentTypesOK ==
  /\ part \in Parts
  /\ part = "life" => LifeTypeOK
  /\ part = "backup" => BackupTypeOK
  /\ part = "admin" => AdminTypeOK
  /\ part = "config" => ConfigTypeOK
  /\ part = "init" => HostInitTypeOK
  /\ part = "instances" => HostTypeOK
  /\ part = "monitor" => MonitorTypeOK
  /\ part = "controller" => PeerTypeOK
  /\ part = "emergency" => StopTypeOK
  /\ part = "streamer" => StreamerTypeOK
  /\ part = "audio" => AudioTypeOK
  /\ part = "client" => ClientTypeOK
  /\ part = "link" => LinkTypeOK
  /\ part = "field" => FieldTypeOK
  /\ part = "topic" => PublisherTypeOK
  /\ part = "stream" => StreamTypeOK
  /\ part = "recorder" => RecorderTypeOK
  /\ part = "playback" => PlaybackTypeOK
  /\ part = "deck" => DeckTypeOK
  /\ part = "sig" => SigTypeOK
  /\ part = "bus" => BusTypeOK
  /\ part = "rtc" => RtcTypeOK
  /\ part = "channel" => DcTypeOK
  /\ part = "sink" => SinkTypeOK
  /\ part = "track" => VideoTrackTypeOK
  /\ part = "decode" => DecodeTypeOK
  /\ part = "engine" => EngineTypeOK
  /\ part = "pacer" => PacerTypeOK

-----------------------------------------------------------------------------
(* Properties that hold of several parts at once; what each of them says is   *)
(* explained where it is defined.                                             *)

(* What comes over a signalling connection is acted on in the order it came,  *)
(* and nothing on a peer connection before the description it belongs to: the *)
(* candidates of a cockpit, of the vision session (but for those its event    *)
(* channel lost) and of an operator, events handed to a C callback, and events*)
(* of a console.                                                              *)
SignalsInOrder ==
  CandidatesInOrder /\ VisionInOrder /\ ClientInOrder /\ HeardInOrder /\ ConsolesInOrder

(* No frame, packet or message is lost, repeated or mixed with another where  *)
(* the code does not say so: recordings, playback, data channel readers, the  *)
(* sink of a track, the encoder, the reassembly of received units.            *)
MediaKept ==
  /\ FileKeepsFrames /\ NoneMeansAll /\ SpoolsMissNothing /\ GivesUpInOrder
  /\ FramesAccountedFor /\ WholeUnitsFed /\ ExitsWhenWritten

(* A handle is given back to a C caller only when nothing it started uses it. *)
HandlesCloseInOrder == CloseIsFinal /\ PumpEndsFirst

(* One trigger of a life latches, and a stop the emergency process            *)
(* acknowledged is in its audit file; the controller acknowledges commands it *)
(* keeps no audit of.                                                         *)
StopsOnRecord == LatchedOnce /\ (part = "emergency" => AckedIsAudited)

(* What an engine keeps in several places agrees: one task per chain, frames  *)
(* at most at the rate asked for and within the limits of size, and a media   *)
(* track sent by one sender, which a track of the table always has.           *)
EngineConsistent == OneTaskPerChain /\ RateHeld /\ ScaledFits /\ AttachedOnce

(* What the host tools keep on disk, run and report agrees with what there is,*)
(* boot units a take-over missed excepted.                                    *)
HostConsistent ==
  TokensAccountedFor /\ OneStartupUnit /\ FlowTruth /\ AudioSettles /\ SettledWhenIdle

(* A signalling session ends as its client is told, and a call that follows no*)
(* call that gave up shows the media it asked for.                            *)
SessionsAsPromised == EndsAsPromised /\ ShowsWhatWasAsked

(* The frame bus: the publisher the registry names has the topic, and what    *)
(* subscribers are given only gets newer.                                     *)
BusConsistent == MarkHolds /\ NewestFirst

(* Whoever waits, for a frame, for its bus or for an answer, has what ends the*)
(* wait on its way.                                                           *)
NobodyWaitsForNothing == SleepersWoken /\ ReadersReleased /\ CallAwaited

(* Whoever waits for an answer or a frame is let go in the end.               *)
WaitersReturn == CallReturns /\ RecvEndsWithBus
=============================================================================
