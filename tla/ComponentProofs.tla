---------------------------- MODULE ComponentProofs ----------------------------
(* In MCComponents every part behaves as it does alone: its specification     *)
(* implements those of the parts.  What is proved of each part in a module of *)
(* its own therefore holds there too, for every value of the constants.       *)
EXTENDS MCComponents, ServerProofs, HostProofs, MediaProofs

-----------------------------------------------------------------------------
(* The part that runs is the same throughout, and the others stay as they     *)
(* are: each sees its own steps or none.                                      *)
LEMMA PartRuns == Next => Alone(part)
BY DEF Next

LEMMA PartStays == [Next]_vars => part' = part
BY PartRuns DEF Alone, vars

(* What a step is, seen from each part.                                       *)
LEMMA OwnSteps ==
  Next =>
    /\ part = "life" => LifeNext
    /\ part = "backup" => BackupNext
    /\ part = "admin" => AdminNext
    /\ part = "config" => ConfigNext
    /\ part = "init" => HostInitNext
    /\ part = "instances" => HostNext
    /\ part = "monitor" => MonitorNext
    /\ part = "streamer" => StreamerNext
    /\ part = "audio" => AudioNext
    /\ part = "client" => ClientNext
    /\ part = "link" => LinkNext
    /\ part = "field" => FieldNext
    /\ part = "topic" => PublisherNext
    /\ part = "stream" => StreamNext
    /\ part = "recorder" => RecorderNext
    /\ part = "playback" => PlaybackNext
    /\ part = "deck" => DeckNext
    /\ part = "sig" => SigNext
    /\ part = "bus" => BusNext
    /\ part = "rtc" => RtcNext
    /\ part = "channel" => DcNext
    /\ part = "sink" => SinkNext
    /\ part = "track" => VideoTrackNext
    /\ part = "decode" => DecodeNext
    /\ part = "engine" => EngineNext
    /\ part = "pacer" => PacerNext
    /\ part = "controller" => PeerNext
    /\ part = "emergency" => EmergencyNext
BY DEF Next

LEMMA OthersRest ==
  Next =>
    /\ part # "life" => UNCHANGED lifeVars
    /\ part # "backup" => UNCHANGED backupVars
    /\ part # "admin" => UNCHANGED adminVars
    /\ part # "config" => UNCHANGED configVars
    /\ part # "init" => UNCHANGED initVars
    /\ part # "instances" => UNCHANGED hostVars
    /\ part # "monitor" => UNCHANGED monitorVars
    /\ part # "streamer" => UNCHANGED streamerVars
    /\ part # "audio" => UNCHANGED audioVars
    /\ part # "client" => UNCHANGED clientVars
    /\ part # "link" => UNCHANGED linkVars
    /\ part # "field" => UNCHANGED fieldVars
    /\ part # "topic" => UNCHANGED publisherVars
    /\ part # "stream" => UNCHANGED streamVars
    /\ part # "recorder" => UNCHANGED recVars
    /\ part # "playback" => UNCHANGED playVars
    /\ part # "deck" => UNCHANGED deckVars
    /\ part # "sig" => UNCHANGED sigVars
    /\ part # "bus" => UNCHANGED busVars
    /\ part # "rtc" => UNCHANGED rtcVars
    /\ part # "channel" => UNCHANGED dcVars
    /\ part # "sink" => UNCHANGED sinkVars
    /\ part # "track" => UNCHANGED videoTrackVars
    /\ part # "decode" => UNCHANGED decodeVars
    /\ part # "engine" => UNCHANGED engineVars
    /\ part # "pacer" => UNCHANGED pacerVars
    /\ part \notin {"controller", "emergency"} => UNCHANGED peerVars
    /\ part # "emergency" => UNCHANGED stopVars
BY PartRuns DEF Alone
LEMMA LifeAlone == Spec => LifeSpec
<1>1. Init => LifeInit
  BY DEF Init
<1>2. [Next]_vars => [LifeNext]_lifeVars
  BY OwnSteps, OthersRest DEF vars
<1> QED
  BY <1>1, <1>2, PTL DEF Spec, LifeSpec

LEMMA BackupAlone == Spec => BackupSpec
<1>1. Init => BackupInit
  BY DEF Init
<1>2. [Next]_vars => [BackupNext]_backupVars
  BY OwnSteps, OthersRest DEF vars
<1> QED
  BY <1>1, <1>2, PTL DEF Spec, BackupSpec

LEMMA AdminAlone == Spec => AdminSpec
<1>1. Init => AdminInit
  BY DEF Init
<1>2. [Next]_vars => [AdminNext]_adminVars
  BY OwnSteps, OthersRest DEF vars
<1> QED
  BY <1>1, <1>2, PTL DEF Spec, AdminSpec

LEMMA ConfigAlone == Spec => ConfigSpec
<1>1. Init => ConfigInit
  BY DEF Init
<1>2. [Next]_vars => [ConfigNext]_configVars
  BY OwnSteps, OthersRest DEF vars
<1> QED
  BY <1>1, <1>2, PTL DEF Spec, ConfigSpec

LEMMA HostInitAlone == Spec => HostInitSpec
<1>1. Init => HostInitInit
  BY DEF Init
<1>2. [Next]_vars => [HostInitNext]_initVars
  BY OwnSteps, OthersRest DEF vars
<1> QED
  BY <1>1, <1>2, PTL DEF Spec, HostInitSpec

LEMMA InstancesAlone == Spec => HostSpec
<1>1. Init => InstancesInit
  BY DEF Init
<1>2. [Next]_vars => [HostNext]_hostVars
  BY OwnSteps, OthersRest DEF vars
<1> QED
  BY <1>1, <1>2, PTL DEF Spec, HostSpec

LEMMA MonitorAlone == Spec => MonitorSpec
<1>1. Init => MonitorInit
  BY DEF Init
<1>2. [Next]_vars => [MonitorNext]_monitorVars
  BY OwnSteps, OthersRest DEF vars
<1> QED
  BY <1>1, <1>2, PTL DEF Spec, MonitorSpec

LEMMA StreamerAlone == Spec => StreamerSpec
<1>1. Init => StreamerInit
  BY DEF Init
<1>2. [Next]_vars => [StreamerNext]_streamerVars
  BY OwnSteps, OthersRest DEF vars
<1> QED
  BY <1>1, <1>2, PTL DEF Spec, StreamerSpec

LEMMA AudioAlone == Spec => AudioSpec
<1>1. Init => AudioInit
  BY DEF Init
<1>2. [Next]_vars => [AudioNext]_audioVars
  BY OwnSteps, OthersRest DEF vars
<1> QED
  BY <1>1, <1>2, PTL DEF Spec, AudioSpec

LEMMA ClientAlone == Spec => ClientSpec
<1>1. Init => ClientInit
  BY DEF Init
<1>2. [Next]_vars => [ClientNext]_clientVars
  BY OwnSteps, OthersRest DEF vars
<1> QED
  BY <1>1, <1>2, PTL DEF Spec, ClientSpec

LEMMA LinkAlone == Spec => LinkSpec
<1>1. Init => LinkInit
  BY DEF Init
<1>2. [Next]_vars => [LinkNext]_linkVars
  BY OwnSteps, OthersRest DEF vars
<1> QED
  BY <1>1, <1>2, PTL DEF Spec, LinkSpec

LEMMA FieldAlone == Spec => FieldSpec
<1>1. Init => FieldInit
  BY DEF Init
<1>2. [Next]_vars => [FieldNext]_fieldVars
  BY OwnSteps, OthersRest DEF vars
<1> QED
  BY <1>1, <1>2, PTL DEF Spec, FieldSpec

LEMMA PublisherAlone == Spec => PublisherSpec
<1>1. Init => PublisherInit
  BY DEF Init
<1>2. [Next]_vars => [PublisherNext]_publisherVars
  BY OwnSteps, OthersRest DEF vars
<1> QED
  BY <1>1, <1>2, PTL DEF Spec, PublisherSpec

LEMMA StreamAlone == Spec => StreamSpec
<1>1. Init => StreamInit
  BY DEF Init
<1>2. [Next]_vars => [StreamNext]_streamVars
  BY OwnSteps, OthersRest DEF vars
<1> QED
  BY <1>1, <1>2, PTL DEF Spec, StreamSpec

LEMMA RecorderAlone == Spec => RecorderSpec
<1>1. Init => RecorderInit
  BY DEF Init
<1>2. [Next]_vars => [RecorderNext]_recVars
  BY OwnSteps, OthersRest DEF vars
<1> QED
  BY <1>1, <1>2, PTL DEF Spec, RecorderSpec

LEMMA PlaybackAlone == Spec => PlaybackSpec
<1>1. Init => PlaybackInit
  BY DEF Init
<1>2. [Next]_vars => [PlaybackNext]_playVars
  BY OwnSteps, OthersRest DEF vars
<1> QED
  BY <1>1, <1>2, PTL DEF Spec, PlaybackSpec

LEMMA DeckAlone == Spec => DeckInit /\ [][DeckNext]_deckVars
<1>1. Init => DeckInit
  BY DEF Init
<1>2. [Next]_vars => [DeckNext]_deckVars
  BY OwnSteps, OthersRest DEF vars
<1> QED
  BY <1>1, <1>2, PTL DEF Spec

LEMMA SigAlone == Spec => SigInit /\ [][SigNext]_sigVars
<1>1. Init => SigInit
  BY DEF Init
<1>2. [Next]_vars => [SigNext]_sigVars
  BY OwnSteps, OthersRest DEF vars
<1> QED
  BY <1>1, <1>2, PTL DEF Spec

LEMMA BusAlone == Spec => BusInit /\ [][BusNext]_busVars
<1>1. Init => BusInit
  BY DEF Init
<1>2. [Next]_vars => [BusNext]_busVars
  BY OwnSteps, OthersRest DEF vars
<1> QED
  BY <1>1, <1>2, PTL DEF Spec

LEMMA RtcAlone == Spec => RtcInit /\ [][RtcNext]_rtcVars
<1>1. Init => RtcInit
  BY DEF Init
<1>2. [Next]_vars => [RtcNext]_rtcVars
  BY OwnSteps, OthersRest DEF vars
<1> QED
  BY <1>1, <1>2, PTL DEF Spec

LEMMA ChannelAlone == Spec => DcInit /\ [][DcNext]_dcVars
<1>1. Init => DcInit
  BY DEF Init
<1>2. [Next]_vars => [DcNext]_dcVars
  BY OwnSteps, OthersRest DEF vars
<1> QED
  BY <1>1, <1>2, PTL DEF Spec

LEMMA SinkAlone == Spec => SinkInit /\ [][SinkNext]_sinkVars
<1>1. Init => SinkInit
  BY DEF Init
<1>2. [Next]_vars => [SinkNext]_sinkVars
  BY OwnSteps, OthersRest DEF vars
<1> QED
  BY <1>1, <1>2, PTL DEF Spec

LEMMA TrackAlone == Spec => VideoTrackSpec
<1>1. Init => VideoTrackInit
  BY DEF Init
<1>2. [Next]_vars => [VideoTrackNext]_videoTrackVars
  BY OwnSteps, OthersRest DEF vars
<1> QED
  BY <1>1, <1>2, PTL DEF Spec, VideoTrackSpec

LEMMA DecodeAlone == Spec => DecodeSpec
<1>1. Init => DecodeInit
  BY DEF Init
<1>2. [Next]_vars => [DecodeNext]_decodeVars
  BY OwnSteps, OthersRest DEF vars
<1> QED
  BY <1>1, <1>2, PTL DEF Spec, DecodeSpec

LEMMA EngineAlone == Spec => EngineSpec
<1>1. Init => EngineInit
  BY DEF Init
<1>2. [Next]_vars => [EngineNext]_engineVars
  BY OwnSteps, OthersRest DEF vars
<1> QED
  BY <1>1, <1>2, PTL DEF Spec, EngineSpec

LEMMA PacerAlone == Spec => PacerSpec
<1>1. Init => PacerInit
  BY DEF Init
<1>2. [Next]_vars => [PacerNext]_pacerVars
  BY OwnSteps, OthersRest DEF vars
<1> QED
  BY <1>1, <1>2, PTL DEF Spec, PacerSpec

(* The process of PeerChild is the controller's or, grown to EmergencyStop,   *)
(* the emergency process's.                                                   *)
LEMMA PeerAlone ==
  [Next]_vars => /\ part # "emergency" => [PeerNext]_peerVars /\ UNCHANGED stopVars
                 /\ part = "emergency" => [EmergencyNext]_emergencyVars
<1>1. Next /\ part # "emergency" => [PeerNext]_peerVars /\ UNCHANGED stopVars
  <2>1. part = "controller" \/ part # "controller"
    OBVIOUS
  <2> QED
    BY <2>1, OwnSteps, OthersRest
<1>2. UNCHANGED vars => UNCHANGED emergencyVars
  BY DEF vars
<1>3. UNCHANGED emergencyVars => UNCHANGED peerVars /\ UNCHANGED stopVars
  BY DEF emergencyVars
<1>4. Next /\ part = "emergency" => EmergencyNext
  BY OwnSteps
<1> QED
  BY <1>1, <1>2, <1>3, <1>4

(* What holds of the two: of either the order of candidates and the types,    *)
(* of the emergency process what its own specification keeps.                 *)
PeersInv ==
  /\ IceTyped /\ CandidatesInOrder /\ PeerTypeOK
  /\ StopInv /\ StopRest /\ StopFlags /\ AckedIsAudited
PeerInv == IceTyped /\ CandidatesInOrder /\ PeerTypeOK /\ audit = <<>>

LEMMA PeersInit == Init => PeersInv /\ PeerInv
<1>1. Init => PeerInit /\ StopInit
  BY DEF Init, StopInit
<1>2. StopInit => audit = <<>> /\ AckedIsAudited
  BY DEF StopInit, PeerInit, AckedIsAudited
<1> QED
  BY <1>1, <1>2, PeerInitInv, PeerTypesInit, StopInitInv, StopRestInit DEF PeersInv, PeerInv

LEMMA EmergencyPartStep ==
  PeersInv /\ [EmergencyNext]_emergencyVars => PeersInv'
<1> SUFFICES ASSUME PeersInv, [EmergencyNext]_emergencyVars PROVE PeersInv'
  OBVIOUS
<1>1. (IceTyped /\ CandidatesInOrder)'
  BY EmergencyKeepsOrder DEF PeersInv
<1>2. StopInv'
  BY StopStep DEF PeersInv
<1>3. PeerTypeOK' /\ StopRest'
  BY StopRestStep DEF PeersInv
<1>4. StopFlags'
  BY StopFlagsStep DEF PeersInv
<1>5. AckedIsAudited'
  BY AuditStep DEF PeersInv
<1> QED
  BY <1>1, <1>2, <1>3, <1>4, <1>5 DEF PeersInv

LEMMA ControllerPartStep ==
  PeerInv /\ [PeerNext]_peerVars /\ UNCHANGED stopVars => PeerInv'
<1> SUFFICES ASSUME PeerInv, [PeerNext]_peerVars, UNCHANGED stopVars PROVE PeerInv'
  OBVIOUS
<1>1. (IceTyped /\ CandidatesInOrder)'
  BY PeerStep DEF PeerInv
<1>2. PeerTypeOK'
  BY PeerTypesStep DEF PeerInv
<1>3. UNCHANGED audit
  BY DEF stopVars
<1> QED
  BY <1>1, <1>2, <1>3 DEF PeerInv

(* Whatever part runs, the process of PeerChild keeps its invariant.          *)
LEMMA PeersKept ==
  Spec => []((part = "emergency" => PeersInv) /\ (part # "emergency" => PeerInv))
<1> DEFINE Inv == (part = "emergency" => PeersInv) /\ (part # "emergency" => PeerInv)
<1>1. Init => Inv
  BY PeersInit
<1>2. Inv /\ [Next]_vars => Inv'
  BY PartStays, PeerAlone, EmergencyPartStep, ControllerPartStep
<1> QED
  BY <1>1, <1>2, PTL DEF Spec

-----------------------------------------------------------------------------
(* What comes over a connection is acted on in the order it came, on all of   *)
(* the program's connections: the candidates of a cockpit (host-controller.rs,*)
(* host-emergency.rs), of the vision session (host-streamer.rs) but for those *)
(* its event channel lost, and of an operator (webrtc_transport.rs), events   *)
(* for C callbacks (mediaservo-link-c) and those of the consoles (admin.rs).  *)
THEOREM SignalsComeInOrder == Spec => []SignalsInOrder
<1>1. Spec => []CandidatesInOrder
  <2>1. (part = "emergency" => PeersInv) /\ (part # "emergency" => PeerInv) => CandidatesInOrder
    BY DEF PeersInv, PeerInv
  <2> QED
    BY <2>1, PeersKept, PTL
<1>2. Spec => []VisionInOrder
  BY StreamerAlone, VisionIceInOrder, PTL
<1>3. Spec => []ClientInOrder
  BY ClientAlone, ClientKeepsOrder, PTL
<1>4. Spec => []HeardInOrder
  BY SigAlone, HandleHearsInOrder, PTL
<1>5. Spec => []ConsolesInOrder
  BY AdminAlone, ConsolesHearInOrder, PTL
<1> QED
  BY <1>1, <1>2, <1>3, <1>4, <1>5, PTL DEF SignalsInOrder

(* A handle closed by its caller is used by nothing it started                *)
(* (mediaservo-deck-c and mediaservo-link-c, lib.rs).                         *)
THEOREM HandlesComeToRest == Spec => []HandlesCloseInOrder
<1>1. Spec => []CloseIsFinal
  BY DeckAlone, ClosedHandlesRest, PTL
<1>2. Spec => []PumpEndsFirst
  BY SigAlone, HandleHearsInOrder, PTL
<1> QED
  BY <1>1, <1>2, PTL DEF HandlesCloseInOrder

(* A chain has one task, frames go out at most at the rate asked for and      *)
(* within the limits of size, a media track has one sender at most, and one   *)
(* when it is in the table (engine.rs, framerate_controller.rs,               *)
(* video_adapter.rs, webrtc_sys.rs).                                          *)
THEOREM EngineStaysConsistent == Spec => []EngineConsistent
<1>1. Spec => []OneTaskPerChain
  BY EngineAlone, ChainHasOneTask, PTL
<1>2. Spec => []RateHeld
  BY PacerAlone, PacedWithinRate, PTL
<1>3. Spec => []AttachedOnce
  BY RtcAlone, TracksAttachedOnce, PTL
<1> QED
  BY <1>1, <1>2, <1>3, ScaledWithinLimits, PTL DEF EngineConsistent

(* What the host tools keep on disk, run and report agrees with what there is:*)
(* tokens, boot units but those a take-over missed, the flow of streams, audio*)
(* subscriptions, the apps of a configuration (host.rs, monitor/flow.rs,      *)
(* monitor/topology.rs, host-audio.rs, translate.rs).                         *)
THEOREM HostStaysConsistent == Spec => []HostConsistent
<1>1. Spec => []TokensAccountedFor
  BY HostInitAlone, TokensStayAccountedFor, PTL
<1>2. Spec => []OneStartupUnit
  BY InstancesAlone, OneUnitAtBoot, PTL
<1>3. Spec => []FlowTruth
  BY MonitorAlone, FlowIsReported, PTL
<1>4. Spec => []AudioSettles
  BY AudioAlone, SubscriptionsSettle, PTL
<1>5. Spec => []SettledWhenIdle
  BY ConfigAlone, IdleMeansSettled, PTL
<1> QED
  BY <1>1, <1>2, <1>3, <1>4, <1>5, PTL DEF HostConsistent

(* Of the triggers of one life one found the latch open, no two have one      *)
(* number, and a stop acknowledged without a warning is in the audit file     *)
(* (emergency.rs, host-emergency.rs).                                         *)
THEOREM StopsStayOnRecord == Spec => []StopsOnRecord
<1>1. StopInv => LatchedOnce
  BY DEF StopInv
<1>2. audit = <<>> => LatchedOnce
  BY DEF LatchedOnce
<1>3. (part = "emergency" => PeersInv) /\ (part # "emergency" => PeerInv) => StopsOnRecord
  BY <1>1, <1>2 DEF PeersInv, PeerInv, StopsOnRecord
<1> QED
  BY <1>3, PeersKept, PTL

(* No frame, packet or message is lost, repeated or mixed with another where  *)
(* the code does not say so, a track being written by one task: two that meet *)
(* at its first frame both make an encoder (webrtc_rs.rs:548-593).            *)
THEOREM MediaStaysKept == OneWriter /\ Spec => []MediaKept
<1> SUFFICES ASSUME OneWriter PROVE Spec => []MediaKept
  OBVIOUS
<1>1. Spec => []FileKeepsFrames
  BY RecorderAlone, FilesKeepFrames, PTL
<1>2. Spec => []NoneMeansAll
  BY PlaybackAlone, PlayedInOrder, PTL
<1>3. Spec => []SpoolsMissNothing
  BY ChannelAlone, NoEventUnaccounted, PTL
<1>4. Spec => []GivesUpInOrder
  BY SinkAlone, BridgeGivesUpInOrder, PTL
<1>5. Spec => []FramesAccountedFor
  BY TrackAlone, OneWriterKeepsFrames, PTL
<1>6. Spec => []WholeUnitsFed
  BY DecodeAlone, UnitsReassembled, PTL
<1>7. Spec => []ExitsWhenWritten
  BY RecorderAlone, NoFileIsCutOff, PTL
<1> QED
  BY <1>1, <1>2, <1>3, <1>4, <1>5, <1>6, <1>7, PTL DEF MediaKept

(* Whoever waits has what ends the wait on its way: a task in recv() has been *)
(* notified of the frame or the shutdown it has not seen, a thread inside a   *)
(* closed bus has been told, a call awaits a request, an answer or an event   *)
(* (frame.rs, mediaservo-link-c/src/lib.rs, field/src/session.rs).            *)
THEOREM WaitersAreServed == Spec => []NobodyWaitsForNothing
<1>1. Spec => []SleepersWoken
  BY StreamAlone, NoWakeUpIsLost, PTL
<1>2. Spec => []ReadersReleased
  BY BusAlone, ClosedBusLetsReadersGo, PTL
<1>3. Spec => []CallAwaited
  BY FieldAlone, CallsAreAwaited, PTL
<1> QED
  BY <1>1, <1>2, <1>3, PTL DEF NobodyWaitsForNothing

(* A signalling session ends as its client is told, and a call of a field     *)
(* client, when none before it gave up, has the transport it asked for and the*)
(* consumer of the producer it named (link and field, session.rs).            *)
THEOREM SessionsStayAsPromised == Spec => []SessionsAsPromised
<1>1. Spec => []EndsAsPromised
  BY LinkAlone, SessionEndsAsPromised, PTL
<1>2. Spec => []ShowsWhatWasAsked
  BY FieldAlone, AnswersReachTheirCall, PTL
<1> QED
  BY <1>1, <1>2, PTL DEF SessionsAsPromised

(* A node marked as publisher has the topic, and what its subscribers are     *)
(* given only gets newer (bus/framebus.rs, frame.rs).                         *)
THEOREM BusStaysConsistent == Spec => []BusConsistent
<1>1. Spec => []MarkHolds
  BY PublisherAlone, MarkedNodePublishes, PTL
<1>2. Spec => []NewestFirst
  BY StreamAlone, FramesOnlyGetNewer, PTL
<1> QED
  BY <1>1, <1>2, PTL DEF BusConsistent

(* What the server and the agent promise holds where the parts are side by    *)
(* side: no session is cut, what is changed through the administrator's       *)
(* interface goes back to an administrator's account or the token printed at  *)
(* a start, no configuration is replaced by an older one.                     *)
THEOREM PartsKeepTheirWord ==
  Spec => [](NoSessionCut /\ ChangesByAdmins) /\ NoDowngrade
<1>1. Spec => []NoSessionCut
  BY LifeAlone, NoSessionIsCut, PTL
<1>2. Spec => []ChangesByAdmins
  BY AdminAlone, OnlyAdminsChange, PTL
<1>3. Spec => NoDowngrade
  BY ConfigAlone, NeverDowngraded
<1> QED
  BY <1>1, <1>2, <1>3, PTL

(* Every variable of the parts keeps its type, and what a part keeps in       *)
(* several variables fits together: for any number of clients, cameras,       *)
(* tracks and commands.                                                       *)
THEOREM ComponentsKeepTypes == Spec => []ComponentTypesOK
<1>1. Spec => [](part \in Parts)
  <2>1. Init => part \in Parts
    BY DEF Init
  <2>2. part \in Parts /\ [Next]_vars => (part \in Parts)'
    BY PartStays
  <2> QED
    BY <2>1, <2>2, PTL DEF Spec
<1>2. Spec => []((part = "controller" => PeerTypeOK) /\ (part = "emergency" => StopTypeOK))
  <2>1. (part = "emergency" => PeersInv) /\ (part # "emergency" => PeerInv)
          => (part = "controller" => PeerTypeOK) /\ (part = "emergency" => StopTypeOK)
    BY StopTypesFollow DEF PeersInv, PeerInv
  <2> QED
    BY <2>1, PeersKept, PTL
<1>3. Spec => [](LifeTypeOK /\ BackupTypeOK /\ AdminTypeOK
               /\ ClientTypeOK /\ FieldTypeOK)
  <2>1. Spec => []LifeTypeOK
    BY LifeAlone, LifeKeepsTypes, PTL
  <2>2. Spec => []BackupTypeOK
    BY BackupAlone, BackupKeepsTypes, PTL
  <2>3. Spec => []AdminTypeOK
    BY AdminAlone, AdminKeepsTypes, PTL
  <2>4. Spec => []ClientTypeOK
    BY ClientAlone, ClientKeepsOrder, PTL
  <2>5. Spec => []FieldTypeOK
    BY FieldAlone, AnswersReachTheirCall, PTL
  <2> QED
    BY <2>1, <2>2, <2>3, <2>4, <2>5, PTL
<1>4. Spec => [](ConfigTypeOK /\ HostInitTypeOK /\ HostTypeOK /\ MonitorTypeOK
               /\ StreamerTypeOK /\ AudioTypeOK /\ LinkTypeOK)
  <2>1. Spec => []ConfigTypeOK
    BY ConfigAlone, ConfigKeepsTypes, PTL
  <2>2. Spec => []HostInitTypeOK
    BY HostInitAlone, TokensStayAccountedFor, PTL
  <2>3. Spec => []HostTypeOK
    BY InstancesAlone, OneUnitAtBoot, PTL
  <2>4. Spec => []MonitorTypeOK
    BY MonitorAlone, FlowIsReported, PTL
  <2>5. Spec => []StreamerTypeOK
    BY StreamerAlone, VisionIceInOrder, PTL
  <2>6. Spec => []AudioTypeOK
    BY AudioAlone, SubscriptionsSettle, PTL
  <2>7. Spec => []LinkTypeOK
    BY LinkAlone, SessionEndsAsPromised, PTL
  <2> QED
    BY <2>1, <2>2, <2>3, <2>4, <2>5, <2>6, <2>7, PTL
<1>5. Spec => [](PublisherTypeOK /\ StreamTypeOK /\ BusTypeOK /\ RecorderTypeOK
               /\ PlaybackTypeOK /\ DeckTypeOK /\ SigTypeOK)
  <2>1. Spec => []PublisherTypeOK
    BY PublisherAlone, MarkedNodePublishes, PTL
  <2>2. Spec => []StreamTypeOK
    BY StreamAlone, StreamKeepsTypes, PTL
  <2>3. Spec => []BusTypeOK
    BY BusAlone, BusKeepsTypes, PTL
  <2>4. Spec => []RecorderTypeOK
    BY RecorderAlone, FilesKeepFrames, PTL
  <2>5. Spec => []PlaybackTypeOK
    BY PlaybackAlone, PlayedInOrder, PTL
  <2>6. Spec => []DeckTypeOK
    BY DeckAlone, ClosedHandlesRest, PTL
  <2>7. Spec => []SigTypeOK
    BY SigAlone, HandleHearsInOrder, PTL
  <2> QED
    BY <2>1, <2>2, <2>3, <2>4, <2>5, <2>6, <2>7, PTL
<1>6. Spec => [](RtcTypeOK /\ DcTypeOK /\ SinkTypeOK /\ VideoTrackTypeOK
               /\ DecodeTypeOK /\ EngineTypeOK /\ PacerTypeOK)
  <2>1. Spec => []RtcTypeOK
    BY RtcAlone, TracksAttachedOnce, PTL
  <2>2. Spec => []DcTypeOK
    BY ChannelAlone, NoEventUnaccounted, PTL
  <2>3. Spec => []SinkTypeOK
    BY SinkAlone, BridgeGivesUpInOrder, PTL
  <2>4. Spec => []VideoTrackTypeOK
    BY TrackAlone, TrackKeepsTypes, PTL
  <2>5. Spec => []DecodeTypeOK
    BY DecodeAlone, UnitsReassembled, PTL
  <2>6. Spec => []EngineTypeOK
    BY EngineAlone, ChainHasOneTask, PTL
  <2>7. Spec => []PacerTypeOK
    BY PacerAlone, PacedWithinRate, PTL
  <2> QED
    BY <2>1, <2>2, <2>3, <2>4, <2>5, <2>6, <2>7, PTL
<1>7. /\ part \in Parts /\ (part = "controller" => PeerTypeOK) /\ (part = "emergency" => StopTypeOK)
      /\ LifeTypeOK /\ BackupTypeOK /\ AdminTypeOK
      /\ ClientTypeOK /\ FieldTypeOK
      /\ ConfigTypeOK /\ HostInitTypeOK /\ HostTypeOK /\ MonitorTypeOK
      /\ StreamerTypeOK /\ AudioTypeOK /\ LinkTypeOK
      /\ PublisherTypeOK /\ StreamTypeOK /\ BusTypeOK /\ RecorderTypeOK
      /\ PlaybackTypeOK /\ DeckTypeOK /\ SigTypeOK
      /\ RtcTypeOK /\ DcTypeOK /\ SinkTypeOK /\ VideoTrackTypeOK
      /\ DecodeTypeOK /\ EngineTypeOK /\ PacerTypeOK
      => ComponentTypesOK
  BY DEF ComponentTypesOK
<1> QED
  BY <1>1, <1>2, <1>3, <1>4, <1>5, <1>6, <1>7, PTL
=============================================================================
