SPECIFICATION FairSpec
CONSTANTS
  Conns = {1, 2}
  Tokens = {"none", "account", "oddRole"}
  Savers = {w1}
  MaxSnaps = 3
  MaxStale = 1
  MaxAge = 2
  NoFile = nofile
  Users = {"ann"}
  Clients = {1}
  Consoles = {1}
  Secrets = {TRUE, FALSE}
  TokenLife = 0
  SetupLife = 1
  Leeway = 0
  LoginBurst = 1
  AuditCap = 1
  EventCap = 1
  MaxTime = 1
  MaxCalls = 2
  MaxRestarts = 2
  Instances = {"cam0", "cam1"}
  FixedApps = {"agent"}
  FirstConfig = {"cam0"}
  IllegalIds = {"?"}
  NoPush = none
  MaxVersion = 2
  MaxPushes = 2
  MaxFaults = 1
  MaxCli = 1
  AppOrder <- MCAppOrder
  TokenApps <- MCTokenApps
  MaxCommands = 2
  MaxRemoved = 1
  Dirs = {"a", "b"}
  HostApps = {"cam"}
  NoDir = "none"
  MaxHostCommands = 2
  MaxEdits = 1
  MaxOxFails = 1
  MonCameras = {c1}
  MonStreams = {s1}
  MonProcesses = {p1}
  StallAfter = 1
  Freshness = 2
  Grace = 1
  MaxMonTime = 3
  MaxMonFrames = 1
  Candidates = {"c1", "c2"}
  Commands = {1}
  MaxLives = 2
  MaxAnswers = 1
  MaxLocal = 1
  NoTrigger = none
  FrameTimeout = 1
  VisionTimeout = 1
  AnsweredFor = 1
  VisionKept = 1
  MaxVisionEvents = 3
  Remotes = {"p"}
  OwnProducer = "own"
  MaxRefused = 1
  MaxRepeats = 1
  MaxAttempts = 1
  FrameCap = 1
  IceCap = 1
  MaxOffers = 2
  MaxClientFrames = 1
  MaxOwnIce = 1
  Outgoing = {1, 2}
  MaxRetries = 1
  MaxEvents = 2
  Producers = {"p1", "p2"}
  NoProducer = "none"
  MaxTries = 2
  MaxRefusals = 1
  MaxOthers = 2
  EventsKept = 2
  SessionLosses = {"disconnected", "readError", "mute"}
  Nodes = {"a", "b"}
  Elsewhere = "x"
  NoNode = "-"
  Receivers = {1, 2}
  MaxSent = 2
  MaxBroken = 1
  Cameras = {1, 2}
  MaxFrames = 1
  MaxPackets = 4
  MaxDelay = 2
  Recorders = {r1}
  NoRecorder = nr
  MaxDeckFrames = 1
  MaxDecoded = 1
  MaxHeard = 3
  EventsBuffered = 2
  Readers = {1, 2}
  Codecs = {"h264", "vp9", "av1", "other"}
  Addresses = {"a", "b", "x.local"}
  LocalNames = {"x.local"}
  Ssrcs = {7}
  NoSsrc = 0
  MaxCandidates = 2
  TrackIds = {"video", "cam"}
  TrackKinds = {"video", "audio"}
  MaxTracks = 1
  MaxMedia = 2
  MaxTransceivers = 1
  Spools = {1, 2}
  MaxMessages = 2
  Kept = 2
  Capacity = 2
  MaxErrors = 2
  MaxSourced = 6
  TrackWriters = {w1}
  MaxRawFrames = 4
  MaxSendFaults = 1
  WireUnits = 2
  Fragmented = {1, 2}
  MaxPacketsLost = 1
  MaxTooShort = 1
  EngineCallers = {k1, k2}
  ChainIds = {x1}
  MaxChains = 2
  MaxEngineCalls = 2
  Stamps <- MCStamps
  Rates = {0, 1, 4, 5}
  Second = 8
  Sizes = {1, 2, 3, 7, 16}
  Limits = {1, 2, 3, 5, 9}
INVARIANTS ComponentTypesOK SignalsInOrder MediaKept HandlesCloseInOrder  SdpWellFormed HostConsistent
  StopsOnRecord SessionsAsPromised BusConsistent NobodyWaitsForNothing NoSessionCut ChangesByAdmins
PROPERTIES NoDowngrade Settles LoadFindsLastSave WaitersReturn StopEndsRecording StreamWakes ServerExits
CHECK_DEADLOCK FALSE
