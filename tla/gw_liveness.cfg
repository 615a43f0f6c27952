SPECIFICATION FairSpec
CONSTANTS
  MaxConns = 2
  MaxMsgs = 2
  MaxPeer = 1
  MaxSessions = 2
  EventCap = 8
  EchoCap = 8
  ChildKinds = {"sfu", "data"}
  AgentKinds = {"status"}
  PeerKinds = {"room"}
  Losses = {"disconnected", "error"}
PROPERTIES EveryRequestAnswered LossDetected Rejoins
CHECK_DEADLOCK FALSE
