SPECIFICATION Spec
CONSTANTS
  MaxConns = 2
  MaxMsgs = 4
  MaxPeer = 1
  MaxSessions = 2
  EventCap = 8
  EchoCap = 8
  ChildKinds = {"sfu", "data"}
  AgentKinds = {}
  PeerKinds = {"room"}
  Losses = {"disconnected"}
INVARIANTS AnswersReachRequester
CHECK_DEADLOCK FALSE
