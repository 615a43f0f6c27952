SPECIFICATION Spec
CONSTANTS
  MaxConns = 3
  MaxMsgs = 3
  MaxPeer = 1
  MaxSessions = 2
  EventCap = 8
  EchoCap = 8
  ChildKinds = {"sfu"}
  AgentKinds = {}
  PeerKinds = {"room"}
  Losses = {"disconnected"}
INVARIANTS RoutedToRequester NoStaleSlots PendingAligned
PROPERTY RepliesAsPromised
CHECK_DEADLOCK FALSE
