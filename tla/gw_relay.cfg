SPECIFICATION Spec
CONSTANTS
  MaxConns = 2
  MaxMsgs = 3
  MaxPeer = 1
  MaxSessions = 2
  EventCap = 8
  EchoCap = 8
  ChildKinds = {"nego", "media"}
  AgentKinds = {"media"}
  PeerKinds = {"nego"}
  Losses = {"error"}
INVARIANTS TypeOK SessionIsolation EchoSuppressed
CHECK_DEADLOCK FALSE
