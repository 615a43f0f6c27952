SPECIFICATION Spec
CONSTANTS
  Sess = {s1, s2}
  Devices = {v1, v2}
  v1 = v1
  v2 = v2
  None = None
  Clients <- RelayClients
  MsgKinds = {"nego", "media", "data", "emergency", "frame"}
  MaxMsgs = 2
  MaxAdmin = 0
  NegoCap = 2
  MaxLag = 1
INVARIANTS NoDuplicateNegotiation ProducersAnnounced OwnProducersGone
SYMMETRY Symmetric
CHECK_DEADLOCK FALSE
