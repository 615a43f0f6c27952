SPECIFICATION Spec
CONSTANTS
  Sess = {s1, s2}
  Devices = {v1, v2}
  v1 = v1
  v2 = v2
  None = None
  Clients <- SharedClients
  MsgKinds = {"media"}
  MaxMsgs = 1
  MaxAdmin = 0
  NegoCap = 2
  MaxLag = 0
INVARIANTS DepartedProducersGone
SYMMETRY Symmetric
CHECK_DEADLOCK FALSE
