SPECIFICATION Spec
CONSTANTS
  Sess = {s1, s2, s3}
  Devices = {v1, v2}
  v1 = v1
  v2 = v2
  None = None
  Clients <- RoomClients
  MsgKinds = {"media"}
  MaxMsgs = 1
  MaxAdmin = 1
  NegoCap = 2
  MaxLag = 0
INVARIANTS TypeOK DepartedForgotten RegistriesCleared
SYMMETRY SymmetricRooms
CHECK_DEADLOCK FALSE
