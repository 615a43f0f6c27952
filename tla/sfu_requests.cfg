SPECIFICATION FairSpec
CONSTANTS
  Tasks = {t1, t2}
  None = None
  Peers = {"host"}
  Ops = {"create", "connect", "produce", "consume", "produceData", "consumeData", "join", "rooms", "stats", "leave"}
  Threads = 2
  MaxReqs = 4
INVARIANTS TypeOK BoundToOwnTransport NobodyStalls
PROPERTIES EveryRequestAnswered
CHECK_DEADLOCK FALSE
