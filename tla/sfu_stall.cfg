SPECIFICATION FairSpec
CONSTANTS
  Tasks = {t1, t2}
  None = None
  Peers = {"host"}
  Ops = {"create", "produce"}
  Threads = 1
  MaxReqs = 4
PROPERTIES EveryRequestAnswered
CHECK_DEADLOCK FALSE
