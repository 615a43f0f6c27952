SPECIFICATION Spec
CONSTANTS
  Tasks = {t1, t2}
  None = None
  Peers = {"host"}
  Ops = {"create"}
  Threads = 2
  MaxReqs = 3
INVARIANTS TransportsKept
CHECK_DEADLOCK FALSE
