SPECIFICATION FairRetries
CONSTANTS
  Threads = {"t1", "t2", "t3"}
  Faults = {{}, {"raise", "crash", "late crash", "slow", "uncacheable"}, {"closing"}}
  TTL = 1
  Pks = {1, 2, 3}
CHECK_DEADLOCK FALSE
INVARIANTS ActsOnce OneAnswer
PROPERTY NeverWedged
