\* One thread that logs at most once: the destructor against the worker.
CONSTANTS
  Producers = {p1}
  Worker = Worker
  Nobody = Nobody
  MaxRecords = 1
  MaxSwitches = 0
  MaxSpurious = 0
SPECIFICATION FairSpec
PROPERTY DestructorReturns
CHECK_DEADLOCK FALSE
