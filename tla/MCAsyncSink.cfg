\* Two threads log twice each, the mode switches twice (off and on again), and
\* the worker is woken once without a reason.
CONSTANTS
  Producers = {p1, p2}
  Worker = Worker
  Nobody = Nobody
  MaxRecords = 2
  MaxSwitches = 2
  MaxSpurious = 1
SPECIFICATION FairSpec
INVARIANTS
  SinkTypeOK
  BackendExclusive
  Conserved
  ThreadOrder
  BatchComplete
PROPERTIES
  ChannelSpec
  CallsReturn
  NotifiedIsWritten
  SleepingSinkCloses
\* The sink stops once destroyed, and its destructor can hang (AsyncSinkHang.cfg).
CHECK_DEADLOCK FALSE
