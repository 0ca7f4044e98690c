\* Three messages with and without flush, a queue of two, one consumer to close.
SPECIFICATION FairSpec
CONSTANTS
  MaxCalls = 3
  FlushTime = 2
  QueueMax = 2
  MaxConsumers = 2
INVARIANTS
  TypeOK
  ErrorsStayWithTheirCall
  FlushedMeansSettled
  FullOnlyWithoutFlush
  CloseLeavesNothing
PROPERTY EveryCallEnds
\* A closed agent is not used again.
CHECK_DEADLOCK FALSE
