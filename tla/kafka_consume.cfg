\* Two tests consuming one topic of two partitions.
SPECIFICATION ClockSpec
CONSTANTS
  Agents = {"t1", "t2"}
  Partitions = {1, 2}
  Values = {"x", "y"}
  Requests <- MixedRequests
  MaxCalls = 1
  MaxLog = 1
  MaxRebalances = 1
INVARIANTS
  TypeOK
  SeesAllBeforePosition
  ReadsWholeTopic
PROPERTY EveryCallEnds
\* The tests end, and the bounded topic fills up.
CHECK_DEADLOCK FALSE
