\* One consume_all call on a topic that may hold two messages.
SPECIFICATION ClockSpec
CONSTANTS
  Agents = {"t1"}
  Partitions = {1}
  Values = {"x"}
  Requests <- ConsumeAllOnly
  MaxCalls = 1
  MaxLog = 2
  MaxRebalances = 0
PROPERTY ConsumesAllAvailable
CHECK_DEADLOCK FALSE
