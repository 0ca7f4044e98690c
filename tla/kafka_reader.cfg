\* One test that reads two partitions of up to two messages twice, with the clock
\* standing still if it likes.
SPECIFICATION BrokerSpec
CONSTANTS
  Agents = {"t1"}
  Partitions = {1, 2}
  Values = {"x", "y"}
  Requests <- MixedRequests
  MaxCalls = 2
  MaxLog = 2
  MaxRebalances = 1
INVARIANT OutcomeMatchesTopic
PROPERTIES
  ImplementsTopicReader
  FoundWhenPresent
CHECK_DEADLOCK FALSE
