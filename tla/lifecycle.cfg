\* Two nested blocks and a pool of two, one row, one order of the scenario or of a
\* parallel test; outages, crashes and statements are not bounded.
SPECIFICATION FairSpec
CONSTANTS
  MaxId = 1
  Conns <- MCConns
  MaxBlocks = 2
  PoolMax = 2
  MaxRequests = 1
INVARIANTS
  TypeOK
  NothingLeftBehind
  ReportedMeansCommitted
  EventsMatchOrders
PROPERTIES
  FailsOnlyOnFault
  ScenarioGoesOn
  EveryOrderAnnounced
\* A scenario may wait for ever for its own block, and the session ends.
CHECK_DEADLOCK FALSE
