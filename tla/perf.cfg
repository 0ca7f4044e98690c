\* Three endpoints, two of them of one name, and up to two requests.
SPECIFICATION FairSpec
CONSTANTS
  Endpoints <- MCEndpoints
  Slos <- MCSlos
  MaxHits = 2
INVARIANTS
  TypeOK
  OutcomeMatchesRun
  GateMatchesTraffic
PROPERTY CallEndsWithLocust
\* The gate is the end of the scenario.
CHECK_DEADLOCK FALSE
