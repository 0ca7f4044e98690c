\* Two tests of one fixture and up to three steps, anything raised or caught
\* anywhere, save the BaseExceptions that fail a test.
SPECIFICATION Spec
CONSTANTS
  Kinds = {"error", "skipped"}
  Fixtures = 1
  MaxSteps = 3
  MaxTests = 2
INVARIANTS
  StepsAccountedFor
  FailureTraceable
PROPERTIES
  TimelineNests
  TimelineIsWhole
\* The session finishes.
CHECK_DEADLOCK FALSE
