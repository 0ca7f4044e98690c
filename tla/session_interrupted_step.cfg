\* pytest.fail raised inside a step, as pytest-timeout does.
SPECIFICATION Spec
CONSTANTS
  Kinds = {"failed"}
  Fixtures = 0
  MaxSteps = 1
  MaxTests = 1
INVARIANT FailureTraceable
CHECK_DEADLOCK FALSE
