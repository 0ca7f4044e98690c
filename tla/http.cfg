\* Two calls of either agent, every interleaving with a lossy, slow network.
SPECIFICATION FairSpec
CONSTANTS
  Ops <- SafeOps
  MaxCalls = 2
INVARIANTS
  TypeOK
  WritesAtMostOnce
  AnswerMeansExecuted
  RaisesOnlyWhenExhausted
PROPERTIES
  EveryCallEnds
  ImplementsRemoteCalls
\* A scenario ends after MaxCalls calls.
CHECK_DEADLOCK FALSE
