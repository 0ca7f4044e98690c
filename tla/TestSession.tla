---------------------------- MODULE TestSession ----------------------------
(***************************************************************************)
(* The life of the tests of one pytest session: plugin.py's fixtures and   *)
(* its report hook, and the Steps that core/reporting.py records into the  *)
(* TestContext of core/context.py.  Test code and the code of fixtures is  *)
(* arbitrary: at any moment it may enter a step (also inside another one,  *)
(* as a Kafka predicate that queries the database does), leave one, raise  *)
(* or catch.  pytest is external: setup, call, teardown, a report after    *)
(* each, every fixture finalizer run whatever the others do.               *)
(***************************************************************************)
EXTENDS Naturals, Sequences, FiniteSets

CONSTANTS Kinds,     \* kinds of exceptions test code may raise
          Fixtures,  \* bound: fixtures a test requests
          MaxSteps,  \* bound: steps entered in one test
          MaxTests   \* bound: tests of the session

\* "error" derives from Exception; "failed" and "skipped" are what pytest.fail
\* and pytest.skip raise, BaseExceptions only.  pytest-timeout calls
\* pytest.fail in whatever frame the test has reached.
ExceptionKinds == {"error", "failed", "skipped"}

ASSUME KindsAssumption == Kinds \subseteq ExceptionKinds
ASSUME BoundsAssumption == Fixtures \in Nat /\ MaxSteps \in Nat /\ MaxTests \in Nat \ {0}

VARIABLES
  test,     \* number of the running test
  phase,    \* "setup", "call", "teardown", or "finished" after the last test
  up,       \* fixtures set up and not torn down
  entered,  \* steps entered in this test
  stack,    \* steps entered and not left, by number, the innermost last
  steps,    \* test_context.steps
  raising,  \* the exception under way, "none" if there is none
  origin,   \* the steps that were open when it was raised
  report    \* the reports of this test by phase, with the steps its exception left

vars == <<test, phase, up, entered, stack, steps, raising, origin, report>>

Whens == {"setup", "call", "teardown"}
NoReport == [failed |-> FALSE, timeline |-> <<>>, through |-> {}]

StepType == [test : 1..MaxTests, n : 1..MaxSteps, error : BOOLEAN]

TypeOK ==
  /\ test \in 1..MaxTests
  /\ phase \in Whens \cup {"finished"}
  /\ up \in 0..Fixtures
  /\ entered \in 0..MaxSteps
  /\ stack \in Seq(1..entered)
  /\ steps \in Seq(StepType)
  /\ raising \in Kinds \cup {"none"}
  /\ origin \subseteq 1..entered
  /\ report \in [Whens -> [failed : BOOLEAN, timeline : Seq(StepType),
                          through : SUBSET (1..entered)]]

Init ==
  /\ test = 1 /\ phase = "setup" /\ up = 0
  /\ entered = 0 /\ stack = <<>> /\ steps = <<>>
  /\ raising = "none" /\ origin = {}
  /\ report = [w \in Whens |-> NoReport]

-----------------------------------------------------------------------------
(* Steps: the context manager of core/reporting.py *)

Running == phase # "finished"
Innermost == stack[Len(stack)]
OuterSteps == SubSeq(stack, 1, Len(stack) - 1)

Enter ==
  /\ Running /\ raising = "none" /\ entered < MaxSteps
  /\ entered' = entered + 1
  /\ stack' = Append(stack, entered + 1)
  /\ UNCHANGED <<test, phase, up, steps, raising, origin, report>>

\* The finally clause: context.record(s).
Record(error) ==
  /\ steps' = Append(steps, [test |-> test, n |-> Innermost, error |-> error])
  /\ stack' = OuterSteps
  /\ UNCHANGED <<test, phase, up, entered, raising, origin, report>>

LeaveOk == Running /\ raising = "none" /\ stack # <<>> /\ Record(FALSE)

\* Mutants: no finally clause; an error kept out of the Step.
LeaveUnrecorded ==
  /\ Running /\ raising # "none" /\ stack # <<>>
  /\ stack' = OuterSteps
  /\ UNCHANGED <<test, phase, up, entered, steps, raising, origin, report>>
LeaveUnmarked == Running /\ raising # "none" /\ stack # <<>> /\ Record(FALSE)

\* Only "except Exception" sets s.error; every exception is raised on.
LeaveRaising ==
  Running /\ raising # "none" /\ stack # <<>> /\ Record(raising = "error")

-----------------------------------------------------------------------------
(* The code of the test and of its fixtures *)

Raise(kind) ==
  /\ Running /\ raising = "none"
  /\ raising' = kind
  /\ origin' = {stack[i] : i \in DOMAIN stack}
  /\ UNCHANGED <<test, phase, up, entered, stack, steps, report>>

\* pytest.raises, or an except clause such as query_df's; in teardown and setup
\* too.
Catch ==
  /\ Running /\ raising = "error"
  /\ raising' = "none" /\ origin' = {}
  /\ UNCHANGED <<test, phase, up, entered, stack, steps, report>>

SetUpFixture ==
  /\ phase = "setup" /\ raising = "none" /\ stack = <<>> /\ up < Fixtures
  /\ up' = up + 1
  /\ UNCHANGED <<test, phase, entered, stack, steps, raising, origin, report>>

-----------------------------------------------------------------------------
(* pytest's protocol and the hook pytest_runtest_makereport *)

Failed == raising \in {"error", "failed"}

\* Mutant: failed_steps in place of steps.
FailedStepsOnly(when) ==
  IF when = "call" /\ Failed THEN SelectSeq(steps, LAMBDA s : s.error) ELSE <<>>

\* A failed call report gets the whole timeline, if it has any step.
Timeline(when) == IF when = "call" /\ Failed THEN steps ELSE <<>>

Report(when) ==
  report' = [report EXCEPT ![when] =
    [failed |-> Failed, timeline |-> Timeline(when), through |-> origin]]

\* Setup ends with the last fixture, or with an exception, which skips the call.
EndSetup ==
  /\ phase = "setup" /\ stack = <<>>
  /\ raising = "none" => up = Fixtures
  /\ Report("setup")
  /\ phase' = IF raising = "none" THEN "call" ELSE "teardown"
  /\ raising' = "none" /\ origin' = {}
  /\ UNCHANGED <<test, up, entered, stack, steps>>

EndCall ==
  /\ phase = "call" /\ stack = <<>>
  /\ Report("call")
  /\ phase' = "teardown"
  /\ raising' = "none" /\ origin' = {}
  /\ UNCHANGED <<test, up, entered, stack, steps>>

\* A finalizer ends, by an exception or not; the next one runs either way.
TearDownFixture ==
  /\ phase = "teardown" /\ stack = <<>> /\ up > 0
  /\ up' = up - 1
  /\ report' = [report EXCEPT !["teardown"].failed = @ \/ Failed]
  /\ raising' = "none" /\ origin' = {}
  /\ UNCHANGED <<test, phase, entered, stack, steps>>

\* Mutant: a test_context that outlives its test.
NextTestSameContext ==
  /\ phase = "teardown" /\ stack = <<>> /\ up = 0 /\ raising = "none"
  /\ IF test = MaxTests
     THEN phase' = "finished" /\ UNCHANGED <<test, entered, steps, report>>
     ELSE /\ phase' = "setup" /\ test' = test + 1
          /\ entered' = 0
          /\ report' = [w \in Whens |-> NoReport]
          /\ UNCHANGED steps
  /\ UNCHANGED <<up, stack, raising, origin>>

\* The next test has a TestContext of its own.
NextTest ==
  /\ phase = "teardown" /\ stack = <<>> /\ up = 0 /\ raising = "none"
  /\ IF test = MaxTests
     THEN phase' = "finished" /\ UNCHANGED <<test, entered, steps, report>>
     ELSE /\ phase' = "setup" /\ test' = test + 1
          /\ entered' = 0 /\ steps' = <<>>
          /\ report' = [w \in Whens |-> NoReport]
  /\ UNCHANGED <<up, stack, raising, origin>>

Next ==
  \/ Enter \/ LeaveOk \/ LeaveRaising
  \/ \E kind \in Kinds : Raise(kind)
  \/ Catch
  \/ SetUpFixture \/ EndSetup \/ EndCall \/ TearDownFixture \/ NextTest

Spec == Init /\ [][Next]_vars
-----------------------------------------------------------------------------
(* Properties *)

Recorded == {steps[i].n : i \in DOMAIN steps}

\* No step is lost and none is recorded twice or in another test's context:
\* each entered step is either open or in test_context.steps exactly once,
\* whatever was raised through it (the finally clause of step(), a TestContext
\* per test).
StepsAccountedFor ==
  LET open == {stack[i] : i \in DOMAIN stack} IN
  /\ Recorded \cup open = 1..entered
  /\ Recorded \cap open = {}
  /\ Cardinality(Recorded) = Len(steps)
  /\ \A i \in DOMAIN steps : steps[i].test = test

\* The timeline is in the order in which steps end: it grows at its end only, and
\* when a step is recorded (the finally clause of step()), everything entered since
\* it was, that is inside it, is in the timeline already.  This is call order but
\* for nested steps, of which the outer one, called first, comes last.
TimelineNests ==
  [][test' = test /\ steps' # steps =>
       LET s == steps'[Len(steps')] IN
       steps' = Append(steps, s) /\ (s.n + 1)..entered \subseteq Recorded]_vars

\* When the call phase ends, its report carries a timeline exactly if it failed,
\* and then every step entered since the test began, setup included
\* (pytest_runtest_makereport).
TimelineIsWhole ==
  [][phase = "call" /\ phase' = "teardown" =>
       LET shown == report'["call"].timeline IN
       {shown[i].n : i \in DOMAIN shown} = IF report'["call"].failed THEN 1..entered ELSE {}]_vars

\* "A failure deep inside a scenario is traceable in the final timeline dump"
\* (core/reporting.py): if the call phase fails, every step its exception passed
\* through is in the attached timeline and marked as failed.
FailureTraceable ==
  report["call"].failed =>
    \A n \in report["call"].through :
      \E i \in DOMAIN report["call"].timeline :
        report["call"].timeline[i].n = n /\ report["call"].timeline[i].error
=============================================================================
