-------------------------- MODULE TestSessionProofs --------------------------
(***************************************************************************)
(* Safety of TestSession for any number of tests, fixtures and steps and   *)
(* any kinds of exceptions.  Steps are left innermost first, so those that *)
(* are open form a stack of growing numbers; with that, what is recorded   *)
(* and what is open always make up all that was entered.                   *)
(***************************************************************************)
EXTENDS TestSession, FiniteSetTheorems, SequenceTheorems, TLAPS

Open == {stack[i] : i \in DOMAIN stack}

\* A step opened inside another has the higher number.
StackInv == \A i, j \in DOMAIN stack : i < j => stack[i] < stack[j]

\* An exception has an origin until it is caught or ends the phase.
OriginInv == raising = "none" => origin = {}

\* Each entered step is open or recorded, in the terms used below.
Accounted ==
  /\ Recorded \cup Open = 1..entered
  /\ Recorded \cap Open = {}
  /\ Cardinality(Recorded) = Len(steps)
  /\ \A i \in DOMAIN steps : steps[i].test = test

\* The inductive invariant.
Inv == TypeOK /\ StackInv /\ OriginInv /\ Accounted

USE KindsAssumption, BoundsAssumption

-----------------------------------------------------------------------------
(* Sequences *)

\* Adding an element to a sequence.
LEMMA AppendFacts ==
  ASSUME NEW S, NEW s \in Seq(S), NEW x \in S
  PROVE  /\ Append(s, x) \in Seq(S) /\ Len(Append(s, x)) = Len(s) + 1
         /\ DOMAIN Append(s, x) = 1..(Len(s) + 1) /\ DOMAIN s = 1..Len(s)
         /\ Len(s) \in Nat
         /\ \A i \in 1..Len(s) : Append(s, x)[i] = s[i]
         /\ Append(s, x)[Len(s) + 1] = x
OBVIOUS

\* A sequence without its last element.
LEMMA FrontFacts ==
  ASSUME NEW S, NEW s \in Seq(S), s # <<>>, NEW t, t = SubSeq(s, 1, Len(s) - 1)
  PROVE  /\ t \in Seq(S) /\ Len(s) \in Nat \ {0} /\ Len(t) = Len(s) - 1
         /\ DOMAIN t = 1..(Len(s) - 1) /\ DOMAIN s = 1..Len(s)
         /\ \A i \in 1..(Len(s) - 1) : t[i] = s[i]
         /\ s[Len(s)] \in S
<1>1. Len(s) \in Nat /\ DOMAIN s = 1..Len(s)
  OBVIOUS
<1>2. Len(s) # 0
  BY EmptySeq
<1>3. s[Len(s)] \in S
  BY <1>1, <1>2
<1>4. t \in Seq(S) /\ Len(t) = Len(s) - 1 /\ \A i \in 1..(Len(s) - 1) : t[i] = s[i]
  BY <1>1, <1>2, SubSeqProperties
<1>5. DOMAIN t = 1..(Len(s) - 1)
  BY <1>4
<1> QED BY <1>1, <1>2, <1>3, <1>4, <1>5

\* A sequence is one over any set that has its elements.
LEMMA SeqWiden ==
  ASSUME NEW S, NEW T, NEW s \in Seq(S), S \subseteq T
  PROVE  s \in Seq(T)
OBVIOUS

-----------------------------------------------------------------------------
(* step() *)

\* A step is entered: the innermost, with a number of its own.
LEMMA EnterInv ==
  ASSUME Inv, Enter
  PROVE  Inv'
<1>1. /\ raising = "none" /\ entered < MaxSteps /\ entered' = entered + 1
      /\ stack' = Append(stack, entered + 1)
      /\ UNCHANGED <<test, phase, up, steps, raising, origin, report>>
  BY DEF Enter
<1>2. entered \in Nat /\ 1..entered \subseteq 1..(entered + 1) /\ stack \in Seq(1..entered)
  BY DEF Inv, TypeOK
<1>3. stack \in Seq(1..(entered + 1))
  BY <1>2, SeqWiden
<1>4. /\ stack' \in Seq(1..entered') /\ DOMAIN stack' = 1..(Len(stack) + 1)
      /\ DOMAIN stack = 1..Len(stack) /\ Len(stack) \in Nat
      /\ \A i \in 1..Len(stack) : stack'[i] = stack[i]
      /\ stack'[Len(stack) + 1] = entered + 1
  BY <1>1, <1>2, <1>3, AppendFacts
<1>5. \A i \in DOMAIN stack : stack[i] \in 1..entered
  BY <1>2
<1>6. TypeOK'
  <2>1. report \in [Whens -> [failed : BOOLEAN, timeline : Seq(StepType),
                              through : SUBSET (1..entered)]]
    BY DEF Inv, TypeOK
  <2>2. report \in [Whens -> [failed : BOOLEAN, timeline : Seq(StepType),
                              through : SUBSET (1..(entered + 1))]]
    BY <1>2, <2>1
  <2>3. origin' \subseteq 1..entered' /\ entered' \in 0..MaxSteps
    BY <1>1, <1>2 DEF Inv, TypeOK
  <2> QED BY <1>1, <1>4, <2>2, <2>3 DEF Inv, TypeOK
<1>7. StackInv' /\ OriginInv'
  BY <1>1, <1>2, <1>4, <1>5 DEF Inv, StackInv, OriginInv
<1>8. Open' = Open \cup {entered + 1}
  BY <1>4 DEF Open
<1>9. Accounted'
  <2>1. 1..(entered + 1) = 1..entered \cup {entered + 1} /\ entered + 1 \notin 1..entered
    BY <1>2
  <2>2. Recorded' = Recorded
    BY <1>1 DEF Recorded
  <2> QED BY <1>1, <1>8, <2>1, <2>2 DEF Inv, Accounted
<1> QED BY <1>6, <1>7, <1>9 DEF Inv

\* The innermost step is left and recorded.
LEMMA RecordInv ==
  ASSUME Inv, NEW error \in BOOLEAN, stack # <<>>, Record(error)
  PROVE  Inv'
<1> DEFINE top == stack[Len(stack)]
           s == [test |-> test, n |-> top, error |-> error]
<1> PICK m : m = Len(steps) + 1
  OBVIOUS
<1>1. /\ steps' = Append(steps, s) /\ stack' = SubSeq(stack, 1, Len(stack) - 1)
      /\ UNCHANGED <<test, phase, up, entered, raising, origin, report>>
  BY DEF Record, Innermost, OuterSteps
<1>2. /\ stack' \in Seq(1..entered) /\ Len(stack) \in Nat \ {0}
      /\ DOMAIN stack' = 1..(Len(stack) - 1) /\ DOMAIN stack = 1..Len(stack)
      /\ \A i \in 1..(Len(stack) - 1) : stack'[i] = stack[i]
      /\ top \in 1..entered
  BY <1>1, FrontFacts DEF Inv, TypeOK
<1>3. s \in StepType /\ entered \in 0..MaxSteps
  BY <1>2 DEF Inv, TypeOK, StepType
<1>4. /\ steps' \in Seq(StepType) /\ Len(steps') = m /\ DOMAIN steps' = 1..m
      /\ DOMAIN steps = 1..Len(steps) /\ Len(steps) \in Nat
      /\ \A i \in 1..Len(steps) : steps'[i] = steps[i]
      /\ steps'[m] = s
  BY <1>1, <1>3, AppendFacts DEF Inv, TypeOK
<1>5. \A i \in 1..m : i \in 1..Len(steps) \/ i = m
  BY <1>4
<1>6. TypeOK' /\ OriginInv'
  BY <1>1, <1>2, <1>4 DEF Inv, TypeOK, OriginInv
<1>7. StackInv'
  BY <1>1, <1>2 DEF Inv, StackInv
<1>8. \A i \in 1..(Len(stack) - 1) : stack[i] < top
  BY <1>2 DEF Inv, StackInv
<1>9. Open = Open' \cup {top} /\ top \notin Open'
  <2>1. \A i \in 1..Len(stack) : i = Len(stack) \/ i \in 1..(Len(stack) - 1)
    <3>1. Len(stack) \in Nat \ {0}
      BY <1>2
    <3> QED BY <3>1
  <2>2. Len(stack) \in 1..Len(stack) /\ 1..(Len(stack) - 1) \subseteq 1..Len(stack)
    <3>1. Len(stack) \in Nat \ {0}
      BY <1>2
    <3> QED BY <3>1
  <2>3. Open' = {stack[i] : i \in 1..(Len(stack) - 1)}
    BY <1>2 DEF Open
  <2>4. Open = Open' \cup {top}
    BY <1>2, <2>1, <2>2, <2>3 DEF Open
  <2>5. \A i \in 1..(Len(stack) - 1) : stack[i] # top
    BY <1>2, <1>8, <2>2 DEF Inv, TypeOK
  <2> QED BY <2>3, <2>4, <2>5
<1>10. Recorded' = Recorded \cup {top} /\ top \notin Recorded
  <2>1. Recorded' = Recorded \cup {top}
    BY <1>4, <1>5 DEF Recorded
  <2> QED BY <1>9, <2>1 DEF Inv, Accounted
<1>11. Accounted'
  <2>1. Recorded \subseteq 1..entered
    BY DEF Inv, Accounted
  <2>2. IsFiniteSet(Recorded)
    <3>1. entered \in Int
      BY <1>3
    <3>2. IsFiniteSet(1..entered)
      BY <3>1, FS_Interval
    <3> QED BY <2>1, <3>2, FS_Subset
  <2>3. Cardinality(Recorded') = Len(steps')
    <3>1. Cardinality(Recorded \cup {top}) = Cardinality(Recorded) + 1
      BY <1>10, <2>2, FS_AddElement
    <3>2. Cardinality(Recorded) = Len(steps)
      BY DEF Inv, Accounted
    <3> QED BY <1>4, <1>10, <3>1, <3>2
  <2>4. Recorded' \cup Open' = 1..entered /\ Recorded' \cap Open' = {}
    BY <1>9, <1>10 DEF Inv, Accounted
  <2>5. \A i \in DOMAIN steps' : steps'[i].test = test
    BY <1>4, <1>5 DEF Inv, Accounted
  <2> QED BY <1>1, <2>3, <2>4, <2>5 DEF Accounted
<1> QED BY <1>6, <1>7, <1>11 DEF Inv

-----------------------------------------------------------------------------
(* The test code, its fixtures and pytest *)

\* What leaves the steps and the stack alone disturbs nothing that is said of them.
LEMMA SameStepsInv ==
  ASSUME Inv, TypeOK', OriginInv', UNCHANGED <<test, entered, stack, steps>>
  PROVE  Inv'
<1>1. StackInv'
  BY DEF Inv, StackInv
<1>2. Recorded' = Recorded /\ Open' = Open
  BY DEF Recorded, Open
<1>3. Accounted'
  BY <1>2 DEF Inv, Accounted
<1> QED BY <1>1, <1>3 DEF Inv

\* An exception or its capture moves only raising and origin.
LEMMA RaiseCatchInv ==
  ASSUME Inv, (\E kind \in Kinds : Raise(kind)) \/ Catch
  PROVE  Inv'
<1>1. Open \subseteq 1..entered
  BY DEF Inv, Accounted
<1>2. CASE \E kind \in Kinds : Raise(kind)
  <2>1. PICK kind \in Kinds : Raise(kind)
    BY <1>2
  <2>2. /\ raising' = kind /\ origin' = Open
        /\ UNCHANGED <<test, phase, up, entered, stack, steps, report>>
    BY <2>1 DEF Raise, Open
  <2>3. "none" \notin Kinds
    BY DEF KindsAssumption, ExceptionKinds
  <2>4. TypeOK' /\ OriginInv'
    BY <1>1, <2>2, <2>3 DEF Inv, TypeOK, OriginInv
  <2> QED BY <2>2, <2>4, SameStepsInv
<1>3. CASE Catch
  <2>1. TypeOK' /\ OriginInv'
    BY <1>3 DEF Catch, Inv, TypeOK, OriginInv
  <2> QED BY <1>3, <2>1, SameStepsInv DEF Catch
<1> QED BY <1>2, <1>3

\* The type of a report and of the reports of a test.
ReportType == [failed : BOOLEAN, timeline : Seq(StepType), through : SUBSET (1..entered)]

\* A report is made of what the phase left behind.
LEMMA ReportTyped ==
  ASSUME Inv, NEW when \in Whens, Report(when)
  PROVE  report' \in [Whens -> ReportType]
<1> DEFINE r == [failed |-> Failed, timeline |-> Timeline(when), through |-> origin]
<1>1. Timeline(when) \in Seq(StepType)
  BY DEF Timeline, Inv, TypeOK
<1>2. Failed \in BOOLEAN
  BY DEF Failed
<1>3. r \in ReportType
  BY <1>1, <1>2 DEF ReportType, Inv, TypeOK
<1>4. report \in [Whens -> ReportType] /\ report' = [report EXCEPT ![when] = r]
  BY DEF ReportType, Inv, TypeOK, Report
<1> HIDE DEF r
<1> QED BY <1>3, <1>4

\* Setup: a fixture more, or its end.
LEMMA SetupInv ==
  ASSUME Inv, SetUpFixture \/ EndSetup
  PROVE  Inv'
<1>1. CASE SetUpFixture
  <2>1. up' \in 0..Fixtures
    BY <1>1 DEF SetUpFixture, Inv, TypeOK
  <2>2. TypeOK' /\ OriginInv'
    BY <1>1, <2>1 DEF SetUpFixture, Inv, TypeOK, OriginInv
  <2> QED BY <1>1, <2>2, SameStepsInv DEF SetUpFixture
<1>2. CASE EndSetup
  <2>1. /\ phase' \in Whens /\ raising' = "none" /\ origin' = {}
        /\ UNCHANGED <<test, up, entered, stack, steps>>
    BY <1>2 DEF EndSetup, Whens
  <2>2. report' \in [Whens -> ReportType]
    BY <1>2, ReportTyped DEF EndSetup, Whens
  <2>3. TypeOK' /\ OriginInv'
    BY <2>1, <2>2 DEF Inv, TypeOK, OriginInv, ReportType
  <2> QED BY <2>1, <2>3, SameStepsInv
<1> QED BY <1>1, <1>2

\* The call ends.
LEMMA EndCallInv ==
  ASSUME Inv, EndCall
  PROVE  Inv'
<1>1. /\ phase' \in Whens /\ raising' = "none" /\ origin' = {}
      /\ UNCHANGED <<test, up, entered, stack, steps>>
  BY DEF EndCall, Whens
<1>2. report' \in [Whens -> ReportType]
  BY ReportTyped DEF EndCall, Whens
<1>3. TypeOK' /\ OriginInv'
  BY <1>1, <1>2 DEF Inv, TypeOK, OriginInv, ReportType
<1> QED BY <1>1, <1>3, SameStepsInv

\* A finalizer ends.
LEMMA TearDownInv ==
  ASSUME Inv, TearDownFixture
  PROVE  Inv'
<1> DEFINE old == report["teardown"]
           r == [old EXCEPT !.failed = @ \/ Failed]
<1>1. /\ raising' = "none" /\ origin' = {} /\ up > 0 /\ up' = up - 1
      /\ UNCHANGED <<test, phase, entered, stack, steps>>
      /\ report' = [report EXCEPT !["teardown"] = r]
  BY DEF TearDownFixture
<1>2. report \in [Whens -> ReportType] /\ old \in ReportType /\ "teardown" \in Whens
  BY DEF Inv, TypeOK, ReportType, Whens
<1>3. r \in ReportType
  BY <1>2 DEF ReportType, Failed
<1>4. report' \in [Whens -> ReportType]
  <2> HIDE DEF r
  <2> QED BY <1>1, <1>2, <1>3
<1>5. up' \in 0..Fixtures
  BY <1>1 DEF Inv, TypeOK
<1>6. TypeOK' /\ OriginInv'
  BY <1>1, <1>4, <1>5 DEF Inv, TypeOK, OriginInv, ReportType
<1> QED BY <1>1, <1>6, SameStepsInv

\* The reports of a test that has just begun.
LEMMA NoReportTyped ==
  [w \in Whens |-> NoReport] \in [Whens -> [failed : BOOLEAN, timeline : Seq(StepType),
                                            through : SUBSET (1..0)]]
BY DEF NoReport

\* A test context of its own, with nothing in it.
LEMMA FreshContext ==
  ASSUME entered' = 0, steps' = <<>>, stack' = <<>>
  PROVE  StackInv' /\ Accounted'
<1>1. DOMAIN <<>> = {} /\ Len(<<>>) = 0 /\ 1..0 = {}
  OBVIOUS
<1>2. Recorded' = {} /\ Open' = {}
  BY <1>1 DEF Recorded, Open
<1>3. Accounted'
  BY <1>1, <1>2, FS_EmptySet DEF Accounted
<1> QED BY <1>1, <1>3 DEF StackInv

\* The next test begins, or the session ends.
LEMMA NextTestInv ==
  ASSUME Inv, NextTest
  PROVE  Inv'
<1>1. /\ stack = <<>> /\ raising = "none" /\ origin = {}
      /\ UNCHANGED <<up, stack, raising, origin>>
  BY DEF NextTest, Inv, OriginInv
<1>2. CASE test = MaxTests
  <2>1. phase' = "finished" /\ UNCHANGED <<test, entered, steps, report>>
    BY <1>2 DEF NextTest
  <2>2. TypeOK' /\ OriginInv'
    BY <1>1, <2>1 DEF Inv, TypeOK, OriginInv
  <2> QED BY <1>1, <2>1, <2>2, SameStepsInv
<1>3. CASE test # MaxTests
  <2>1. /\ phase' = "setup" /\ test' = test + 1 /\ entered' = 0 /\ steps' = <<>>
        /\ report' = [w \in Whens |-> NoReport]
    BY <1>3 DEF NextTest
  <2>2. test' \in 1..MaxTests
    BY <1>3, <2>1 DEF Inv, TypeOK
  <2>3. report' \in [Whens -> [failed : BOOLEAN, timeline : Seq(StepType),
                               through : SUBSET (1..entered')]]
    BY <2>1, NoReportTyped
  <2>4. stack' \in Seq(1..entered') /\ steps' \in Seq(StepType)
    BY <1>1, <2>1
  <2>5. TypeOK' /\ OriginInv'
    BY <1>1, <2>1, <2>2, <2>3, <2>4 DEF Inv, TypeOK, OriginInv, Whens
  <2> QED BY <1>1, <2>1, <2>5, FreshContext DEF Inv
<1> QED BY <1>2, <1>3

-----------------------------------------------------------------------------
(* The session *)

\* The first test begins.
LEMMA InitInv ==
  ASSUME Init
  PROVE  Inv
<1>1. stack \in Seq(1..entered) /\ steps \in Seq(StepType)
  BY DEF Init
<1>2. report \in [Whens -> [failed : BOOLEAN, timeline : Seq(StepType),
                            through : SUBSET (1..entered)]]
  BY NoReportTyped DEF Init
<1>3. TypeOK /\ OriginInv
  BY <1>1, <1>2 DEF Init, TypeOK, OriginInv, Whens
<1>4. DOMAIN <<>> = {} /\ Len(<<>>) = 0 /\ 1..0 = {}
  OBVIOUS
<1>5. Recorded = {} /\ Open = {}
  BY <1>4 DEF Recorded, Open, Init
<1>6. Accounted
  BY <1>4, <1>5, FS_EmptySet DEF Accounted, Init
<1> QED BY <1>3, <1>4, <1>6 DEF Inv, StackInv, Init

\* Every step of the session keeps the invariant.
LEMMA NextInv ==
  ASSUME Inv, [Next]_vars
  PROVE  Inv'
<1>1. CASE Enter
  BY <1>1, EnterInv
<1>2. CASE LeaveOk
  BY <1>2, RecordInv DEF LeaveOk
<1>3. CASE LeaveRaising
  <2>1. (raising = "error") \in BOOLEAN
    OBVIOUS
  <2> QED BY <1>3, <2>1, RecordInv DEF LeaveRaising
<1>4. CASE (\E kind \in Kinds : Raise(kind)) \/ Catch
  BY <1>4, RaiseCatchInv
<1>5. CASE SetUpFixture \/ EndSetup
  BY <1>5, SetupInv
<1>6. CASE EndCall
  BY <1>6, EndCallInv
<1>7. CASE TearDownFixture
  BY <1>7, TearDownInv
<1>8. CASE NextTest
  BY <1>8, NextTestInv
<1>9. CASE UNCHANGED vars
  <2>1. TypeOK' /\ OriginInv'
    BY <1>9 DEF vars, Inv, TypeOK, OriginInv
  <2> QED BY <1>9, <2>1, SameStepsInv DEF vars
<1> QED BY <1>1, <1>2, <1>3, <1>4, <1>5, <1>6, <1>7, <1>8, <1>9 DEF Next

\* The invariant holds of every run.
THEOREM Invariance == Spec => []Inv
<1>1. Init => Inv
  BY InitInv
<1>2. Inv /\ [Next]_vars => Inv'
  BY NextInv
<1> QED BY <1>1, <1>2, PTL DEF Spec

\* Every variable keeps its type.
THEOREM TypeCorrect == Spec => []TypeOK
<1>1. Inv => TypeOK
  BY DEF Inv
<1> QED BY <1>1, Invariance, PTL

\* Every step entered in a test is open or recorded exactly once, in the context
\* of that test, whatever was raised through it.
THEOREM NoStepIsLost == Spec => []StepsAccountedFor
<1>1. Inv => StepsAccountedFor
  BY DEF Inv, Accounted, StepsAccountedFor, Open
<1> QED BY <1>1, Invariance, PTL

\* What was entered after the innermost open step is recorded.
LEMMA InsideIsRecorded ==
  ASSUME Inv, stack # <<>>
  PROVE  (Innermost + 1)..entered \subseteq Recorded
<1> SUFFICES ASSUME NEW n \in (Innermost + 1)..entered
             PROVE  n \in Recorded
  OBVIOUS
<1>1. /\ Len(stack) \in Nat \ {0} /\ DOMAIN stack = 1..Len(stack)
      /\ Innermost \in 1..entered /\ entered \in Nat
  BY FrontFacts DEF Inv, TypeOK, Innermost
<1>2. n \in 1..entered /\ n > Innermost
  BY <1>1
<1>3. \A i \in 1..Len(stack) : stack[i] # n
  <2> SUFFICES ASSUME NEW i \in 1..Len(stack)
               PROVE  stack[i] # n
    OBVIOUS
  <2>1. CASE i = Len(stack)
    BY <1>1, <1>2, <2>1 DEF Innermost
  <2>2. CASE i # Len(stack)
    <3>1. i < Len(stack) /\ Len(stack) \in DOMAIN stack /\ i \in DOMAIN stack
      <4>1. Len(stack) \in Nat \ {0} /\ DOMAIN stack = 1..Len(stack)
        BY <1>1
      <4>2. \A k \in Nat \ {0} : \A x \in 1..k : x # k => x < k /\ k \in 1..k
        OBVIOUS
      <4>3. i < Len(stack) /\ Len(stack) \in 1..Len(stack)
        BY <4>1, <4>2, <2>2
      <4> QED BY <4>1, <4>3
    <3>2. stack[i] < Innermost /\ stack[i] \in 1..entered
      BY <3>1 DEF Inv, TypeOK, StackInv, Innermost
    <3> QED BY <1>1, <1>2, <3>2
  <2> QED BY <2>1, <2>2
<1> QED BY <1>1, <1>2, <1>3 DEF Inv, Accounted, Open

\* The timeline lists a step after all that happened inside it.
THEOREM TimelineIsNested == Spec => TimelineNests
<1> DEFINE s == steps'[Len(steps')]
           Nests == test' = test /\ steps' # steps =>
                      steps' = Append(steps, s) /\ (s.n + 1)..entered \subseteq Recorded
<1>1. ASSUME Inv, [Next]_vars
      PROVE  Nests
  <2> SUFFICES ASSUME test' = test, steps' # steps
               PROVE  steps' = Append(steps, s) /\ (s.n + 1)..entered \subseteq Recorded
    OBVIOUS
  <2>1. LeaveOk \/ LeaveRaising
    <3>1. ASSUME NextTest PROVE FALSE
      BY <1>1, <3>1 DEF NextTest, Inv, TypeOK
    <3> QED BY <1>1, <3>1 DEF Next, vars, Enter, Raise, Catch, SetUpFixture, EndSetup, EndCall,
                              TearDownFixture
  <2>2. stack # <<>> /\ \E error \in BOOLEAN : Record(error)
    <3>1. (raising = "error") \in BOOLEAN
      OBVIOUS
    <3> QED BY <2>1, <3>1 DEF LeaveOk, LeaveRaising
  <2>3. PICK error \in BOOLEAN : Record(error)
    BY <2>2
  <2>4. steps' = Append(steps, [test |-> test, n |-> Innermost, error |-> error])
    BY <2>3 DEF Record
  <2>5. steps \in Seq(StepType)
    BY <1>1 DEF Inv, TypeOK
  <2>6. s = [test |-> test, n |-> Innermost, error |-> error]
    BY <2>4, <2>5
  <2>7. s.n = Innermost
    BY <2>6
  <2> HIDE DEF s
  <2> QED BY <1>1, <2>2, <2>4, <2>6, <2>7, InsideIsRecorded
<1>2. Inv /\ [Next]_vars => Nests
  BY <1>1
<1>3. Nests => (test' = test /\ steps' # steps =>
        LET t == steps'[Len(steps')] IN
        steps' = Append(steps, t) /\ (t.n + 1)..entered \subseteq Recorded)
  OBVIOUS
<1> HIDE DEF Nests
<1> QED BY <1>2, <1>3, Invariance, PTL DEF Spec, TimelineNests

\* A failed call shows every step of the test, a passed one shows none.
THEOREM FailedCallShowsAll == Spec => TimelineIsWhole
<1> DEFINE Shown(t) == {t[i].n : i \in DOMAIN t}
           Whole == phase = "call" /\ phase' = "teardown" =>
                      Shown(report'["call"].timeline)
                        = IF report'["call"].failed THEN 1..entered ELSE {}
<1>1. ASSUME Inv, [Next]_vars
      PROVE  Whole
  <2> SUFFICES ASSUME phase = "call", phase' = "teardown"
               PROVE  Shown(report'["call"].timeline)
                        = IF report'["call"].failed THEN 1..entered ELSE {}
    OBVIOUS
  <2>1. EndCall
    <3>1. phase' # phase
      OBVIOUS
    <3> QED BY <1>1, <3>1 DEF Next, vars, Enter, LeaveOk, LeaveRaising, Record, Raise, Catch,
                              SetUpFixture, EndSetup, TearDownFixture, NextTest
  <2>2. /\ stack = <<>>
        /\ report'["call"] = [failed |-> Failed, timeline |-> Timeline("call"),
                              through |-> origin]
    BY <1>1, <2>1 DEF EndCall, Report, Inv, TypeOK, Whens
  <2>3. Recorded = 1..entered
    <3>1. Open = {}
      BY <2>2 DEF Open
    <3> QED BY <1>1, <3>1 DEF Inv, Accounted
  <2>4. CASE Failed
    BY <2>2, <2>3, <2>4 DEF Timeline, Recorded
  <2>5. CASE ~Failed
    <3>1. DOMAIN <<>> = {}
      OBVIOUS
    <3> QED BY <2>2, <2>5, <3>1 DEF Timeline
  <2> QED BY <2>4, <2>5
<1>2. Inv /\ [Next]_vars => Whole
  BY <1>1
<1>3. Whole => (phase = "call" /\ phase' = "teardown" =>
       LET shown == report'["call"].timeline IN
       {shown[i].n : i \in DOMAIN shown} = IF report'["call"].failed THEN 1..entered ELSE {})
  OBVIOUS
<1> HIDE DEF Whole
<1> QED BY <1>2, <1>3, Invariance, PTL DEF Spec, TimelineIsWhole

-----------------------------------------------------------------------------
(* Tracing a failure *)

\* A step of the timeline that is marked as failed.
Marked(n) == \E i \in DOMAIN steps : steps[i].n = n /\ steps[i].error

\* What an error passes through is still open or is marked.
ErrorInv == raising = "error" => \A n \in origin : n \in Open \/ Marked(n)

\* When nothing but errors fails a test, each step keeps the trace.
TraceInv == ErrorInv /\ FailureTraceable

\* A step that is left while an error is raised is marked.
LEMMA LeaveTraced ==
  ASSUME Inv, TraceInv, LeaveRaising
  PROVE  TraceInv'
<1> DEFINE top == stack[Len(stack)]
           s == [test |-> test, n |-> top, error |-> raising = "error"]
<1>1. /\ stack # <<>> /\ stack' = SubSeq(stack, 1, Len(stack) - 1)
      /\ steps' = Append(steps, s)
      /\ UNCHANGED <<raising, origin, report>>
  BY DEF LeaveRaising, Record, Innermost, OuterSteps
<1>2. /\ Len(stack) \in Nat \ {0} /\ DOMAIN stack = 1..Len(stack)
      /\ DOMAIN stack' = 1..(Len(stack) - 1)
      /\ \A i \in 1..(Len(stack) - 1) : stack'[i] = stack[i]
      /\ top \in 1..entered
  BY <1>1, FrontFacts DEF Inv, TypeOK
<1>3. s \in StepType
  BY <1>2 DEF Inv, TypeOK, StepType
<1>4. /\ DOMAIN steps' = 1..(Len(steps) + 1) /\ DOMAIN steps = 1..Len(steps)
      /\ Len(steps) \in Nat /\ \A i \in 1..Len(steps) : steps'[i] = steps[i]
      /\ steps'[Len(steps) + 1] = s
  BY <1>1, <1>3, AppendFacts DEF Inv, TypeOK
<1>5. FailureTraceable'
  BY <1>1 DEF TraceInv, FailureTraceable
<1>6. ErrorInv'
  <2> SUFFICES ASSUME raising = "error", NEW n \in origin
               PROVE  n \in Open' \/ Marked(n)'
    BY <1>1 DEF ErrorInv
  <2>1. CASE n \in Open
    <3>1. PICK i \in 1..Len(stack) : n = stack[i]
      BY <1>2, <2>1 DEF Open
    <3>2. i = Len(stack) \/ i \in 1..(Len(stack) - 1)
      <4>1. Len(stack) \in Nat
        BY <1>2
      <4> QED BY <4>1
    <3>3. CASE i \in 1..(Len(stack) - 1)
      BY <1>2, <3>1, <3>3 DEF Open
    <3>4. CASE i = Len(stack)
      <4>1. Len(steps) + 1 \in DOMAIN steps'
        BY <1>4
      <4>2. s.n = n /\ s.error
        BY <3>1, <3>4
      <4> QED BY <1>4, <4>1, <4>2 DEF Marked
    <3> QED BY <3>2, <3>3, <3>4
  <2>2. CASE Marked(n)
    <3>1. PICK i \in 1..Len(steps) : steps[i].n = n /\ steps[i].error
      BY <1>4, <2>2 DEF Marked
    <3>2. i \in DOMAIN steps' /\ steps'[i] = steps[i]
      BY <1>4
    <3> QED BY <3>1, <3>2 DEF Marked
  <2> QED BY <2>1, <2>2 DEF TraceInv, ErrorInv
<1> QED BY <1>5, <1>6 DEF TraceInv

\* A call that an error ends has marked all the error passed through.
LEMMA EndCallTraced ==
  ASSUME Inv, TraceInv, EndCall, "failed" \notin Kinds
  PROVE  TraceInv'
<1>1. /\ stack = <<>> /\ raising' = "none"
      /\ report'["call"] = [failed |-> Failed, timeline |-> Timeline("call"),
                            through |-> origin]
  BY DEF EndCall, Report, Inv, TypeOK, Whens
<1>2. Open = {}
  BY <1>1 DEF Open
<1>3. FailureTraceable'
  <2> SUFFICES ASSUME Failed, NEW n \in origin
               PROVE  \E i \in DOMAIN report'["call"].timeline :
                        /\ report'["call"].timeline[i].n = n
                        /\ report'["call"].timeline[i].error
    BY <1>1 DEF FailureTraceable
  <2>1. raising = "error"
    BY DEF Failed, Inv, TypeOK
  <2>2. Marked(n)
    BY <1>2, <2>1 DEF TraceInv, ErrorInv
  <2>3. report'["call"].timeline = steps
    BY <1>1 DEF Timeline
  <2> QED BY <2>2, <2>3 DEF Marked
<1> QED BY <1>1, <1>3 DEF TraceInv, ErrorInv

\* Every step of a session in which only errors fail a test keeps the trace.
LEMMA NextTraced ==
  ASSUME Inv, TraceInv, [Next]_vars, "failed" \notin Kinds
  PROVE  TraceInv'
<1>1. CASE Enter \/ LeaveOk \/ Catch \/ SetUpFixture
  <2>1. raising' # "error" /\ report' = report
    BY <1>1 DEF Enter, LeaveOk, Record, Catch, SetUpFixture
  <2> QED BY <2>1 DEF TraceInv, ErrorInv, FailureTraceable
<1>2. CASE LeaveRaising
  BY <1>2, LeaveTraced
<1>3. ASSUME NEW kind \in Kinds, Raise(kind)
      PROVE  TraceInv'
  <2>1. origin' = Open /\ Open' = Open /\ report' = report
    BY <1>3 DEF Raise, Open
  <2> QED BY <2>1 DEF TraceInv, ErrorInv, FailureTraceable
<1>4. CASE EndSetup
  <2>1. raising' = "none" /\ report'["call"] = report["call"]
    BY <1>4 DEF EndSetup, Report, Inv, TypeOK, Whens
  <2> QED BY <2>1 DEF TraceInv, ErrorInv, FailureTraceable
<1>5. CASE EndCall
  BY <1>5, EndCallTraced
<1>6. CASE TearDownFixture
  <2>1. raising' = "none" /\ report'["call"] = report["call"]
    BY <1>6 DEF TearDownFixture, Inv, TypeOK, Whens
  <2> QED BY <2>1 DEF TraceInv, ErrorInv, FailureTraceable
<1>7. CASE NextTest
  <2>1. raising' = "none"
    BY <1>7 DEF NextTest
  <2>2. report' = report \/ report'["call"] = NoReport
    BY <1>7 DEF NextTest, Whens
  <2>3. FailureTraceable'
    BY <2>2 DEF TraceInv, FailureTraceable, NoReport
  <2> QED BY <2>1, <2>3 DEF TraceInv, ErrorInv
<1>8. CASE UNCHANGED vars
  <2>1. Open' = Open /\ \A n : Marked(n)' <=> Marked(n)
    BY <1>8 DEF vars, Open, Marked
  <2> QED BY <1>8, <2>1 DEF vars, TraceInv, ErrorInv, FailureTraceable
<1> QED BY <1>1, <1>2, <1>3, <1>4, <1>5, <1>6, <1>7, <1>8 DEF Next

\* Unless pytest.fail ends it (a BaseException, which step() lets pass unmarked),
\* a failed call shows every step its exception passed through, marked as failed.
THEOREM FailureIsTraced ==
  ASSUME "failed" \notin Kinds
  PROVE  Spec => []FailureTraceable
<1>1. Init => Inv /\ TraceInv
  <2>1. Init => TraceInv
    BY DEF Init, TraceInv, ErrorInv, FailureTraceable, NoReport, Whens
  <2> QED BY <2>1, InitInv
<1>2. Inv /\ TraceInv /\ [Next]_vars => (Inv /\ TraceInv)'
  BY NextInv, NextTraced
<1>3. TraceInv => FailureTraceable
  BY DEF TraceInv
<1> QED BY <1>1, <1>2, <1>3, PTL DEF Spec
=============================================================================
