----------------------- MODULE HttpAgentsRefinement -----------------------
(***************************************************************************)
(* HttpAgents implements RemoteCalls: under the mapping Promises, Results, *)
(* EffectSet every step of the agents, the network or the service is a     *)
(* step of the abstract caller and service, or invisible to them.          *)
(***************************************************************************)
EXTENDS HttpAgentsProofs, SequenceTheorems

\* The mapped sequences, as sequences.
LEMMA MappedTypes ==
  ASSUME TypeOK
  PROVE  /\ Promises \in Seq(BOOLEAN) /\ Len(Promises) = Len(calls)
         /\ Results \in Seq({"ok", "raised"}) /\ Len(Results) = Len(timeline)
<1>1. \A op : PromisedOnce(op) \in BOOLEAN
  BY DEF PromisedOnce
<1>2. DOMAIN calls = 1..Len(calls) /\ DOMAIN timeline = 1..Len(timeline)
  BY DEF TypeOK
<1>3. Promises \in [1..Len(calls) -> BOOLEAN]
  BY <1>1, <1>2 DEF Promises
<1>4. Results \in [1..Len(timeline) -> {"ok", "raised"}]
  BY <1>2 DEF Results
<1>5. Len(calls) \in Nat /\ Len(timeline) \in Nat
  BY DEF TypeOK
<1> QED BY <1>3, <1>4, <1>5

\* Append as a function.
LEMMA AppendIsFunction ==
  ASSUME NEW S, NEW s \in Seq(S), NEW x \in S
  PROVE  Append(s, x) = [i \in 1..(Len(s) + 1) |-> IF i <= Len(s) THEN s[i] ELSE x]
<1> DEFINE t == Append(s, x)
           f == [i \in 1..(Len(s) + 1) |-> IF i <= Len(s) THEN s[i] ELSE x]
<1>1. t \in [1..(Len(s) + 1) -> S] /\ f \in [1..(Len(s) + 1) -> S]
  <2>1. t \in Seq(S) /\ Len(t) = Len(s) + 1
    BY AppendFacts
  <2>2. \A i \in 1..(Len(s) + 1) : (IF i <= Len(s) THEN s[i] ELSE x) \in S
    OBVIOUS
  <2>3. f \in [1..(Len(s) + 1) -> S]
    BY <2>2
  <2>4. t \in [1..Len(t) -> S]
    BY <2>1, LenProperties
  <2> QED BY <2>1, <2>3, <2>4
<1>2. \A i \in 1..(Len(s) + 1) : t[i] = f[i]
  <2>1. \A i \in 1..(Len(s) + 1) : i \in 1..Len(s) \/ (i = Len(s) + 1 /\ ~(i <= Len(s)))
    OBVIOUS
  <2>2. \A i \in 1..Len(s) : i <= Len(s)
    OBVIOUS
  <2> QED BY <2>1, <2>2, AppendFacts
<1> HIDE DEF t, f
<1>3. t = f
  BY <1>1, <1>2
<1> QED BY <1>3 DEF t, f

\* A new call appends its promise.
LEMMA PromisesAppend ==
  ASSUME TypeOK, NEW op \in Ops, calls' = Append(calls, op)
  PROVE  Promises' = Append(Promises, PromisedOnce(op))
<1>1. /\ calls' \in Seq(Ops) /\ Len(calls') = Len(calls) + 1
      /\ \A i \in 1..Len(calls) : calls'[i] = calls[i]
      /\ calls'[Len(calls) + 1] = op
  BY AppendFacts DEF TypeOK
<1>2. /\ Promises' = [i \in 1..(Len(calls) + 1) |-> PromisedOnce(calls'[i])]
      /\ Promises = [i \in 1..Len(calls) |-> PromisedOnce(calls[i])]
  BY <1>1 DEF Promises, TypeOK
<1>3. Len(Promises) = Len(calls) /\ Len(calls) \in Nat
  BY MappedTypes DEF TypeOK
<1>4. Append(Promises, PromisedOnce(op)) =
        [i \in 1..(Len(Promises) + 1) |-> IF i <= Len(Promises) THEN Promises[i] ELSE PromisedOnce(op)]
  <2>1. Promises \in Seq(BOOLEAN) /\ PromisedOnce(op) \in BOOLEAN
    BY MappedTypes DEF PromisedOnce
  <2> QED BY <2>1, AppendIsFunction
<1>5. \A i \in 1..(Len(calls) + 1) :
        PromisedOnce(calls'[i]) = IF i <= Len(calls) THEN Promises[i] ELSE PromisedOnce(op)
  <2> SUFFICES ASSUME NEW i \in 1..(Len(calls) + 1)
               PROVE  PromisedOnce(calls'[i]) = IF i <= Len(calls) THEN Promises[i] ELSE PromisedOnce(op)
    OBVIOUS
  <2>1. CASE i <= Len(calls)
    BY <1>1, <1>2, <1>3, <2>1
  <2>2. CASE ~(i <= Len(calls))
    <3>1. i = Len(calls) + 1
      BY <1>3, <2>2
    <3> QED BY <1>1, <2>2, <3>1
  <2> QED BY <2>1, <2>2
<1> QED BY <1>2, <1>3, <1>4, <1>5

\* An ended call appends its result.
LEMMA ResultsAppend ==
  ASSUME TypeOK, NEW o \in Outcomes, End(o)
  PROVE  Results' = Append(Results, IF o = "returned" THEN "ok" ELSE "raised")
<1> DEFINE x == [outcome |-> o, attempts |-> attempt]
           v == IF o = "returned" THEN "ok" ELSE "raised"
<1>1. /\ Len(timeline') = Len(timeline) + 1 /\ DOMAIN timeline' = 1..(Len(timeline) + 1)
      /\ \A i \in 1..Len(timeline) : timeline'[i] = timeline[i]
      /\ timeline'[Len(timeline) + 1] = x
  BY AppendFacts DEF TypeOK, End
<1>2. Len(Results) = Len(timeline) /\ Len(timeline) \in Nat /\ DOMAIN timeline = 1..Len(timeline)
  BY MappedTypes DEF TypeOK
<1>3. Append(Results, v) =
        [i \in 1..(Len(Results) + 1) |-> IF i <= Len(Results) THEN Results[i] ELSE v]
  BY MappedTypes
<1>4. \A i \in 1..(Len(timeline) + 1) :
        (IF timeline'[i].outcome = "returned" THEN "ok" ELSE "raised") =
        (IF i <= Len(timeline) THEN Results[i] ELSE v)
  BY <1>1, <1>2 DEF Results
<1> QED BY <1>1, <1>2, <1>3, <1>4 DEF Results

-----------------------------------------------------------------------------
\* The end of a call is the abstract Return, if it returned, or Raise.
LEMMA EndRefines ==
  ASSUME TypeOK, Inv, phase # "idle", NEW o \in Outcomes, End(o),
         o = "returned" => answer # "none"
  PROVE  Abstract!Return \/ Abstract!Raise
<1>1. Len(Results) < Len(Promises) /\ Len(Promises) = Len(calls)
  BY MappedTypes DEF Inv, PhaseInv, TypeOK
<1>2. Promises' = Promises /\ EffectSet' = EffectSet
  BY DEF End, Promises, EffectSet
<1>3. CASE o = "returned"
  <2>1. PICK e \in executed : e.req = RequestOf(attempt)
    BY <1>3 DEF Inv, AnswerInv
  <2>2. <<e.req.call, e.req.attempt>> \in EffectSet /\ e.req.call = Len(calls)
    BY <2>1 DEF EffectSet, RequestOf
  <2>3. Abstract!Effects(Len(Promises)) # {}
    BY <1>1, <2>2 DEF Abstract!Effects
  <2>4. Results' = Append(Results, "ok")
    BY <1>3, ResultsAppend
  <2> QED BY <1>1, <1>2, <2>3, <2>4 DEF Abstract!Return
<1>4. CASE o # "returned"
  BY <1>1, <1>2, <1>4, ResultsAppend DEF Abstract!Raise
<1> QED BY <1>3, <1>4

\* An executed request is an effect the abstraction still allows.
LEMMA ExecuteRefines ==
  ASSUME TypeOK, Inv, AnswerMeansExecuted,
         NEW r \in net, NEW body \in Bodies, Execute(r, body)
  PROVE  \E i \in 1..Len(Promises), k \in 1..StopAfterAttempt : Abstract!TakeEffect(i, k)
<1>1. /\ r \in Requests /\ r.call \in 1..Len(calls) /\ r.attempt \in 1..StopAfterAttempt
      /\ DOMAIN timeline = 1..Len(timeline) /\ DOMAIN calls = 1..Len(calls)
  BY DEF Inv, SentInv, Sent, TypeOK, Requests
<1>2. Len(Promises) = Len(calls) /\ Len(Results) = Len(timeline)
  BY MappedTypes
<1>3. EffectSet' = EffectSet \cup {<<r.call, r.attempt>>}
  <2>1. executed' = executed \cup {[req |-> r, ended |-> Len(timeline)]}
    BY DEF Execute
  <2>2. EffectSet' = {<<e.req.call, e.req.attempt>> : e \in executed'}
    BY DEF EffectSet
  <2>3. ASSUME NEW x PROVE x \in EffectSet' <=> x \in EffectSet \cup {<<r.call, r.attempt>>}
    <3>1. x \in EffectSet' <=> \E e \in executed' : x = <<e.req.call, e.req.attempt>>
      BY <2>2
    <3>2. x \in EffectSet <=> \E e \in executed : x = <<e.req.call, e.req.attempt>>
      BY DEF EffectSet
    <3>3. \A e \in executed' : e \in executed \/ e.req = r
      BY <2>1
    <3>4. \A e \in executed : e \in executed'
      BY <2>1
    <3>5. \E e \in executed' : e.req = r
      <4> DEFINE e0 == [req |-> r, ended |-> Len(timeline)]
      <4>1. e0 \in executed' /\ e0.req = r
        BY <2>1
      <4> QED BY <4>1
    <3> QED BY <3>1, <3>2, <3>3, <3>4, <3>5
  <2> QED BY <2>3
<1>4. <<r.call, r.attempt>> \notin EffectSet
  <2>1. ASSUME NEW e \in executed, e.req.call = r.call, e.req.attempt = r.attempt PROVE FALSE
    <3>1. e.req \in Requests
      BY DEF TypeOK
    <3>2. e.req = r
      BY <1>1, <2>1, <3>1 DEF Requests
    <3> QED BY <3>2 DEF Inv, FreshInv
  <2> QED BY <2>1 DEF EffectSet
<1>5. ASSUME Promises[r.call]
      PROVE  Abstract!Effects(r.call) = {} /\ ~(Abstract!Ended(r.call) /\ Results[r.call] = "ok")
  <2>1. PromisedOnce(calls[r.call])
    BY <1>1, <1>5 DEF Promises
  <2>2. r.attempt = 1
    BY <2>1 DEF Inv, SentInv, Sent
  <2>3. \A e \in executed : e.req.call = r.call => e.req.attempt = 1
    BY <2>1 DEF Inv, SentInv, Sent
  <2>4. Abstract!Effects(r.call) = {}
    BY <1>4, <2>2, <2>3 DEF Abstract!Effects, EffectSet
  <2>5. ASSUME Abstract!Ended(r.call), Results[r.call] = "ok" PROVE FALSE
    <3>1. r.call \in DOMAIN timeline
      BY <1>1, <1>2, <2>5 DEF Abstract!Ended, TypeOK
    <3>2. timeline[r.call].outcome = "returned"
      BY <2>5, <3>1 DEF Results
    <3> QED BY <2>1, <3>1, <3>2 DEF AnswerMeansExecuted
  <2> QED BY <2>4, <2>5
<1>6. Promises' = Promises /\ Results' = Results
  BY DEF Execute, Promises, Results
<1>7. Abstract!TakeEffect(r.call, r.attempt)
  BY <1>3, <1>4, <1>5, <1>6 DEF Abstract!TakeEffect
<1> QED BY <1>1, <1>2, <1>7

\* Every step of HttpAgents is a step of RemoteCalls or leaves it unchanged.
LEMMA StepRefines ==
  TypeOK /\ Inv /\ AnswerMeansExecuted /\ [Next]_vars => [Abstract!Next]_(Abstract!vars)
<1> SUFFICES ASSUME TypeOK, Inv, AnswerMeansExecuted, [Next]_vars
             PROVE  Abstract!Next \/ Abstract!vars' = Abstract!vars
  OBVIOUS
<1> USE DEF Abstract!Next
<1>1. ASSUME NEW op \in Ops, Call(op) PROVE Abstract!Begin(PromisedOnce(op))
  <2>1. Promises' = Append(Promises, PromisedOnce(op))
    BY <1>1, PromisesAppend DEF Call
  <2>2. Len(Promises) = Len(Results) /\ Len(Promises) < MaxCalls
    BY <1>1, MappedTypes DEF Call, Inv, PhaseInv
  <2>3. Results' = Results /\ EffectSet' = EffectSet
    BY <1>1 DEF Call, Results, EffectSet
  <2> QED BY <2>1, <2>2, <2>3 DEF Abstract!Begin
<1>2. ASSUME NEW op \in Ops, Call(op) PROVE Abstract!Next
  <2>1. PromisedOnce(op) \in BOOLEAN
    BY DEF PromisedOnce
  <2> QED BY <1>1, <1>2, <2>1
<1>3. ASSUME UNCHANGED <<calls, timeline, executed>> PROVE Abstract!vars' = Abstract!vars
  BY <1>3 DEF Abstract!vars, Promises, Results, EffectSet
<1>4. CASE Send
  BY <1>3, <1>4 DEF Send
<1>5. CASE SendOnClosedClient
  BY <1>5, EndRefines DEF SendOnClosedClient, Outcomes
<1>6. CASE Receive
  BY <1>6, EndRefines, OutcomeType DEF Receive, Outcomes
<1>7. CASE RetryAfterTransportError
  BY <1>3, <1>7 DEF RetryAfterTransportError
<1>8. CASE RaiseTransportError
  BY <1>8, EndRefines DEF RaiseTransportError, Outcomes
<1>9. ASSUME NEW agent \in {"rest", "graphql"}, Close(agent) PROVE Abstract!vars' = Abstract!vars
  BY <1>3, <1>9 DEF Close
<1>10. ASSUME NEW r \in net, NEW body \in Bodies, Execute(r, body) PROVE Abstract!Next
  BY <1>10, ExecuteRefines
<1>11. ASSUME NEW r \in net, Lose(r) PROVE Abstract!vars' = Abstract!vars
  BY <1>3, <1>11 DEF Lose
<1>12. CASE UNCHANGED vars
  BY <1>3, <1>12 DEF vars
<1> QED BY <1>2, <1>4, <1>5, <1>6, <1>7, <1>8, <1>9, <1>10, <1>11, <1>12 DEF Next, Client

\* The agents implement the synchronous remote calls of RemoteCalls, for any
\* operations, any number of calls and any behaviour of the network.
THEOREM Refinement == Spec => ImplementsRemoteCalls
<1>1. Init => Abstract!Init
  BY DEF Init, Abstract!Init, Promises, Results, EffectSet
<1> QED BY <1>1, StepRefines, Invariance, AnswersAreTrue, PTL DEF Spec, ImplementsRemoteCalls, Abstract!Spec
=============================================================================
