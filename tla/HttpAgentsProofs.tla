------------------------- MODULE HttpAgentsProofs -------------------------
(***************************************************************************)
(* Theorems about HttpAgents, for every set of operations and every number *)
(* of calls.  The safety of a write rests on three facts: a call promised  *)
(* once never takes the retrying path, every request in transit or         *)
(* executed belongs to an attempt already counted, and a request is        *)
(* executed at most once.  Inv puts them together.                         *)
(***************************************************************************)
EXTENDS HttpAgents, TLAPS

\* The number of the running call, and the bracket the Step opens and closes.
PhaseInv ==
  /\ phase = "idle" => Len(calls) = Len(timeline) /\ attempt = 0
  /\ phase # "idle" => Len(calls) = Len(timeline) + 1
  /\ phase = "ready" => attempt < StopAfterAttempt

\* A call that is not retried has sent nothing while it is ready to send.
FirstSendInv == phase = "ready" /\ ~Retried(CurrentOp) => attempt = 0

\* Request r belongs to an attempt that was made.
Sent(r) ==
  /\ r.call \in 1..Len(calls)
  /\ phase # "idle" /\ r.call = Len(calls) => r.attempt <= attempt
  /\ PromisedOnce(calls[r.call]) => r.attempt = 1

SentInv == (\A r \in net : Sent(r)) /\ (\A e \in executed : Sent(e.req))

\* A request leaves the network when it is executed, and is executed once.
FreshInv == \A e \in executed : e.req \notin net
UniqueInv == \A e, f \in executed : e.req = f.req => e = f

\* An answer on the connection means the service has executed the request.
AnswerInv ==
  answer # "none" =>
    /\ phase = "waiting"
    /\ \E e \in executed : e.req = RequestOf(attempt) /\ e.ended = Len(timeline)

Inv == PhaseInv /\ FirstSendInv /\ SentInv /\ FreshInv /\ UniqueInv /\ AnswerInv

-----------------------------------------------------------------------------
\* Adding an element to a sequence: its type, its length, its elements.
LEMMA AppendFacts ==
  ASSUME NEW S, NEW s \in Seq(S), NEW x \in S
  PROVE  /\ Append(s, x) \in Seq(S)
         /\ Len(Append(s, x)) = Len(s) + 1
         /\ \A i \in 1..Len(s) : Append(s, x)[i] = s[i]
         /\ Append(s, x)[Len(s) + 1] = x
  OBVIOUS

\* The promise of the documentation is kept by the choice of the path: an
\* operation promised once is never sent through _send_with_retry or
\* _post_with_retry.
LEMMA PromisedOnceNotRetried ==
  ASSUME NEW op \in Op, PromisedOnce(op)
  PROVE  ~Retried(op)
<1>1. CASE op \in RestOp
  BY <1>1 DEF RestOp, PromisedOnce, Retried, IdempotentMethods, WriteVerbs, ReadVerbs
<1>2. CASE op \in GraphQLOp
  BY <1>2 DEF GraphQLOp, PromisedOnce, Retried, IdempotentArgument
<1> QED BY <1>1, <1>2 DEF Op

\* The outcomes of an answered call are outcomes a Step may record.
LEMMA OutcomeType ==
  ASSUME NEW op, NEW body
  PROVE  Outcome(op, body) \in {"returned", "unparsable", "graphql_errors"}
  BY Zenon DEF Outcome

-----------------------------------------------------------------------------
\* Ending a call with any outcome keeps the types.
LEMMA EndType ==
  ASSUME TypeOK, NEW o \in Outcomes, End(o)
  PROVE  TypeOK'
<1>1. timeline' \in Seq([outcome : Outcomes, attempts : 0..StopAfterAttempt])
  BY AppendFacts DEF TypeOK, End
<1> QED BY <1>1 DEF TypeOK, End, StopAfterAttempt

\* A retry sends a further request only below the limit of three attempts, so
\* the counter and every request in transit stay in their types.
LEMMA TypeStep == TypeOK /\ PhaseInv /\ [Next]_vars => TypeOK'
<1> SUFFICES ASSUME TypeOK, PhaseInv, [Next]_vars PROVE TypeOK'
  OBVIOUS
<1>1. ASSUME NEW op \in Ops, Call(op) PROVE TypeOK'
  <2>1. calls' \in Seq(Ops) /\ Len(calls') = Len(calls) + 1
    BY <1>1, AppendFacts DEF TypeOK, Call
  <2>2. Len(calls') <= MaxCalls
    BY <1>1, <2>1, MaxCallsAssumption DEF TypeOK, Call
  <2> QED BY <1>1, <2>1, <2>2 DEF TypeOK, Call
<1>2. CASE Send
  <2>1. attempt' \in 1..StopAfterAttempt /\ attempt' \in 0..StopAfterAttempt
    BY <1>2 DEF Send, TypeOK, PhaseInv, StopAfterAttempt
  <2>2. Len(calls) \in 1..MaxCalls
    BY <1>2, MaxCallsAssumption DEF Send, TypeOK, PhaseInv
  <2>3. RequestOf(attempt + 1) \in Requests
    BY <1>2, <2>1, <2>2 DEF Send, RequestOf, Requests
  <2> QED BY <1>2, <2>1, <2>3 DEF Send, TypeOK
<1>3. CASE SendOnClosedClient
  BY <1>3, EndType DEF SendOnClosedClient, Outcomes
<1>4. CASE Receive
  BY <1>4, EndType, OutcomeType DEF Receive, Outcomes
<1>5. CASE RetryAfterTransportError
  BY <1>5 DEF RetryAfterTransportError, TypeOK
<1>6. CASE RaiseTransportError
  BY <1>6, EndType DEF RaiseTransportError, Outcomes
<1>7. ASSUME NEW agent \in {"rest", "graphql"}, Close(agent) PROVE TypeOK'
  BY <1>7 DEF Close, TypeOK
<1>8. ASSUME NEW r \in net, NEW body \in Bodies, Execute(r, body) PROVE TypeOK'
  <2>1. Len(timeline) \in 0..MaxCalls
    BY MaxCallsAssumption DEF TypeOK, PhaseInv
  <2>2. r \in Requests
    BY DEF TypeOK
  <2>3. executed' \subseteq [req : Requests, ended : 0..MaxCalls]
    BY <1>8, <2>1, <2>2 DEF Execute, TypeOK
  <2>4. answer' \in Bodies \cup {"none"}
    BY <1>8 DEF Execute, TypeOK
  <2> QED BY <1>8, <2>3, <2>4 DEF Execute, TypeOK
<1>9. ASSUME NEW r \in net, Lose(r) PROVE TypeOK'
  BY <1>9 DEF Lose, TypeOK
<1>10. CASE UNCHANGED vars
  BY <1>10 DEF vars, TypeOK
<1> QED BY <1>1, <1>2, <1>3, <1>4, <1>5, <1>6, <1>7, <1>8, <1>9, <1>10 DEF Next, Client

-----------------------------------------------------------------------------
\* Ending a call moves nothing in the network and leaves no answer behind.
LEMMA EndInv ==
  ASSUME TypeOK, Inv, phase # "idle", NEW o \in Outcomes, End(o)
  PROVE  Inv'
<1>1. Len(timeline') = Len(timeline) + 1
  BY AppendFacts DEF TypeOK, End
<1>2. PhaseInv' /\ FirstSendInv' /\ AnswerInv'
  BY <1>1 DEF Inv, PhaseInv, FirstSendInv, AnswerInv, End, TypeOK
<1>3. SentInv' /\ FreshInv' /\ UniqueInv'
  BY DEF Inv, SentInv, Sent, FreshInv, UniqueInv, End
<1> QED BY <1>2, <1>3 DEF Inv

\* Starting a call opens a bracket for which no request has been sent yet.
LEMMA CallInv ==
  ASSUME TypeOK, Inv, NEW op \in Ops, Call(op)
  PROVE  Inv'
<1>1. /\ Len(calls') = Len(calls) + 1
      /\ \A i \in 1..Len(calls) : calls'[i] = calls[i]
  BY AppendFacts DEF TypeOK, Call
<1>2. PhaseInv' /\ FirstSendInv' /\ AnswerInv'
  BY <1>1 DEF Inv, PhaseInv, FirstSendInv, AnswerInv, Call, TypeOK, StopAfterAttempt
<1>3. ASSUME NEW r, Sent(r) PROVE Sent(r)'
  BY <1>1, <1>3 DEF Sent, TypeOK
<1>4. SentInv' /\ FreshInv' /\ UniqueInv'
  BY <1>3 DEF Inv, SentInv, FreshInv, UniqueInv, Call
<1> QED BY <1>2, <1>4 DEF Inv

\* A send is the first of its attempt; of a call promised once, the first ever.
LEMMA SendInv ==
  ASSUME TypeOK, Inv, Send
  PROVE  Inv'
<1>0. PICK new : new = RequestOf(attempt + 1)
  OBVIOUS
<1>1. Len(calls) \in 1..Len(calls) /\ CurrentOp \in Op
  <2>1. Len(calls) \in 1..Len(calls)
    BY DEF Send, Inv, PhaseInv, TypeOK
  <2> QED BY <2>1, OpsAssumption DEF CurrentOp, TypeOK
<1>2. PromisedOnce(CurrentOp) => attempt + 1 = 1
  BY <1>1, PromisedOnceNotRetried DEF Inv, FirstSendInv, Send
<1>3. attempt \in 0..2 /\ attempt' = attempt + 1 /\ calls' = calls
  BY DEF Send, Inv, PhaseInv, TypeOK, StopAfterAttempt
<1>4. Sent(new)'
  <2>1. new.call = Len(calls) /\ new.attempt = attempt + 1
    BY <1>0 DEF RequestOf
  <2> QED BY <1>1, <1>2, <1>3, <2>1 DEF Sent, CurrentOp
<1>5. ASSUME NEW r \in Requests, Sent(r) PROVE Sent(r)'
  <2>1. r.attempt \in 1..3
    BY DEF Requests, StopAfterAttempt
  <2>2. phase # "idle"
    BY DEF Send
  <2> QED BY <1>3, <1>5, <2>1, <2>2 DEF Sent
<1>6. SentInv'
  <2>1. net' = net \cup {new} /\ executed' = executed
    BY <1>0 DEF Send
  <2> QED BY <1>4, <1>5, <2>1 DEF Inv, SentInv, TypeOK
<1>7. \A e \in executed : e.req # new
  BY <1>0 DEF Inv, SentInv, Sent, RequestOf, Send, TypeOK, Requests, StopAfterAttempt
<1>8. FreshInv' /\ UniqueInv'
  BY <1>0, <1>7 DEF Inv, FreshInv, UniqueInv, Send
<1>9. PhaseInv' /\ FirstSendInv' /\ AnswerInv'
  BY DEF Inv, PhaseInv, FirstSendInv, AnswerInv, Send
<1> QED BY <1>6, <1>8, <1>9 DEF Inv

\* The service executes a request that leaves the network with that step.
LEMMA ExecuteInv ==
  ASSUME TypeOK, Inv, NEW r \in net, NEW body \in Bodies, Execute(r, body)
  PROVE  Inv'
<1> DEFINE e0 == [req |-> r, ended |-> Len(timeline)]
<1>1. PhaseInv' /\ FirstSendInv'
  BY DEF Inv, PhaseInv, FirstSendInv, Execute, CurrentOp
<1>2. SentInv'
  BY DEF Inv, SentInv, Sent, Execute
<1>3. FreshInv' /\ UniqueInv'
  BY DEF Inv, FreshInv, UniqueInv, Execute
<1>4. AnswerInv'
  <2>1. CASE phase = "waiting" /\ r = RequestOf(attempt)
    <3>1. e0 \in executed' /\ e0.req = RequestOf(attempt)' /\ e0.ended = Len(timeline)'
      BY <2>1 DEF Execute, RequestOf
    <3> QED BY <2>1, <3>1 DEF AnswerInv, Execute
  <2>2. CASE ~(phase = "waiting" /\ r = RequestOf(attempt))
    BY <2>2 DEF Inv, AnswerInv, Execute, RequestOf
  <2> QED BY <2>1, <2>2
<1> QED BY <1>1, <1>2, <1>3, <1>4 DEF Inv

\* Every step of the agents, the network or the service keeps the invariant that
\* binds the attempt counter, the requests in transit and the service's log.
LEMMA InvStep == TypeOK /\ Inv /\ [Next]_vars => Inv'
<1> SUFFICES ASSUME TypeOK, Inv, [Next]_vars PROVE Inv'
  OBVIOUS
<1>1. ASSUME NEW op \in Ops, Call(op) PROVE Inv'
  BY <1>1, CallInv
<1>2. CASE Send
  BY <1>2, SendInv
<1>3. CASE SendOnClosedClient
  BY <1>3, EndInv DEF SendOnClosedClient, Outcomes
<1>4. CASE Receive
  BY <1>4, EndInv, OutcomeType DEF Receive, Outcomes
<1>5. CASE RetryAfterTransportError
  BY <1>5 DEF RetryAfterTransportError, MayRetry, Inv, PhaseInv, FirstSendInv, SentInv, Sent,
              FreshInv, UniqueInv, AnswerInv, CurrentOp
<1>6. CASE RaiseTransportError
  BY <1>6, EndInv DEF RaiseTransportError, Outcomes
<1>7. ASSUME NEW agent \in {"rest", "graphql"}, Close(agent) PROVE Inv'
  BY <1>7 DEF Close, Inv, PhaseInv, FirstSendInv, SentInv, Sent, FreshInv, UniqueInv, AnswerInv,
              CurrentOp, RequestOf
<1>8. ASSUME NEW r \in net, NEW body \in Bodies, Execute(r, body) PROVE Inv'
  BY <1>8, ExecuteInv
<1>9. ASSUME NEW r \in net, Lose(r) PROVE Inv'
  BY <1>9 DEF Lose, Inv, PhaseInv, FirstSendInv, SentInv, Sent, FreshInv, UniqueInv, AnswerInv,
              CurrentOp, RequestOf
<1>10. CASE UNCHANGED vars
  BY <1>10 DEF vars, Inv, PhaseInv, FirstSendInv, SentInv, Sent, FreshInv, UniqueInv, AnswerInv,
               CurrentOp, RequestOf
<1> QED BY <1>1, <1>2, <1>3, <1>4, <1>5, <1>6, <1>7, <1>8, <1>9, <1>10 DEF Next, Client

-----------------------------------------------------------------------------
\* Every reachable state has its types and satisfies the inductive invariant.
THEOREM Invariance == Spec => [](TypeOK /\ Inv)
<1>1. Init => TypeOK /\ Inv
  BY MaxCallsAssumption DEF Init, TypeOK, Inv, PhaseInv, FirstSendInv, SentInv, FreshInv, UniqueInv, AnswerInv,
         StopAfterAttempt
<1>2. TypeOK /\ Inv /\ [Next]_vars => (TypeOK /\ Inv)'
  BY TypeStep, InvStep DEF Inv
<1> QED BY <1>1, <1>2, PTL DEF Spec

\* The types of the calls, their Steps, the network and the service's log.
THEOREM TypeCorrect == Spec => []TypeOK
  BY Invariance, PTL

\* A call promised once is executed at most once by the service, for any
\* operations, any number of calls and any behaviour of the network.
THEOREM AtMostOnce == Spec => []WritesAtMostOnce
<1>1. TypeOK /\ Inv => WritesAtMostOnce
  <2> SUFFICES ASSUME TypeOK, Inv, NEW e \in executed, NEW f \in executed,
                      e.req.call = f.req.call, PromisedOnce(calls[e.req.call])
               PROVE  e = f
    BY DEF WritesAtMostOnce
  <2>1. e.req.attempt = 1 /\ f.req.attempt = 1
    BY DEF Inv, SentInv, Sent
  <2>2. e.req \in Requests /\ f.req \in Requests
    BY DEF TypeOK
  <2>3. e.req = f.req
    BY <2>1, <2>2 DEF Requests
  <2> QED BY <2>3 DEF Inv, UniqueInv
<1> QED BY <1>1, Invariance, PTL

-----------------------------------------------------------------------------
\* What one ended call's Step says is true of the service and the network.
Truthful(i) ==
  timeline[i].outcome \notin {"transport_error", "closed"} =>
    /\ \E e \in executed : e.ended < i /\ e.req = [call |-> i, attempt |-> timeline[i].attempts]
    /\ PromisedOnce(calls[i]) => \A r \in net : r.call # i

\* The Step appended by the end of a call is truthful: an answer was received,
\* so its request was executed, and a call promised once has no other request.
LEMMA EndTruthful ==
  ASSUME TypeOK, Inv, phase # "idle", NEW o \in Outcomes, End(o),
         o \notin {"transport_error", "closed"} => answer # "none",
         NEW n, n = Len(timeline) + 1
  PROVE  Truthful(n)'
<1>1. n = Len(calls) /\ n \in Nat
  BY DEF Inv, PhaseInv, TypeOK
<1>2. timeline'[n] = [outcome |-> o, attempts |-> attempt]
  BY AppendFacts DEF TypeOK, End
<1>3. SUFFICES ASSUME o \notin {"transport_error", "closed"}
               PROVE  /\ \E e \in executed : e.ended < n /\ e.req = [call |-> n, attempt |-> attempt]
                      /\ PromisedOnce(calls[n]) => \A r \in net : r.call # n
  BY <1>2 DEF Truthful, End
<1>4. PICK e \in executed : e.req = RequestOf(attempt) /\ e.ended = Len(timeline)
  BY <1>3 DEF Inv, AnswerInv
<1>5. e.ended < n /\ e.req = [call |-> n, attempt |-> attempt]
  BY <1>1, <1>4 DEF RequestOf, TypeOK
<1>6. ASSUME PromisedOnce(calls[n]), NEW r \in net, r.call = n PROVE FALSE
  <2>1. r.attempt = 1 /\ e.req.attempt = 1 /\ e.req.call = n
    BY <1>5, <1>6 DEF Inv, SentInv, Sent
  <2>2. r \in Requests /\ e.req \in Requests
    BY DEF TypeOK
  <2>3. r = e.req
    BY <1>6, <2>1, <2>2 DEF Requests
  <2> QED BY <2>3 DEF Inv, FreshInv
<1> QED BY <1>5, <1>6

\* A step that ends no call keeps every Step truthful: it starts a call, or
\* adds requests only of the running call, or executes or loses requests.
LEMMA KeepTruthful ==
  ASSUME TypeOK, NEW i \in DOMAIN timeline, Truthful(i),
         timeline' = timeline, executed \subseteq executed',
         calls'[i] = calls[i], \A r \in net' : r \in net \/ r.call # i
  PROVE  Truthful(i)'
  BY DEF Truthful

\* An end of a call keeps the Steps recorded before it truthful.
LEMMA EndKeepsTruthful ==
  ASSUME TypeOK, NEW i \in DOMAIN timeline, Truthful(i), NEW o \in Outcomes, End(o)
  PROVE  Truthful(i)'
<1>1. timeline'[i] = timeline[i]
  BY AppendFacts DEF TypeOK, End
<1> QED BY <1>1 DEF Truthful, End

\* Every step keeps the Steps truthful: an end of a call by EndTruthful and
\* EndKeepsTruthful, any other by KeepTruthful.
LEMMA TruthfulStep == TypeOK /\ Inv /\ AnswerMeansExecuted /\ [Next]_vars => AnswerMeansExecuted'
<1> SUFFICES ASSUME TypeOK, Inv, AnswerMeansExecuted, [Next]_vars PROVE AnswerMeansExecuted'
  OBVIOUS
<1>1. \A i \in DOMAIN timeline : Truthful(i)
  BY DEF AnswerMeansExecuted, Truthful
<1>2. SUFFICES \A i \in DOMAIN timeline' : Truthful(i)'
  BY DEF AnswerMeansExecuted, Truthful
<1>3. DOMAIN timeline = 1..Len(timeline) /\ DOMAIN calls = 1..Len(calls)
  BY DEF TypeOK
<1>4. ASSUME NEW o \in Outcomes, End(o), phase # "idle",
             o \notin {"transport_error", "closed"} => answer # "none"
      PROVE  \A i \in DOMAIN timeline' : Truthful(i)'
  <2> PICK n : n = Len(timeline) + 1
    OBVIOUS
  <2>1. DOMAIN timeline' = 1..n
    BY <1>4, AppendFacts DEF TypeOK, End
  <2>2. ASSUME NEW i \in 1..Len(timeline) PROVE Truthful(i)'
    BY <1>1, <1>3, <1>4, EndKeepsTruthful
  <2>3. Truthful(n)'
    BY <1>4, EndTruthful
  <2>4. \A i \in 1..n : i \in 1..Len(timeline) \/ i = n
    BY DEF TypeOK
  <2> QED BY <2>1, <2>2, <2>3, <2>4
<1>5. ASSUME NEW op \in Ops, Call(op) PROVE \A i \in DOMAIN timeline' : Truthful(i)'
  <2>1. \A i \in DOMAIN timeline : calls'[i] = calls[i]
    BY <1>3, <1>5, AppendFacts DEF Call, TypeOK, Inv, PhaseInv
  <2> QED BY <1>1, <1>5, <2>1, KeepTruthful DEF Call
<1>6. CASE Send
  <2>1. \A i \in DOMAIN timeline : RequestOf(attempt + 1).call # i
    BY <1>3, <1>6 DEF RequestOf, Send, Inv, PhaseInv, TypeOK
  <2> QED BY <1>1, <1>6, <2>1, KeepTruthful DEF Send
<1>7. CASE SendOnClosedClient
  BY <1>4, <1>7 DEF SendOnClosedClient, Outcomes
<1>8. CASE Receive
  BY <1>4, <1>8, OutcomeType DEF Receive, Outcomes
<1>9. CASE RetryAfterTransportError
  BY <1>1, <1>9, KeepTruthful DEF RetryAfterTransportError
<1>10. CASE RaiseTransportError
  BY <1>4, <1>10 DEF RaiseTransportError, Outcomes
<1>11. ASSUME NEW agent \in {"rest", "graphql"}, Close(agent)
       PROVE  \A i \in DOMAIN timeline' : Truthful(i)'
  BY <1>1, <1>11, KeepTruthful DEF Close
<1>12. ASSUME NEW r \in net, NEW body \in Bodies, Execute(r, body)
       PROVE  \A i \in DOMAIN timeline' : Truthful(i)'
  BY <1>1, <1>12, KeepTruthful DEF Execute
<1>13. ASSUME NEW r \in net, Lose(r) PROVE \A i \in DOMAIN timeline' : Truthful(i)'
  BY <1>1, <1>13, KeepTruthful DEF Lose
<1>14. CASE UNCHANGED vars
  BY <1>1, <1>14, KeepTruthful DEF vars
<1> QED BY <1>5, <1>6, <1>7, <1>8, <1>9, <1>10, <1>11, <1>12, <1>13, <1>14 DEF Next, Client

\* An answer the caller sees is an executed request, and a returned write has
\* nothing left in transit, for any operations and any number of calls.
THEOREM AnswersAreTrue == Spec => []AnswerMeansExecuted
<1>1. Init => AnswerMeansExecuted
  BY DEF Init, AnswerMeansExecuted
<1> QED BY <1>1, TruthfulStep, Invariance, PTL DEF Spec

-----------------------------------------------------------------------------
\* A call on a closed client is stuck before its first request; one that waits
\* has sent a request, and just one if its path has no retry.
ClientInv ==
  /\ phase # "idle" /\ Agent(CurrentOp) \in closed => phase = "ready" /\ attempt = 0
  /\ phase = "waiting" => attempt # 0 /\ (~Retried(CurrentOp) => attempt = 1)

\* What a transport error of ended call i, or a closed client, says of the
\* requests it sent; of the latter nothing is in transit either.
Exhausted(i) ==
  LET op == calls[i] n == timeline[i].attempts IN
  /\ timeline[i].outcome = "transport_error" =>
       n = IF op.verb \in ReadVerbs /\ op.idempotent = "unset" /\ op.api # "mutate" THEN 3
           ELSE IF PromisedOnce(op) THEN 1 ELSE n
  /\ timeline[i].outcome = "closed" =>
       n = 0 /\ (\A e \in executed : e.req.call # i) /\ (\A r \in net : r.call # i)

RaiseInv == ClientInv /\ \A i \in DOMAIN timeline : Exhausted(i)

\* A read that the caller has not declared otherwise takes the retrying path.
LEMMA ReadsRetried ==
  ASSUME NEW op \in Op, op.verb \in ReadVerbs, op.idempotent = "unset", op.api # "mutate"
  PROVE  Retried(op)
<1>1. CASE op \in RestOp
  BY <1>1 DEF RestOp, Retried, IdempotentMethods, ReadVerbs
<1>2. CASE op \in GraphQLOp
  BY <1>2 DEF GraphQLOp, Retried, IdempotentArgument
<1> QED BY <1>1, <1>2 DEF Op

\* The operation of the running call.
LEMMA CurrentOpType ==
  ASSUME TypeOK, Inv, phase # "idle"
  PROVE  CurrentOp \in Op /\ Len(calls) \in DOMAIN calls
<1>1. Len(calls) \in 1..Len(calls)
  BY DEF TypeOK, Inv, PhaseInv
<1> QED BY <1>1, OpsAssumption DEF CurrentOp, TypeOK

\* Every step of the client keeps the first part.
LEMMA ClientStep == TypeOK /\ Inv /\ ClientInv /\ [Next]_vars => ClientInv'
<1> SUFFICES ASSUME TypeOK, Inv, ClientInv, [Next]_vars PROVE ClientInv'
  OBVIOUS
<1> USE DEF ClientInv, CurrentOp
<1>1. ASSUME NEW op \in Ops, Call(op) PROVE ClientInv'
  BY <1>1 DEF Call, Inv, PhaseInv
<1>2. CASE Send
  BY <1>2 DEF Send, Inv, FirstSendInv, TypeOK
<1>3. ASSUME NEW o, End(o) PROVE ClientInv'
  BY <1>3 DEF End
<1>4. CASE RetryAfterTransportError
  BY <1>4 DEF RetryAfterTransportError
<1>5. ASSUME NEW agent \in {"rest", "graphql"}, Close(agent) PROVE ClientInv'
  BY <1>5 DEF Close
<1>6. ASSUME NEW r \in net, NEW body \in Bodies, Execute(r, body) PROVE ClientInv'
  BY <1>6 DEF Execute
<1>7. ASSUME NEW r \in net, Lose(r) PROVE ClientInv'
  BY <1>7 DEF Lose
<1>8. CASE UNCHANGED vars
  BY <1>8 DEF vars
<1> QED BY <1>1, <1>2, <1>3, <1>4, <1>5, <1>6, <1>7, <1>8
        DEF Next, Client, SendOnClosedClient, Receive, RaiseTransportError

\* The Step appended by the end of a call says the truth about its requests.
LEMMA EndExhausted ==
  ASSUME TypeOK, Inv, ClientInv, phase # "idle", NEW o \in Outcomes, End(o),
         o = "transport_error" => phase = "waiting" /\ ~MayRetry,
         o = "closed" => Agent(CurrentOp) \in closed,
         NEW n, n = Len(timeline) + 1
  PROVE  Exhausted(n)'
<1>1. n = Len(calls) /\ CurrentOp = calls[n] /\ CurrentOp \in Op
  BY CurrentOpType DEF Inv, PhaseInv, CurrentOp
<1>2. timeline'[n] = [outcome |-> o, attempts |-> attempt]
  BY AppendFacts DEF TypeOK, End
<1>3. CASE o = "transport_error"
  <2>1. Retried(CurrentOp) => attempt = 3
    BY <1>3 DEF MayRetry, TypeOK, StopAfterAttempt
  <2>2. ~Retried(CurrentOp) => attempt = 1
    BY <1>3 DEF ClientInv
  <2> QED BY <1>1, <1>2, <1>3, <2>1, <2>2, ReadsRetried, PromisedOnceNotRetried DEF Exhausted, End
<1>4. CASE o = "closed"
  <2>1. attempt = 0
    BY <1>4 DEF ClientInv
  <2>2. ASSUME NEW r \in Requests, Sent(r) PROVE r.call # n
    BY <1>1, <2>1, <2>2 DEF Sent, Requests
  <2>3. (\A e \in executed : e.req.call # n) /\ (\A r \in net : r.call # n)
    BY <2>2 DEF Inv, SentInv, TypeOK
  <2> QED BY <1>2, <1>4, <2>1, <2>3 DEF Exhausted, End
<1>5. CASE o \notin {"transport_error", "closed"}
  BY <1>2, <1>5 DEF Exhausted
<1> QED BY <1>3, <1>4, <1>5

\* Steps that do not append keep what is recorded: no request of an ended call
\* is ever sent.
LEMMA KeepExhausted ==
  ASSUME TypeOK, NEW i \in DOMAIN timeline, Exhausted(i),
         timeline'[i] = timeline[i], calls'[i] = calls[i],
         \A r \in net' : r \in net \/ r.call # i,
         \A e \in executed' : e \in executed \/ e.req \in net
  PROVE  Exhausted(i)'
BY DEF Exhausted

\* Every step keeps the recorded Steps right.
LEMMA RaiseStep == TypeOK /\ Inv /\ RaiseInv /\ [Next]_vars => RaiseInv'
<1> SUFFICES ASSUME TypeOK, Inv, RaiseInv, [Next]_vars
             PROVE  \A i \in DOMAIN timeline' : Exhausted(i)'
  BY ClientStep DEF RaiseInv
<1>1. DOMAIN timeline = 1..Len(timeline) /\ DOMAIN calls = 1..Len(calls) /\ Len(timeline) \in Nat
  BY DEF TypeOK
<1>2. ASSUME NEW o \in Outcomes, End(o), phase # "idle",
             o = "transport_error" => phase = "waiting" /\ ~MayRetry,
             o = "closed" => Agent(CurrentOp) \in closed
      PROVE  \A i \in DOMAIN timeline' : Exhausted(i)'
  <2> PICK n : n = Len(timeline) + 1
    OBVIOUS
  <2>1. /\ DOMAIN timeline' = 1..n
        /\ \A i \in DOMAIN timeline : timeline'[i] = timeline[i]
    BY <1>1, <1>2, AppendFacts DEF TypeOK, End
  <2>2. \A i \in DOMAIN timeline : Exhausted(i)'
    BY <1>2, <2>1, KeepExhausted DEF End, RaiseInv
  <2>3. Exhausted(n)'
    BY <1>2, EndExhausted DEF RaiseInv
  <2>4. \A i \in 1..n : i \in DOMAIN timeline \/ i = n
    BY <1>1
  <2> QED BY <2>1, <2>2, <2>3, <2>4
<1>3. ASSUME NEW op \in Ops, Call(op) PROVE \A i \in DOMAIN timeline' : Exhausted(i)'
  <2>1. \A i \in DOMAIN timeline : calls'[i] = calls[i]
    BY <1>1, <1>3, AppendFacts DEF Call, TypeOK, Inv, PhaseInv
  <2> QED BY <1>3, <2>1, KeepExhausted DEF Call, RaiseInv
<1>4. CASE Send
  <2>1. \A i \in DOMAIN timeline : RequestOf(attempt + 1).call # i
    BY <1>1, <1>4 DEF RequestOf, Send, Inv, PhaseInv
  <2> QED BY <1>4, <2>1, KeepExhausted DEF Send, RaiseInv
<1>5. CASE SendOnClosedClient
  BY <1>2, <1>5 DEF SendOnClosedClient, Outcomes
<1>6. CASE Receive
  BY <1>2, <1>6, OutcomeType DEF Receive, Outcomes
<1>7. CASE RetryAfterTransportError
  BY <1>7, KeepExhausted DEF RetryAfterTransportError, RaiseInv
<1>8. CASE RaiseTransportError
  BY <1>2, <1>8 DEF RaiseTransportError, Outcomes
<1>9. ASSUME NEW agent \in {"rest", "graphql"}, Close(agent)
      PROVE  \A i \in DOMAIN timeline' : Exhausted(i)'
  BY <1>9, KeepExhausted DEF Close, RaiseInv
<1>10. ASSUME NEW r \in net, NEW body \in Bodies, Execute(r, body)
       PROVE  \A i \in DOMAIN timeline' : Exhausted(i)'
  BY <1>10, KeepExhausted DEF Execute, RaiseInv
<1>11. ASSUME NEW r \in net, Lose(r) PROVE \A i \in DOMAIN timeline' : Exhausted(i)'
  BY <1>11, KeepExhausted DEF Lose, RaiseInv
<1>12. CASE UNCHANGED vars
  BY <1>12, KeepExhausted DEF vars, RaiseInv
<1> QED BY <1>3, <1>4, <1>5, <1>6, <1>7, <1>8, <1>9, <1>10, <1>11, <1>12 DEF Next, Client

\* A transport error reaches the caller of a read only after three attempts and
\* the caller of a promised-once call after one; a call on a closed client has
\* sent nothing and nothing of it is ever executed.
THEOREM RaisesAreExhausted == Spec => []RaisesOnlyWhenExhausted
<1>1. Init => RaiseInv
  BY DEF Init, RaiseInv, ClientInv
<1>2. RaiseInv => RaisesOnlyWhenExhausted
  BY DEF RaiseInv, Exhausted, RaisesOnlyWhenExhausted
<1> QED BY <1>1, <1>2, RaiseStep, Invariance, PTL DEF Spec
=============================================================================
