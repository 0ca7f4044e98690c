---------------------------- MODULE HttpAgents ----------------------------
(***************************************************************************)
(* RestAgent (rest/agent.py) and GraphQLAgent (graphql/agent.py): the      *)
(* calls a scenario makes over HTTP, the retry of idempotent ones on a     *)
(* transport error, and the answers that end a call.  A scenario is one    *)
(* thread: its calls are made one after the other.  The network and the    *)
(* service are external: a request in transit is executed once or lost,    *)
(* and may be executed long after the client has given up on it.           *)
(***************************************************************************)
EXTENDS Naturals, Sequences

CONSTANTS Ops,      \* the calls a scenario may make, a set of operations
          MaxCalls  \* bound: the calls of one scenario

(***************************************************************************)
(* An operation is what the caller of an agent passes in.  "verb" is the   *)
(* HTTP method up to case, or the kind of GraphQL document; "idempotent"   *)
(* and "check" are the keyword arguments idempotent and raise_on_error.    *)
(***************************************************************************)
ReadVerbs == {"GET", "HEAD", "OPTIONS", "query"}
WriteVerbs == {"POST", "PUT", "PATCH", "DELETE", "mutation"}

RestOp == [api : {"request"}, verb : (ReadVerbs \cup WriteVerbs) \ {"query", "mutation"},
           idempotent : {"unset"}, check : {FALSE}]
GraphQLOp == [api : {"execute", "query", "mutate"}, verb : {"query", "mutation"},
              idempotent : {"unset", "yes", "no"}, check : BOOLEAN]
Op == RestOp \cup GraphQLOp

ASSUME OpsAssumption == Ops \subseteq Op
ASSUME MaxCallsAssumption == MaxCalls \in Nat

IdempotentMethods == {"GET", "HEAD", "OPTIONS"}

StopAfterAttempt == 3

\* Mutants: a default copied from query() to mutate(), a retry of everything.
MutateRetriedByDefault(op) == op.idempotent # "no"
RetryEverything(op) == TRUE

\* execute() and query() default to idempotent=True, mutate() to False.
IdempotentArgument(op) ==
  IF op.idempotent = "unset" THEN op.api # "mutate" ELSE op.idempotent = "yes"

Retried(op) ==
  IF op.api = "request" THEN op.verb \in IdempotentMethods ELSE IdempotentArgument(op)

Agent(op) == IF op.api = "request" THEN "rest" ELSE "graphql"

\* What a body means to the service: a payload, one with a top-level "errors"
\* array, or one that response.json() or body.get() cannot take apart.
Bodies == {"data", "errors", "garbage"}

\* How a call ends once an answer to it has arrived.
Outcome(op, body) ==
  IF op.api = "request" \/ body = "data" \/ (body = "errors" /\ ~op.check) THEN "returned"
  ELSE IF body = "errors" THEN "graphql_errors"
  ELSE "unparsable"

Outcomes == {"returned", "unparsable", "graphql_errors", "transport_error", "closed"}

Requests == [call : 1..MaxCalls, attempt : 1..StopAfterAttempt]

VARIABLES
  calls,     \* the operations called so far, the last one possibly still running
  timeline,  \* the Step of each ended call: its outcome and the requests it sent
  phase,     \* of the last call: "ready" to send, "waiting" for an answer, or "idle"
  attempt,   \* requests the last call has sent
  answer,    \* body that has come back on the connection of the last request
  closed,    \* agents whose client has been closed
  net,       \* requests in transit to the service
  executed   \* requests the service has executed, with the calls ended by then

vars == <<calls, timeline, phase, attempt, answer, closed, net, executed>>

CurrentOp == calls[Len(calls)]
RequestOf(n) == [call |-> Len(calls), attempt |-> n]

TypeOK ==
  /\ calls \in Seq(Ops) /\ Len(calls) <= MaxCalls
  /\ timeline \in Seq([outcome : Outcomes, attempts : 0..StopAfterAttempt])
  /\ phase \in {"idle", "ready", "waiting"}
  /\ attempt \in 0..StopAfterAttempt
  /\ answer \in Bodies \cup {"none"}
  /\ closed \subseteq {"rest", "graphql"}
  /\ net \subseteq Requests
  /\ executed \subseteq [req : Requests, ended : 0..MaxCalls]

Init ==
  /\ calls = <<>> /\ timeline = <<>>
  /\ phase = "idle" /\ attempt = 0 /\ answer = "none"
  /\ closed = {} /\ net = {} /\ executed = {}

-----------------------------------------------------------------------------
(* The client: request() and execute() inside their step(). *)

Call(op) ==
  /\ phase = "idle" /\ Len(calls) < MaxCalls
  /\ calls' = Append(calls, op)
  /\ phase' = "ready"
  /\ UNCHANGED <<timeline, attempt, answer, closed, net, executed>>

\* Mutant: an attempt counter that is started anew with every try.
SendAsFirstAttempt ==
  /\ phase = "ready" /\ Agent(CurrentOp) \notin closed
  /\ attempt' = 1
  /\ net' = net \cup {RequestOf(1)}
  /\ phase' = "waiting"
  /\ UNCHANGED <<calls, timeline, answer, closed, executed>>

\* client.request() / client.post() puts one request on the wire.
Send ==
  /\ phase = "ready" /\ Agent(CurrentOp) \notin closed
  /\ attempt' = attempt + 1
  /\ net' = net \cup {RequestOf(attempt + 1)}
  /\ phase' = "waiting"
  /\ UNCHANGED <<calls, timeline, answer, closed, executed>>

\* The step context manager records the Step when the call returns or raises.
End(outcome) ==
  /\ timeline' = Append(timeline, [outcome |-> outcome, attempts |-> attempt])
  /\ phase' = "idle" /\ attempt' = 0 /\ answer' = "none"
  /\ UNCHANGED <<calls, closed, net, executed>>

\* httpx refuses to send on a closed client, with an error that is not a TransportError.
SendOnClosedClient ==
  phase = "ready" /\ Agent(CurrentOp) \in closed /\ End("closed")

Receive ==
  phase = "waiting" /\ answer # "none" /\ End(Outcome(CurrentOp, answer))

\* Mutants: one attempt too many, one too few.
RetryOnceMore == Retried(CurrentOp) /\ attempt <= StopAfterAttempt
StopOneEarly == Retried(CurrentOp) /\ attempt + 1 < StopAfterAttempt

MayRetry == Retried(CurrentOp) /\ attempt < StopAfterAttempt

\* Mutant: the next attempt reads from the connection of the last one.
RetryOnSameConnection ==
  /\ phase = "waiting" /\ MayRetry
  /\ phase' = "ready"
  /\ UNCHANGED <<calls, timeline, attempt, answer, closed, net, executed>>

\* A connect error, a reset or a timeout, before or after the service acted;
\* httpx drops the connection, and with it the answer it may have carried.
RetryAfterTransportError ==
  /\ phase = "waiting" /\ MayRetry
  /\ phase' = "ready" /\ answer' = "none"
  /\ UNCHANGED <<calls, timeline, attempt, closed, net, executed>>

RaiseTransportError ==
  phase = "waiting" /\ ~MayRetry /\ End("transport_error")

Close(agent) ==
  /\ phase = "idle" /\ agent \notin closed
  /\ closed' = closed \cup {agent}
  /\ UNCHANGED <<calls, timeline, phase, attempt, answer, net, executed>>

-----------------------------------------------------------------------------
(* The network and the service (external). *)

Execute(r, body) ==
  /\ r \in net
  /\ net' = net \ {r}
  /\ executed' = executed \cup {[req |-> r, ended |-> Len(timeline)]}
  /\ answer' = IF phase = "waiting" /\ r = RequestOf(attempt) THEN body ELSE answer
  /\ UNCHANGED <<calls, timeline, phase, attempt, closed>>

Lose(r) ==
  /\ r \in net
  /\ net' = net \ {r}
  /\ UNCHANGED <<calls, timeline, phase, attempt, answer, closed, executed>>

Client == Send \/ SendOnClosedClient \/ Receive \/ RetryAfterTransportError \/ RaiseTransportError

Next ==
  \/ \E op \in Ops : Call(op)
  \/ Client
  \/ \E agent \in {"rest", "graphql"} : Close(agent)
  \/ \E r \in net, body \in Bodies : Execute(r, body)
  \/ \E r \in net : Lose(r)

Spec == Init /\ [][Next]_vars

\* httpx bounds every wait by settings.timeout and tenacity every sleep, so
\* a call that can go on does; the network and the service owe nothing.
FairSpec == Spec /\ WF_vars(Client)
-----------------------------------------------------------------------------
(* Properties *)

\* The calls the documentation promises never to send twice: REST writes,
\* mutate() unless the caller says idempotent=True, anything with idempotent=False.
PromisedOnce(op) ==
  \/ op.api = "request" /\ op.verb \in WriteVerbs
  \/ op.api = "mutate" /\ op.idempotent # "yes"
  \/ op.idempotent = "no"

\* The service executes such a call at most once, however often the network
\* drops, delays or times out, and whether the call returned or raised
\* (RestAgent.request and GraphQLAgent.mutate choosing the path without retry).
WritesAtMostOnce ==
  \A e, f \in executed :
    e.req.call = f.req.call /\ PromisedOnce(calls[e.req.call]) => e = f

\* What an ended call tells its caller is true: anything but a transport error
\* or a closed client means the last request was executed before the call
\* ended, and a call promised once has nothing left in transit that could
\* still take effect.
AnswerMeansExecuted ==
  \A i \in DOMAIN timeline :
    timeline[i].outcome \notin {"transport_error", "closed"} =>
      /\ \E e \in executed : e.ended < i /\ e.req = [call |-> i, attempt |-> timeline[i].attempts]
      /\ PromisedOnce(calls[i]) => \A r \in net : r.call # i

\* A transport error reaches the caller only when the three attempts of an
\* idempotent call are used up, or after the one attempt of a promised-once
\* call; a closed client sends nothing at all.
RaisesOnlyWhenExhausted ==
  \A i \in DOMAIN timeline :
    LET op == calls[i] n == timeline[i].attempts IN
    /\ timeline[i].outcome = "transport_error" =>
         n = IF op.verb \in ReadVerbs /\ op.idempotent = "unset" /\ op.api # "mutate" THEN 3
             ELSE IF PromisedOnce(op) THEN 1 ELSE n
    /\ timeline[i].outcome = "closed" =>
         n = 0 /\ \A e \in executed : e.req.call # i

\* Every call returns or raises, even when the service never answers: each
\* wait times out and the retries are bounded.
EveryCallEnds == \A i \in 1..MaxCalls : (Len(calls) >= i) ~> (Len(timeline) >= i)

\* The refinement mapping to RemoteCalls: the documented promise is the "once"
\* of a call, returning is "ok", an executed request is an effect.
Promises == [i \in DOMAIN calls |-> PromisedOnce(calls[i])]
Results == [i \in DOMAIN timeline |->
              IF timeline[i].outcome = "returned" THEN "ok" ELSE "raised"]
EffectSet == {<<e.req.call, e.req.attempt>> : e \in executed}

Abstract == INSTANCE RemoteCalls WITH
  MaxTries <- StopAfterAttempt, once <- Promises, results <- Results, effects <- EffectSet

\* The agents implement RemoteCalls: a retry, a lost request or a closed client
\* is invisible, a late execution happens only where the abstraction allows it.
ImplementsRemoteCalls == Abstract!Spec

\* "Writes are never auto-retried" (README), for every call whose document or
\* method writes and that was not declared idempotent by its caller: execute()
\* on a mutation takes the retrying path by default.
NoWriteExecutedTwice ==
  \A e, f \in executed :
    LET op == calls[e.req.call] IN
    e.req.call = f.req.call /\ op.verb \in WriteVerbs /\ op.idempotent # "yes" => e = f
=============================================================================
