# A formal model of backend-agentic

backend-agentic is a pytest plugin with *agents*: small objects that each own
the client of one backend surface (REST, GraphQL, SQL, Kafka, load tests) and
record every action they take, as a `Step`, in the `TestContext` of the running
test. A scenario is one pytest test, that is one thread, which calls its agents
one after the other. What makes it hard is on the other side of the wire:
requests that are lost, executed twice or executed late, broker groups that
rebalance, exceptions that pass through half-finished steps, nulls in a join.

This directory holds TLA+ modules of that core, TLC configurations that check
them on small instances, and TLAPS proofs of every safety property that the runs check.

## Inventory

| Part | State | Operations | Interacts with |
|---|---|---|---|
| `rest/agent.py`, `graphql/agent.py` | an httpx client, open or closed | `request` and its verbs, `execute`, `query`, `mutate`, `close` | the service, over a network that may fail at any point; `step()` |
| `kafka/agent.py` (consuming) | the consumers created so far | `wait_for_message`, `consume_all`, `consume_to_df`, `close` | broker logs, group coordinator; predicates call other agents |
| `kafka/agent.py` (producing) | one lazy producer and its delivery callbacks | `produce`, `close` | broker |
| `core/reporting.py`, `core/context.py`, `core/agent.py` | `test_context.steps`, the steps still open | `step()`, `record`, `timeline` | every agent |
| `plugin.py` | fixtures of the running test, reports | fixtures, `pytest_runtest_makereport`, `pytest_sessionfinish` | pytest's protocol, the context |
| `reconciliation/agent.py`, `loaders.py` | none: a function of two datasets | `compare` / `reconcile`, counts of the result | rows from REST, SQL, Kafka or CSV |
| `db/agent.py` | the process-wide engine cache, open transactions | `execute`, `query_*`, `rollback_after`, `dispose_all_engines` | database, other connections of the service |
| `perf/agent.py`, `assertions/extensions.py` | none between runs | `run`, `meets_slo` | a Locust subprocess and its CSV files |
| `config.py`, `assertions/matchers.py`, `data/fake.py`, `perf/http_user.py` | a cached `Settings` | parsing, predicates, random data | – |
| `docker/demo_app` | order rows, `order.created` events | `create_order` over REST and GraphQL, reads | database, Kafka |

What makes each part correct:

- **HTTP agents**: a write is executed at most once; an answer means the request
  was executed, by this call and before it ended; retries stop, and every call
  ends.
- **Kafka consuming**: a read from the beginning skips nothing; the result is
  what the predicate asked for; tests do not take each other's messages; calls
  end at their deadline, and earlier when their message is there.
- **Kafka producing**: an error is raised by the call it belongs to; a flush that
  did not time out settles its message and all before it; `close()` ends, and
  leaves nothing queued or open unless it raised or timed out.
- **Steps and plugin**: no step lost, doubled or filed under another test; the
  report of a failed call shows all of them, and those that failed as failed.
- **Reconciliation**: every row is classified, no report is false, the verdict
  hides nothing, left and right are treated alike.
- **Database**: `rollback_after` leaves no row, lock or connection behind; what
  `execute()` reported is committed; a call fails only for a cause of its own: the
  database is down, was shut down under it or refuses its statement.
- **Load tests**: the outcome of `run` tells what became of Locust, the verdict of
  `meets_slo` is that of the requests sent, the call ends when Locust does.
- **Demo application**: an order that was answered is in the table, every event is
  that of an order, and an order's event is lost only by a fault.

There are no threads in the plugin's process. Concurrency is between the scenario
and the systems it talks to, between parallel tests that share a topic or a
table, between the threads of the demo application, and between test code and the
exceptions (a timeout included) that cut it off.

## Modules

| Module | Models |
|---|---|
| `RemoteCalls` | abstract: what a scenario may assume of a synchronous remote call |
| `HttpAgents` | RestAgent and GraphQLAgent, the network and the service |
| `HttpAgentsProofs` | type correctness, the inductive invariants, the safety theorems |
| `HttpAgentsRefinement` | `HttpAgents` implements `RemoteCalls` |
| `TopicReader` | abstract: what a test may assume of a read from a topic |
| `KafkaConsume` | the consuming half of KafkaAgent, parallel tests, the broker |
| `KafkaProduce` | the producing half and `close()`, librdkafka's queue and reports |
| `TestSession` | `step()`, TestContext and the plugin under pytest's protocol |
| `Reconcile` | `reconcile()` over every small pair of datasets |
| `KafkaConsumeProofs`, `KafkaProduceProofs`, `TestSessionProofs`, `ReconcileProofs`, `PerfRunProofs` | for each of these: the inductive invariant, type correctness and the safety theorems |
| `Postgres` | external: the orders table, its transactions, locks, serial ids, refusals and outages |
| `DbAgent` | DbAgent on that table: the engine's pool, statements, `rollback_after`, disposal |
| `OrderService` | `create_order` of the demo application, Kafka's producer, crashes |
| `OrderLifecycle` | a scenario with its DbAgent and HTTP client against the demo application |
| `OrderLifecycleProofs` | its inductive invariant, type correctness and safety theorems |
| `PerfRun` | `PerfAgent.run` and `meets_slo`, the Locust subprocess and its statistics file |
| `MCHttpAgents`, `MCKafkaConsume`, `MCReconcile`, `MCOrderLifecycle`, `MCPerfRun` | values of the constants for TLC |

`OrderLifecycle` composes: it EXTENDS `DbAgent` and `OrderService`, which both
EXTEND `Postgres` and meet on its variables.

`TestSession` and `KafkaProduce` are checked directly. Operators named under a
comment *Mutant* are plausible bugs of the definition that follows them; nothing
else uses them, and each of them breaks one of the properties checked.

### HttpAgents

An operation is what a caller passes in: the method or kind of document, the
keyword arguments `idempotent` and `raise_on_error`. `Retried` is the choice
between the path with tenacity and the one without, `MayRetry` its
`stop_after_attempt(3)`. A call is started by `Call` (the step is entered), and
then alternates between `Send` and either `Receive` (an answer came back on this
attempt's connection; `Outcome` is what `raise_for_errors` and `json()` make of
it), `RetryAfterTransportError` or `RaiseTransportError`. A transport error may
happen at any time after a send, before or after the service acted, which covers
connect errors, resets and timeouts; the request may still be in transit and be
executed later (`Execute`) or not (`Lose`), also after the call has ended. `End`
is the `finally` of `step()`, the `timeline` is the list of recorded Steps. A
call on a closed client raises without sending (`SendOnClosedClient`).

`RemoteCalls` states what is left when the transport is hidden: a call promised
once takes effect at most once and never after it returned; other calls have up
to three effects; a call returns only after an effect, and one that raises says
nothing. "Promised once" is `PromisedOnce`, translated from the docstrings of
`RestAgent` and `mutate`, not from the code path that decides on the retry.

### KafkaConsume

`Begin` is `_new_consumer` and `subscribe`; `Poll`, `PollNothing` and `PollError`
are the three ways a turn of the loop in `_poll_messages` can go; `Deadline` is
its end without a match; `Close` is the fixture's teardown, so that consumers of
earlier calls stay in their groups until then. Time is `left`, the number of
empty polls before the deadline. A consumer's position is in `fetch` and is reset
by every assignment, for `enable.auto.commit` is off and nothing is committed.
The broker (external) appends messages, deals a group's partitions out when its
membership has changed (`Join`), and sometimes when it has not (`Rebalance`).

`TopicReader` states what is left when the broker is hidden: readers that share
nothing but the topic, each of which gets messages of it, from the beginning without a
gap if it asked for that, returns at the first one it wants, and gives up only if it
got none. The mapping (`Reader`) takes `seen` as a set of places, so that a message
polled again after a rebalance is a stutter, and what the call hands to its caller as
the result. A `consume_all` wants anything, so it too returns at the first message
(finding 2): the abstraction states what the code does, not that docstring.

### KafkaProduce

Message i is the one of call i. `Produce` queues it, `ProduceFull` and
`ProduceInvalid` are calls that raise before that. A settled message keeps its
place in the queue until its callback is served, which only a flush does
(`Serve`): the error goes to the call whose closure the callback is, which may
long have returned. `FlushEnds` ignores what flush() left over, as the code does.
`Close`, `CloseConsumer`, `CloseConsumerRaises`, `CloseProducer` and `DrainEnds`
are the steps of `close()`. librdkafka settles a message at any time, also as
failed after the broker has appended it.

### TestSession

Test and fixture code is arbitrary: it may enter a step in any phase and also
inside another step (a predicate of `wait_for_message` that queries the
database), leave it, raise, catch. `LeaveOk` and `LeaveRaising` are the context
manager's `else`, `except` and `finally`. `EndSetup`, `EndCall`,
`TearDownFixture` and `NextTest` are pytest's phases with the report hook applied
to the first two; `through` remembers which steps an exception passed.

### Reconcile

A dataset is a set of rows told apart by position, so keys and whole rows may
repeat. `Joined`, `Match`, `PairMatch`, `Unpaired` and `Mismatches` are the polars
expressions of `reconcile()`, with a missing Boolean as a third truth value. Case
folding is modelled on numbers (2n and 2n + 1 fold together).

### Postgres, DbAgent

The table maps an id to the connections whose write of that row was committed;
`writes` holds what an open transaction has written and so locks. A connection is
named by its owner: `Own` is the one a statement of the agent opens for itself,
`Block(i)` the one of the i-th open `rollback_after`. `Checkout` is `_engine` and
`connect()` together: one engine per data source for the whole session, its pool of
`PoolMax`, and the pre-ping that replaces connections older than an outage
(`idle`). An outage is `Shutdown`, which ends every transaction and breaks the open
connections, and `Startup`; until then a call gets no connection (`ConnectRaises`).

A statement is of a kind the server tells apart: an INSERT with an explicit id, a
write of a row that may be there ("upsert"), a SELECT, or SQL that it cannot run
("faulty"). It takes several steps, so that other connections and outages come in
between: `Execute`, `ExecuteWrites` (which waits for locks), `ExecuteCommits`,
`ExecuteReturns` or `StatementRaises`, of a statement that the server refuses
(`Refused`: the id is taken, the SQL is faulty) or whose connection broke. `QueryDf`
is the connectorx path, `FallBack` its `except`. `EnterBlock`, `ExitBlock` and
`ExitBlockRaises` are `rollback_after`; inside it the scenario writes over the
yielded connection (`BlockStatement`). A statement refused there undoes what the
block has written and leaves its transaction "aborted", good for a rollback only.
A link is "broken" from a shutdown until somebody uses it, and "invalid" once
SQLAlchemy has noticed. `Dispose` is `dispose_all_engines`.

### OrderService, OrderLifecycle

`Receive` is the handler of either surface, `DrawId` and `Insert` are the INSERT
(the sequence is not transactional, and the row may be locked by a fixture row with
the same explicit id), `CommitOrder` and `LeaveTransaction` the end of
`engine.begin()`, which is over once the answer to COMMIT is there, `Publish` and
`FlushEnds` the event. `FindNoProducer` and `KeepProducer` are the unlocked
check-then-set of `get_producer`: parallel requests may each make a producer, of
which one is kept, and each request flushes the one it has published to. Between any
two of these steps the process may crash, the database may go down, and the client
may have given up. `Deliver` and `Drop` are librdkafka's background threads; a
producer that was not kept goes with its handler, and what is left in its queue is
dropped. In `OrderLifecycle` the scenario is one thread: it chooses its
next statement, block or POST only when none is under way; parallel tests post
orders at any time.

Two things the model makes visible. Rows under `rollback_after` are seen by no other
connection, the agent's own `query_one` included, so the scenario of its docstring
(`db/agent.py:106`) works over the yielded connection only; and a POST made inside a
block may wait for the block's lock until its timeout, and create its order after
the block has ended. Two settings have no effect: `default_connection` is never
consulted, for every method passes `connection="default"` (`db/agent.py:46`), and no
agent reads `retry_attempts` (`config.py:27`).

### PerfRun

Locust sends requests and rewrites its file row by row (`WriteStatistics(n)`: the
first n rows), until it completes, is killed, or goes on for ever; `unable` is a
Locust that exits before it opens the file. `RaisePerfRunError`, `ReturnResult` and
`RaiseStopIteration` are the ways out of `run`. `FromCsv`, `AsFloat`, `Named`,
`RatioExceeds` and `Violations` are the parsing and the gate. A parsed result keeps
each row at its place in the file, and a row counts the requests at their places in
the traffic. Rows are written whole: a line cut in the middle by a kill is not
modelled, nor is an entry of the locustfile called "Aggregated", which `_from_csv`
takes for the aggregate.

## Runs

| Run | Instance | Shows |
|---|---|---|
| `http` | two calls, six kinds of operation | `TypeOK`, `WritesAtMostOnce`, `AnswerMeansExecuted`, `RaisesOnlyWhenExhausted`, `EveryCallEnds`, `ImplementsRemoteCalls` |
| `http_execute_mutation` | one call, `execute()` with a mutation added | `NoWriteExecutedTwice` is violated |
| `kafka_consume` | two tests, two partitions, one message each, one rebalance | `TypeOK`, `SeesAllBeforePosition`, `ReadsWholeTopic`, `EveryCallEnds` |
| `kafka_reader` | one test with two reads, two partitions of up to two messages, one rebalance | `OutcomeMatchesTopic`, `ImplementsTopicReader`, `FoundWhenPresent` |
| `kafka_consume_all` | one `consume_all`, up to two messages | `ConsumesAllAvailable` is violated |
| `kafka_produce` | three calls, a queue of two, up to two consumers | `TypeOK`, `ErrorsStayWithTheirCall`, `FlushedMeansSettled`, `FullOnlyWithoutFlush`, `CloseLeavesNothing`, `EveryCallEnds` |
| `session` | two tests, three steps, one fixture | `StepsAccountedFor`, `TimelineNests`, `FailureTraceable`, `TimelineIsWhole` |
| `session_interrupted_step` | one test, one step, `pytest.fail` | `FailureTraceable` is violated |
| `reconcile` | two rows a side, two columns, six calls | `TypeOK`, `ReportsAreTrue`, `ClassifiedUnlessOneSidedNull`, `RateCountsRows`, `Symmetric`, `VerdictHidesNothing` |
| `reconcile_null` | one row a side, a tolerance | `EveryRowClassified` is violated |
| `lifecycle` | one row, two nested blocks, a pool of two, one order | `TypeOK`, `NothingLeftBehind`, `ReportedMeansCommitted`, `EventsMatchOrders`, `FailsOnlyOnFault`, `ScenarioGoesOn`, `EveryOrderAnnounced` |
| `perf` | three entries, two of one name, two requests, 24 SLOs | `TypeOK`, `OutcomeMatchesRun`, `GateMatchesTraffic`, `CallEndsWithLocust` |

**Bounds.** `http`: the hazards are one call's request overtaken by its retry, and by
the next call; two calls and three attempts show both, and the theorems drop the bound.
`kafka_consume`: a steal needs two members of one group, a skip a position past the
first message, a repeat one rebalance. `kafka_reader`: a gap and a second match need two
messages in one partition, a thief two calls in one group. `kafka_produce`: an error
served by the wrong call needs two messages, a full queue three. `session`: nesting with
a sibling needs three steps, a leak from test to test two tests. `reconcile`: a
condition on a pair of rows needs one row a side, a cross-join two with equal keys.
`lifecycle`: statements, outages and crashes are not bounded; one row is the one that a
statement, both blocks and the order can meet on, so every lock, refusal and collision
of ids happens on it, and two blocks lock each other out and exhaust the pool of two.
One order is enough for the hazards of its two writes. Rows meet only in the
transactions that write several, and orders of parallel requests only in `get_producer`
and the producers' queues; a second order, which needs a row of its own, makes the
instance too large for TLC, so for these the safety theorems, which have neither bound,
are what covers them. `perf`: two requests suffice for a failed one beside a good one,
for entries without any, and for a file older than the traffic. `MaxCalls`, `MaxLog`,
`MaxRebalances`, `MaxSteps`, `MaxTests`, `MaxRows`, `MaxId`, `MaxBlocks`, `MaxRequests`,
`MaxHits` are bounds of the models, not of the code; `PoolMax` is 15 in the code
(SQLAlchemy's `pool_size` and `max_overflow`). The runs stop when a bound is reached,
hence `CHECK_DEADLOCK FALSE`.

**Fairness.** `HttpAgents`: weak fairness of the client's own steps only. httpx
bounds each wait by `settings.timeout` and tenacity each sleep, so a call that
can go on does; the network and the service owe nothing, and `EveryCallEnds`
holds with a service that never answers. (httpx's timeout is per read: a response
that trickles in for ever is not covered.) `KafkaConsume!ClockSpec`: each turn of
the loop ends, since `poll` has a timeout of at most half a second; the broker
may stay silent. `BrokerSpec` adds nothing about time and assumes instead that
groups are dealt out and messages are fetched; without that no message can be
found. `KafkaProduce`: weak fairness of the agent's own steps, the clock included;
librdkafka and the broker owe nothing. `OrderLifecycle`: a statement that can go on
does, a POST ends by its answer or `settings.timeout`, a handler that can go on does,
and librdkafka settles an event within its message timeout, whose default of five
minutes the application leaves alone. Outages and their end, crashes and whatever the
scenario chooses to do next, the end of a block included, are not owed; an outage does
not stop a handler, but may fail it. `PerfRun`: only that `subprocess.run` returns once
the process is gone; Locust itself may never end, which is why nothing stronger than
`CallEndsWithLocust` holds. The other modules state safety only.

**Preconditions.** `session` excludes `pytest.fail` inside a step and
`ClassifiedUnlessOneSidedNull`, `RateCountsRows` and `VerdictHidesNothing` exclude
a one-sided null in a toleranced column: the runs that expect a violation show
what happens there. `FlushedMeansSettled` and `CloseLeavesNothing` exclude flushes
that time out, whose result the code ignores, and a `close()` that raised.
`ScenarioGoesOn` excepts a statement that waits for a row locked by an open block of
the same scenario (`WaitsForOwnBlock`): that is a deadlock of the test with itself,
which the code does not prevent and no timeout ends. `GateMatchesTraffic` excepts an
endpoint name that two entries of the locustfile share, of which `endpoint()` takes
the first.

## Findings

1. `GraphQLAgent.execute` retries mutations unless told otherwise
   (`graphql/agent.py:62`), while the README of the repository says that writes
   are never retried (`http_execute_mutation`).
2. `consume_all` returns after the first message (`kafka/agent.py:153`), while its
   docstring promises all of them (`kafka_consume_all`). `consume_to_df` inherits it.
3. A step interrupted by a `BaseException` is recorded as ok
   (`core/reporting.py:47`) (`session_interrupted_step`).
4. A null on one side of a toleranced column drops the row from the report, and
   the datasets count as reconciled (`reconciliation/agent.py:131`)
   (`reconcile_null`).
5. The timeline is not in call order, as the README (`README.md:147`) and
   `tests/e2e/test_order_lifecycle.py:5` of the repository say, but in the order in
   which steps end, for a step is recorded in the `finally` of `step()`
   (`core/reporting.py:55`): a `query_one` inside the predicate of a
   `wait_for_message` is listed before it. `TimelineNests` of the run `session` states
   the order that the code gives.
6. `tests/db/test_orders_db.py:13` says that the write may still be in flight when the
   POST returns; `create_order` commits before it answers (`service.py:22`), so a row
   answered with 201 can be read at once. `ReportedMeansCommitted` of the run
   `lifecycle` holds, and no run can do what the comment allows for.

The first four are counterexamples of the runs they name. The last two are properties
that hold and that contradict the text quoted: a comment that something may happen has
no counterexample, and the order of the timeline is stated as it is.

## Proofs

Every type invariant, every safety invariant, the three action properties and the two
refinements that the passing runs check are theorems, for every value of the constants
under the assumptions named in the modules:

| Theorem | States |
|---|---|
| `HttpAgentsProofs!TypeCorrect` | `Spec => []TypeOK` |
| `HttpAgentsProofs!Invariance` | `Spec => [](TypeOK /\ Inv)` |
| `HttpAgentsProofs!AtMostOnce` | `Spec => []WritesAtMostOnce` |
| `HttpAgentsProofs!AnswersAreTrue` | `Spec => []AnswerMeansExecuted` |
| `HttpAgentsProofs!RaisesAreExhausted` | `Spec => []RaisesOnlyWhenExhausted` |
| `HttpAgentsRefinement!Refinement` | `Spec => ImplementsRemoteCalls` |
| `OrderLifecycleProofs!Invariance` | `Spec => []Inv` |
| `OrderLifecycleProofs!TypeCorrect` | `Spec => []TypeOK` |
| `OrderLifecycleProofs!BlocksLeaveNothing` | `Spec => []NothingLeftBehind` |
| `OrderLifecycleProofs!ReportsAreCommitted` | `Spec => []ReportedMeansCommitted` |
| `OrderLifecycleProofs!EventsAreTrue` | `Spec => []EventsMatchOrders` |
| `OrderLifecycleProofs!FailuresHaveCauses` | `Spec => FailsOnlyOnFault` |
| `KafkaConsumeProofs!Invariance` | `Spec => []Inv` |
| `KafkaConsumeProofs!TypeCorrect` | `Spec => []TypeOK` |
| `KafkaConsumeProofs!NothingSkipped` | `Spec => []SeesAllBeforePosition` |
| `KafkaConsumeProofs!OutcomesAreRight` | `Spec => []OutcomeMatchesTopic` |
| `KafkaConsumeProofs!ParallelTestsShareNothing` | `Spec => []ReadsWholeTopic` |
| `KafkaConsumeProofs!Refinement` | `Spec => ImplementsTopicReader` |
| `KafkaProduceProofs!Invariance` | `Spec => []Inv` |
| `KafkaProduceProofs!TypeCorrect` | `Spec => []TypeOK` |
| `KafkaProduceProofs!ErrorsAreOnesOwn` | `Spec => []ErrorsStayWithTheirCall` |
| `KafkaProduceProofs!FlushSettles` | `Spec => []FlushedMeansSettled` |
| `KafkaProduceProofs!FullIsUnawaited` | `Spec => []FullOnlyWithoutFlush` |
| `KafkaProduceProofs!CloseIsComplete` | `Spec => []CloseLeavesNothing` |
| `TestSessionProofs!Invariance` | `Spec => []Inv` |
| `TestSessionProofs!TypeCorrect` | `Spec => []TypeOK` |
| `TestSessionProofs!NoStepIsLost` | `Spec => []StepsAccountedFor` |
| `TestSessionProofs!TimelineIsNested` | `Spec => TimelineNests` |
| `TestSessionProofs!FailedCallShowsAll` | `Spec => TimelineIsWhole` |
| `TestSessionProofs!FailureIsTraced` | `Spec => []FailureTraceable`, if `"failed" \notin Kinds` |
| `ReconcileProofs!Invariance` | `Spec => []Inv` |
| `ReconcileProofs!TypeCorrect` | `Spec => []TypeOK` |
| `ReconcileProofs!NoFalseReport` | `Spec => []ReportsAreTrue` |
| `ReconcileProofs!NothingHidden` | `Spec => []VerdictHidesNothing` |
| `ReconcileProofs!RowsClassified` | `Spec => []ClassifiedUnlessOneSidedNull` |
| `ReconcileProofs!RateIsOfRows` | `Spec => []RateCountsRows` |
| `ReconcileProofs!SidesAreAlike` | `Spec => []Symmetric` |
| `PerfRunProofs!Invariance` | `Spec => []Inv` |
| `PerfRunProofs!TypeCorrect` | `Spec => []TypeOK` |
| `PerfRunProofs!CallEndsAsRun` | `Spec => []OutcomeMatchesRun` |
| `PerfRunProofs!GateIsRight` | `Spec => []GateMatchesTraffic` |

`WritesAtMostOnce` is not inductive: nothing in it says that a request that was
executed is no longer in transit, or that a second request of the same call was
never sent. `Inv` adds that: requests belong to calls that were made, a request in
transit was not executed, the attempts of the running call do not exceed its
counter, a call promised once has sent one request at most, and a pending answer
is the answer to an executed request of the running attempt. The proof has one
lemma per action that disturbs it (`CallInv`, `SendInv`, `ExecuteInv`, `EndInv`);
the rest only shrink the network. `AnswersAreTrue` adds a second induction, on
the recorded Steps: `EndTruthful` for the one appended, `KeepTruthful` and
`EndKeepsTruthful` for the others. `Refinement` maps `Send`, retries, losses and
`Close` to stutters, `Call` to `Begin`, ends of calls to `Return` or `Raise` and
`Execute` to `TakeEffect`; that an effect of a promised-once call is allowed when
it happens is exactly what `Inv` and `AnswerMeansExecuted` provide. The
assumptions are `OpsAssumption` and `MaxCallsAssumption`.

None of the properties of `OrderLifecycle` is inductive: each speaks of what is left
when something has ended and says nothing of the steps in between. Its `Inv` adds where
every connection is at each stage: `ClosedHoldsNothing` (a connection that is not open
has no transaction, which is why a block whose `rollback()` raises leaves nothing),
`StatementInv` and `BlocksInv` (the agent's connections; the link of a statement is
broken only if it has been hurt, and never "aborted", for a statement of its own ends
when it is refused), `RequestInv` (for each stage of a handler, its connection, its row
and its event, in the queue of whichever producer). The proof follows the composition:
one lemma per action of the agent shows `AgentKeeps`, one per action of the application
`ServiceKeeps`, and `AgentFrame` and `ServiceFrame` carry the invariant of one side over
the steps of the other, for all they share is a table that only grows.
`FailsOnlyOnFault` is an action property that follows from it: only the calls of
`OnlyCallsFail` end in a failure, and `FullPoolIsBlocks` counts the connections of one
that waited in vain. So the bounds of one row, one order and two blocks in the run do
not matter to the safety properties. The assumptions are `MaxIdAssumption`,
`AgentBounds`, `RequestsAssumption` and `ConnsAssumption`. `Inv` itself was checked by
TLC on the instance of `lifecycle`.

`RaisesOnlyWhenExhausted` needs a third induction in `HttpAgents`: `ClientInv` (a call
stuck on a closed client has sent nothing; one that waits has sent a request, and one
only if its path has no retry) and `Exhausted` of each recorded Step.

`KafkaConsume`: a consumer outlives its call, so what a call has seen and what a
position says belong together only while the two are current. `MembersInv` says which
call a consumer belongs to and that groups are either a call's own or the shared one;
`DealtOut` that a group whose membership has not changed reads every partition, from
which `ReadsWholeTopic` follows. `PollInv` is the one lemma that moves a position and
what was seen at once; `AssignInv` covers joins and rebalances, which reset positions.
`SeenInv` adds that what was seen is what the topic holds there (`SeenTrue`), that it
has no gap even when the call has ended (`Gapless`), and that a `consume_all` under way
has seen nothing. `OutcomesAreRight` follows from it, and so does `Refinement`: a message
polled for the first time is the abstract `Get` (`PollRefines`), one polled again was
not wanted the first time and the topic still holds the same there; `DeadlineRefines`
shows that a call that gives up has got nothing it wants.

`KafkaProduce`: a report is served later than its call, so `MessageInv` follows each
message (an error is in the list of its own call from the moment it is served),
`RunningInv` says which call is running, and `EndedCall` what stays true of those
that have ended. `FullOnlyWithoutFlush` holds because what fills the queue is part of
`Unawaited`, the messages nobody waited for to the end, and that set stays as it is.

`TestSession`: open steps form a stack of growing numbers (`StackInv`), open and
recorded steps together are all that were entered (`Accounted`), and an exception has
an origin until it is caught (`OriginInv`). `TimelineIsWhole` and `TimelineNests` are
action properties from the same invariant; `InsideIsRecorded` is the lemma of the
second. `FailureIsTraced` has a hypothesis, `"failed" \notin Kinds`:
it is the precondition of the run `session`, and `session_interrupted_step` shows that
it is needed. It adds `ErrorInv`: a step that an error passes through is still open or
marked. `TypeOK` of this module is part of the invariant and proved; its run spends its
time on the other properties.

`Reconcile` has no loop: the invariant says that the result is `Reconciliation(opts,
data)`, and the proofs are about that operator. The lemmas go from cells to rows to
buckets: `MatchMeaning`, `PairMeaning` (three truth values), `ResultMeaning`,
`MismatchMeaning`, `JoinedSplit`, `BucketMeaning`. `RateCountsRows` is counting: with
unique keys a row has one partner (`OnePartner`), so the pairs, the mismatched keys and
the rows of either side are bijective images (`InjectiveImage`). `Symmetric` flips
every pair (`MatchSymmetric`, `PairSymmetric`, `MismatchSymmetric`).

`PerfRun`: a file is absent, complete, or cut off before its aggregate (`FileInv`);
`ProcessInv` and `CallInv` say what the process and the call make of it. `RowFacts`,
`ParsedFile` and `SubjectFacts` say what parsing leaves of the counts, so that the
verdict can be compared with the requests themselves. Response times have two values
in the model, 1 and 2, also in the theorems: with fewer than twenty requests the
percentile is the slowest, and the theorems hold for the files of such a run.

The assumptions of these are, by module: `RequestsAssumption`, `ValuesAssumption`,
`AgentsAssumption`, `BoundsAssumption`; `BoundsAssumption`; `KindsAssumption`,
`BoundsAssumption`; `OptionsAssumption`, `NullAssumption`, `CellsAssumption`;
`EndpointsAssumption`, `SlosAssumption`, `BoundAssumption`. They give constants their
types and keep apart names that the code keeps apart; the one that excludes something
a user could write is that no entry of a locustfile is called "Aggregated". Every
inductive invariant was checked by TLC on the instance of the module's run before it
was proved.

Only model-checked: liveness (`EveryCallEnds` of `HttpAgents`, `KafkaConsume` and
`KafkaProduce`, `FoundWhenPresent`, `ScenarioGoesOn`, `EveryOrderAnnounced`,
`CallEndsWithLocust`), for the prover has no fairness and no ENABLED.

## Not modelled

`config.py` (parsing by pydantic), `assertions/matchers.py` and `has_status_code`
(predicates on one value), `data/fake.py`, `perf/http_user.py`, the wording of
timelines, summaries and errors, allure, headers and correlation ids. Of `DbAgent`, more
than one data source (the cache keeps one engine each, and they share nothing), the
KeyError of an unknown one, raised before anything changes, and queries with side
effects; of the loaders, `record_path` and the formats they read (`Load` hands over
rows, as `from_records` does); of the demo application, the fields of an order, a
Producer whose constructor raises and `/health`; of `PerfAgent`, the command line, the
failures file and the percentiles no gate reads. An exception that interrupts a call of
the HTTP or Kafka agent from outside (pytest-timeout) is modelled in `TestSession` only.

## Plan

Done, in this order: `HttpAgents` with its abstraction and proofs, because a
duplicated side effect is the worst thing a test framework can do to the system
under test; `KafkaConsume`; `TestSession`; `Reconcile`; `KafkaProduce`; `DbAgent`,
`OrderService` and their composition with its proofs; `PerfRun`.

The safety properties of all of them are proved, and the refinements of `RemoteCalls`
and `TopicReader`. Next: an abstract specification of the order table that
`OrderLifecycle` implements, and the seams between components that are modelled apart
(a Kafka wait in the scenario of `OrderLifecycle`).
