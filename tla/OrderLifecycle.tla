---------------------------- MODULE OrderLifecycle ----------------------------
(***************************************************************************)
(* A scenario (tests/e2e, tests/db) with its DbAgent against the demo      *)
(* application: it posts orders through RestAgent or GraphQLAgent, runs    *)
(* statements and opens rollback_after blocks on the table the application *)
(* writes, while parallel tests post orders, the database goes down and up *)
(* again and the application crashes.                                      *)
(***************************************************************************)
EXTENDS DbAgent, OrderService

ASSUME ConnsAssumption == AgentConns \cup ServiceConns = Conns

VARIABLE posting   \* the request the scenario waits for, or 0

vars == <<database, agent, service, posting>>

TypeOK ==
  /\ DatabaseTypeOK /\ AgentTypeOK /\ ServiceTypeOK
  /\ Cardinality(CheckedOut) <= PoolMax
  /\ posting \in 0..MaxRequests

Init ==
  /\ DatabaseInit /\ AgentInit /\ ServiceInit
  /\ posting = 0

-----------------------------------------------------------------------------
(* The scenario *)

\* A statement is chosen only between calls; one under way goes on.
DbStep ==
  /\ Proceed \/ (posting = 0 /\ Choose)
  /\ UNCHANGED <<service, posting>>

\* rest_agent.post("/orders") or graphql_agent.mutate(createOrder).
Post(q) ==
  /\ posting = 0 /\ Ready
  /\ Receive(q) /\ posting' = q
  /\ UNCHANGED agent

PostAnswered ==
  /\ posting # 0 /\ request[posting].stage \in Over
  /\ posting' = 0
  /\ UNCHANGED <<database, agent, service>>

\* Mutant: a client with timeout=None.
PostWaits == FALSE /\ UNCHANGED vars

\* httpx gives up; the application does not notice.
PostTimesOut ==
  /\ posting # 0 /\ posting' = 0
  /\ UNCHANGED <<database, agent, service>>

-----------------------------------------------------------------------------
(* The rest of the world *)

ParallelPost(q) == Receive(q) /\ UNCHANGED <<agent, posting>>

ServiceStep(q) == Handle(q) /\ UNCHANGED <<agent, posting>>

KafkaStep(q) == Settle(q) /\ UNCHANGED <<agent, posting>>

DatabaseGoesDown ==
  /\ Shutdown /\ ShutdownSeenByAgent
  /\ UNCHANGED <<service, posting>>

DatabaseComesUp ==
  /\ Startup
  /\ UNCHANGED <<agent, service, posting>>

ServiceCrashes ==
  /\ Crash
  /\ UNCHANGED <<agent, posting>>

Next ==
  \/ DbStep
  \/ \E q \in Requests : Post(q) \/ ParallelPost(q)
  \/ PostAnswered \/ PostTimesOut
  \/ \E q \in Requests : ServiceStep(q) \/ KafkaStep(q)
  \/ DatabaseGoesDown \/ DatabaseComesUp \/ ServiceCrashes

Spec == Init /\ [][Next]_vars

\* A statement that can go on does, and a POST has a timeout; a handler that can
\* go on does; librdkafka settles every event within its message timeout.  What
\* the scenario chooses, outages and crashes are not owed.
FairSpec ==
  /\ Spec
  /\ WF_vars(Proceed /\ UNCHANGED <<service, posting>>)
  /\ WF_vars(PostAnswered \/ PostTimesOut)
  /\ \A q \in Requests : WF_vars(ServiceStep(q)) /\ WF_vars(KafkaStep(q))
-----------------------------------------------------------------------------
(* Properties *)

\* rollback_after leaves nothing behind: no row a block wrote is ever committed
\* or returned by a query over another connection, and only open blocks and the
\* running statement hold connections or lock rows, none after the session.
NothingLeftBehind ==
  /\ ~exposed /\ \A id \in Ids : table[id] \cap Blocks = {}
  /\ \A c \in AgentConns :
       c \in CheckedOut \/ writes[c] # {} =>
         \/ \E i \in 1..depth : c = Block(i)
         \/ c = Own /\ stmt.kind \in {"execute", "committed", "query"}
  /\ session = "over" => CheckedOut = {} /\ idle = "empty"

\* What a call has reported as done is in the table, and stays there through
\* outages and crashes: a write of execute() that returned, and an order
\* answered with 201, which every surface then finds under its id.
ReportedMeansCommitted ==
  /\ \A id \in executed : Own \in table[id]
  /\ \A q \in Requests :
       request[q].stage \in Answered =>
         request[q].id \in ListOrders /\ Conn(q) \in GetOrder(request[q].id)

\* An event in the topic is that of a committed order, also after a crash
\* between the two writes of create_order; and a 201 whose flush was in time
\* has its event in the topic unless Kafka gave it up.
EventsMatchOrders ==
  \A q \in Requests :
    /\ q \in topic => Committed(q)
    /\ At(q, "created") => q \in topic \cup lost

\* A call of the agent ends in a failure.
Fails(how) == failure' = how /\ failure # how

\* A call of the agent fails only for a cause of its own: the database is down, was
\* shut down during the call or refuses this very statement.  An outage before the
\* call is absorbed by the pool, and a statement that a block was refused stays with
\* that block.  A call waits in vain for a connection only if open blocks hold all.
FailsOnlyOnFault ==
  [][/\ Fails("raised") =>
          \/ ~online \/ stmt.hurt
          \/ stmt.kind # "none" /\ Refused(Own, stmt.verb, stmt.id)
     /\ Fails("timeout") => depth >= PoolMax]_vars

\* The scenario gets out of every call, a POST of a row that it has locked
\* itself included, unless its statement waits for a row that an open block of
\* its own has written: the agent's connections know nothing of each other.
Busy == posting # 0 \/ stmt.kind # "none"
ScenarioGoesOn == Busy ~> (~Busy \/ WaitsForOwnBlock)

\* The event of a committed order reaches the topic even if its client gave up,
\* unless a fault between the two writes, or Kafka, drops it.
EveryOrderAnnounced ==
  \A q \in Requests : Committed(q) ~> (q \in topic \cup lost)
=============================================================================
