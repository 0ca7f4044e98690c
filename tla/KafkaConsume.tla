--------------------------- MODULE KafkaConsume ---------------------------
(***************************************************************************)
(* The consuming half of KafkaAgent (kafka/agent.py): wait_for_message and *)
(* consume_all subscribe a new consumer, poll it until a message satisfies *)
(* the predicate or the deadline passes, and leave it open until close().  *)
(* The agents of parallel tests share one topic.  The broker is external:  *)
(* its logs grow at any time, and a group's partitions are dealt out anew  *)
(* whenever its membership changes, and sometimes when it does not.        *)
(***************************************************************************)
EXTENDS Integers, Sequences, FiniteSets

CONSTANTS Agents,        \* the KafkaAgents of tests that run in parallel
          Partitions,    \* of the topic
          Values,        \* decoded message values
          Requests,      \* arguments the calls are made with
          MaxCalls,      \* bound: calls of one agent
          MaxLog,        \* bound: messages of a partition
          MaxRebalances  \* bound: rebalances no member caused

\* A message no call can take: a null value, one value_deserializer rejects
\* or one the predicate raises on.
Poison == "poison"

\* predicate "none" is consume_all's predicate=None, any other is the value
\* wait_for_message is after; group "fresh" is group_id=None, "given" a group
\* name that the tests share; timeout counts polls that return nothing.
Request == [predicate : Values \cup {"none"}, group : {"fresh", "given"},
            beginning : BOOLEAN, timeout : Nat]

ASSUME RequestsAssumption == Requests \subseteq Request
ASSUME ValuesAssumption == "none" \notin Values /\ Poison \notin Values
ASSUME AgentsAssumption == "given" \notin Agents
ASSUME BoundsAssumption == MaxCalls \in Nat /\ MaxLog \in Nat /\ MaxRebalances \in Nat

VARIABLES
  log,         \* log[p]: messages of partition p, the first at offset 0
  call,        \* call[a]: the last call of agent a, running or ended
  consumers,   \* consumers created and not closed
  fetch,       \* who reads which partition, and from which offset next
  stale,       \* groups whose membership has changed since they were dealt out
  rebalances   \* rebalances no member caused

vars == <<log, call, consumers, fetch, stale, rebalances>>

\* Mutants: the bare consumer_group_prefix, a group per test context instead of
\* one per call.
GroupByPrefix(a, n, req) == <<"given", 0>>
GroupPerContext(a, n, req) == IF req.group = "given" THEN <<"given", 0>> ELSE <<a, 0>>

\* group_id, or prefix-correlation_id-uuid: a group for this call alone.
GroupOf(a, n, req) == IF req.group = "given" THEN <<"given", 0>> ELSE <<a, n>>

ConsumerOf(a, n, req) ==
  [agent |-> a, n |-> n, group |-> GroupOf(a, n, req), beginning |-> req.beginning]

\* The consumer of agent a's last call.
Consumer(a) == ConsumerOf(a, call[a].n, call[a].req)

Members(g) == {c \in consumers : c.group = g}
Groups == {c.group : c \in consumers}

Polling(a) == call[a].state = "polling"
NoCall == [state |-> "none", n |-> 0, seen |-> <<>>, left |-> 0]

\* Mutant: auto.offset.reset is left at Kafka's default.
ResetToEnd(c, p) == Len(log[p])

\* Where a group without committed offsets starts: nothing is ever committed.
ResetPosition(c, p) == IF c.beginning THEN 0 ELSE Len(log[p])

\* "if predicate is None or predicate(msg)".
Accepts(req, v) == req.predicate = "none" \/ v = req.predicate

Delivered == [partition : Partitions, offset : 0..(MaxLog - 1), value : Values]
ConsumerType == [agent : Agents, n : 1..MaxCalls, beginning : BOOLEAN,
                 group : (Agents \cup {"given"}) \X (0..MaxCalls)]
Outcomes == {"returned", "timeout", "raised"}

TypeOK ==
  /\ \A p \in Partitions : log[p] \in Seq(Values \cup {Poison}) /\ Len(log[p]) <= MaxLog
  /\ \A a \in Agents :
       \/ call[a] = NoCall
       \/ /\ call[a].state \in {"polling"} \cup Outcomes
          /\ call[a].n \in 1..MaxCalls
          /\ call[a].req \in Requests
          /\ call[a].left \in 0..call[a].req.timeout
          /\ call[a].seen \in Seq(Delivered)
  /\ consumers \subseteq ConsumerType
  /\ fetch \subseteq [consumer : consumers, partition : Partitions, next : 0..MaxLog]
  /\ \A f, g \in fetch :
       f.partition = g.partition /\ f.consumer.group = g.consumer.group => f = g
  /\ rebalances \in 0..MaxRebalances

Init ==
  /\ log = [p \in Partitions |-> <<>>]
  /\ call = [a \in Agents |-> NoCall]
  /\ consumers = {} /\ fetch = {} /\ stale = {} /\ rebalances = 0

-----------------------------------------------------------------------------
(* The agent *)

\* wait_for_message / consume_all: _new_consumer, then subscribe in _poll_messages.
Begin(a, req) ==
  /\ ~Polling(a) /\ call[a].n < MaxCalls
  /\ call' = [call EXCEPT ![a] =
       [state |-> "polling", n |-> call[a].n + 1, req |-> req, left |-> req.timeout,
        seen |-> <<>>]]
  /\ consumers' = consumers \cup {ConsumerOf(a, call[a].n + 1, req)}
  /\ stale' = stale \cup {GroupOf(a, call[a].n + 1, req)}
  /\ UNCHANGED <<log, fetch, rebalances>>

\* Mutants: only accepted messages are remembered; a match seen at the last
\* moment is dropped; the deadline is renewed by every poll.
RecordMatchesOnly(c, m) ==
  IF Accepts(c.req, m.value)
  THEN [c EXCEPT !.seen = Append(@, m), !.state = "returned"] ELSE c
MatchNotReturned(c, m) ==
  [c EXCEPT !.seen = Append(@, m),
            !.state = IF Accepts(c.req, m.value) /\ c.left > 1 THEN "returned" ELSE @]
DeadlineRenewed(a) ==
  /\ Polling(a) /\ call[a].left > 0
  /\ UNCHANGED vars

\* One message of the loop: remembered, then offered to the predicate.
Take(c, m) ==
  [c EXCEPT !.seen = Append(@, m),
            !.state = IF Accepts(c.req, m.value) THEN "returned" ELSE @]

\* poll() returns the next message of a partition the consumer reads.
Poll(a, f) ==
  /\ Polling(a) /\ call[a].left > 0
  /\ f.consumer = Consumer(a) /\ f.next < Len(log[f.partition])
  /\ LET v == log[f.partition][f.next + 1] IN
     call' = [call EXCEPT ![a] =
                IF v = Poison THEN [@ EXCEPT !.state = "raised"]
                ELSE Take(@, [partition |-> f.partition, offset |-> f.next, value |-> v])]
  /\ fetch' = (fetch \ {f}) \cup {[f EXCEPT !.next = @ + 1]}
  /\ UNCHANGED <<log, consumers, stale, rebalances>>

\* Mutant: the deadline is looked at only after another poll.
PollPastDeadline(a) ==
  /\ Polling(a)
  /\ call' = [call EXCEPT ![a].left = @ - 1]
  /\ UNCHANGED <<log, consumers, fetch, stale, rebalances>>

\* poll() returns nothing for its half second.
PollNothing(a) ==
  /\ Polling(a) /\ call[a].left > 0
  /\ call' = [call EXCEPT ![a].left = @ - 1]
  /\ UNCHANGED <<log, consumers, fetch, stale, rebalances>>

\* poll() returns an error event, such as an unknown topic.
PollError(a) ==
  /\ Polling(a) /\ call[a].left > 0
  /\ call' = [call EXCEPT ![a].state = "raised"]
  /\ UNCHANGED <<log, consumers, fetch, stale, rebalances>>

\* The while condition fails: KafkaWaitTimeoutError, or what consume_all has seen.
Deadline(a) ==
  /\ Polling(a) /\ call[a].left = 0
  /\ call' = [call EXCEPT ![a].state =
                IF call[a].req.predicate = "none" THEN "returned" ELSE "timeout"]
  /\ UNCHANGED <<log, consumers, fetch, stale, rebalances>>

\* close(), at the fixture's teardown: every consumer leaves its group.
Close(a) ==
  LET mine == {c \in consumers : c.agent = a} IN
  /\ ~Polling(a) /\ mine # {}
  /\ consumers' = consumers \ mine
  /\ fetch' = {f \in fetch : f.consumer \notin mine}
  /\ stale' = (stale \cup {c.group : c \in mine}) \cap {c.group : c \in consumers \ mine}
  /\ UNCHANGED <<log, call, rebalances>>

-----------------------------------------------------------------------------
(* The broker (external) *)

Produce(p, v) ==
  /\ Len(log[p]) < MaxLog
  /\ log' = [log EXCEPT ![p] = Append(@, v)]
  /\ UNCHANGED <<call, consumers, fetch, stale, rebalances>>

\* The coordinator deals the partitions out among the members of a group; each
\* member starts where auto.offset.reset says, for the group has no offsets.
Assign(g) ==
  /\ \E owner \in [Partitions -> Members(g)] :
       fetch' = {f \in fetch : f.consumer.group # g} \cup
                {[consumer |-> owner[p], partition |-> p,
                  next |-> ResetPosition(owner[p], p)] : p \in Partitions}
  /\ stale' = stale \ {g}
  /\ UNCHANGED <<log, call, consumers>>

Join(g) == g \in stale /\ Assign(g) /\ UNCHANGED rebalances

Rebalance(g) ==
  /\ g \notin stale /\ rebalances < MaxRebalances
  /\ Assign(g)
  /\ rebalances' = rebalances + 1

PollSomething(a) == \E f \in fetch : Poll(a, f)

Next ==
  \/ \E a \in Agents, req \in Requests : Begin(a, req)
  \/ \E a \in Agents : PollSomething(a)
  \/ \E a \in Agents : PollNothing(a)
  \/ \E a \in Agents : PollError(a)
  \/ \E a \in Agents : Deadline(a)
  \/ \E a \in Agents : Close(a)
  \/ \E p \in Partitions, v \in Values \cup {Poison} : Produce(p, v)
  \/ \E g \in Groups : Join(g)
  \/ \E g \in Groups : Rebalance(g)

Spec == Init /\ [][Next]_vars

\* The clock runs: every turn of the loop polls, and an empty poll takes time.
ClockSpec ==
  Spec /\ \A a \in Agents : WF_vars(PollSomething(a) \/ PollNothing(a)) /\ WF_vars(Deadline(a))

\* The broker answers: groups are dealt out and messages are fetched, so that
\* a poll which could return a message eventually does.
BrokerSpec ==
  /\ Spec
  /\ WF_vars(\E g \in Groups : Join(g))
  /\ \A a \in Agents : WF_vars(PollSomething(a))

-----------------------------------------------------------------------------
(* Properties *)

\* Offsets of partition p that agent a's last call has seen.
SeenOffsets(a, p) ==
  {call[a].seen[i].offset : i \in {j \in DOMAIN call[a].seen : call[a].seen[j].partition = p}}

\* A call that reads from the beginning has seen every message before the
\* position it reads from, whatever other tests consume, however often the
\* group is rebalanced: nothing is skipped, so KafkaWaitTimeoutError really
\* carries "every message it did see" (_poll_messages appending before it
\* tests, consumers that never commit).
SeesAllBeforePosition ==
  \A a \in Agents, f \in fetch :
    /\ Polling(a) /\ f.consumer = Consumer(a) /\ f.consumer.beginning
    => 0..(f.next - 1) \subseteq SeenOffsets(a, f.partition)

\* The outcome agrees with what was seen: a wait returns the first message its
\* predicate accepts and stops there; one that is polling or timed out has seen
\* no such message; a timeout comes only at the deadline.
OutcomeMatchesSeen ==
  \A a \in Agents :
    LET c == call[a] IN
    c.state # "none" /\ c.req.predicate # "none" =>
      LET hits == {i \in DOMAIN c.seen : c.seen[i].value = c.req.predicate} IN
      /\ c.state = "returned" => hits = {Len(c.seen)}
      /\ c.state \in {"polling", "timeout"} => hits = {}
      /\ c.state = "timeout" => c.left = 0

\* A wait from the beginning returns the first message of its partition that the
\* predicate accepts, and none before it was undecodable, although rebalances send
\* the consumer back and other members of its group take the partition away.
FirstOfItsPartition ==
  \A a \in Agents :
    LET c == call[a] m == c.seen[Len(c.seen)] IN
    c.state = "returned" /\ c.req.predicate # "none" /\ c.req.beginning =>
      /\ log[m.partition][m.offset + 1] = c.req.predicate
      /\ \A k \in 1..m.offset : log[m.partition][k] \notin {c.req.predicate, Poison}

\* What a wait tells its caller is true of what it saw and of the topic.
OutcomeMatchesTopic == OutcomeMatchesSeen /\ FirstOfItsPartition

\* "Parallel tests never share offsets or steal each other's messages"
\* (README): once its group is dealt out, a call with the default group reads
\* every partition of the topic itself.
ReadsWholeTopic ==
  \A a \in Agents :
    Polling(a) /\ call[a].req.group = "fresh" /\ Consumer(a).group \notin stale =>
      \A p \in Partitions : \E f \in fetch : f.consumer = Consumer(a) /\ f.partition = p

\* The refinement mapping to TopicReader: the messages seen, each once however often
\* it was polled, and the one or all of them that the call hands to its caller.
PlacesOf(s) == {<<s[i].partition, s[i].offset>> : i \in DOMAIN s}
Handed(c) ==
  IF c.state # "returned" THEN {}
  ELSE IF c.req.predicate = "none" THEN PlacesOf(c.seen)
  ELSE PlacesOf(<<c.seen[Len(c.seen)]>>)
Reader(c) ==
  IF c.state = "none"
  THEN [state |-> "idle", wanted |-> "none", beginning |-> FALSE, got |-> {}, result |-> {}]
  ELSE [state |-> IF c.state = "polling" THEN "reading" ELSE c.state,
        wanted |-> c.req.predicate, beginning |-> c.req.beginning,
        got |-> PlacesOf(c.seen), result |-> Handed(c)]
Readers == [a \in Agents |-> Reader(call[a])]

Abstract == INSTANCE TopicReader WITH topic <- log, reader <- Readers

\* The agents implement TopicReader: groups, rebalances, repeated messages and the
\* consumers of other tests and earlier calls are invisible.
ImplementsTopicReader == Abstract!Spec

\* Every call ends at its deadline at the latest, even if the broker is silent.
EveryCallEnds ==
  \A a \in Agents : \A n \in 1..MaxCalls :
    (call[a].n = n /\ Polling(a)) ~> (call[a].n > n \/ ~Polling(a))

Awaited(a) ==
  /\ Polling(a) /\ call[a].left > 0
  /\ call[a].req.group = "fresh" /\ call[a].req.beginning
  /\ \E p \in Partitions : \E i \in DOMAIN log[p] : log[p][i] = call[a].req.predicate

\* A wait of the default kind does not need its deadline to end: if its message
\* is in the topic and the broker answers, the message is found, unless the
\* call raises or time runs out first.
FoundWhenPresent ==
  \A a \in Agents : Awaited(a) ~> (~Polling(a) \/ call[a].left = 0)

\* "Collect every message available on topic within timeout seconds"
\* (consume_all's docstring): a consume_all that returns with time left has
\* collected all the topic holds.
ConsumesAllAvailable ==
  [][\A a \in Agents :
       /\ Polling(a) /\ call[a].req.predicate = "none"
       /\ call'[a].state = "returned" /\ call'[a].left > 0
       => \A p \in Partitions : 0..(Len(log[p]) - 1) \subseteq SeenOffsets(a, p)']_vars
=============================================================================
