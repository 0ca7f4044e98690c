---------------------------- MODULE KafkaProduce ----------------------------
(***************************************************************************)
(* The producing half of KafkaAgent (kafka/agent.py): produce() with its   *)
(* delivery callbacks, and close(), which closes the consumers one by one  *)
(* and then flushes the producer.  librdkafka and the broker are external: *)
(* a queued message is sent in the background and settled, delivered or    *)
(* failed, at any time; its report is kept until the test's thread serves  *)
(* callbacks, which only flush() does.                                     *)
(***************************************************************************)
EXTENDS Naturals, Sequences, FiniteSets

CONSTANTS MaxCalls,      \* bound: produce() calls of one agent
          FlushTime,     \* ticks after which a flush gives up
          QueueMax,      \* queue.buffering.max.messages
          MaxConsumers   \* bound: consumers the agent has open at close()

ASSUME BoundsAssumption ==
  MaxCalls \in Nat /\ FlushTime \in Nat /\ QueueMax \in Nat \ {0} /\ MaxConsumers \in Nat

VARIABLES
  calls,      \* calls[i].flush: the argument of the i-th call, whose message is i
  ended,      \* how the ended calls ended, with the flush time they had left
  phase,      \* "idle", "flushing", "closing", "draining" (close()'s flush), "closed"
  left,       \* ticks left of the flush under way
  state,      \* state[i]: what librdkafka knows of message i
  topic,      \* messages the broker has appended
  reports,    \* settled messages whose callback has not been served
  errors,     \* errors[i]: messages whose failure is in call i's delivery_error
  consumers,  \* consumers still open
  clean       \* close() has not raised

vars == <<calls, ended, phase, left, state, topic, reports, errors, consumers, clean>>

States == {"refused", "queued", "delivered", "failed"}
Outcomes == {"returned", "raised", "invalid", "full"}

Current == Len(calls)
Queued == {i \in DOMAIN state : state[i] = "queued"}

\* len(producer): messages queued, in flight, or with a report to be served.
Outstanding == Queued \cup reports

TypeOK ==
  /\ calls \in Seq([flush : BOOLEAN]) /\ Len(calls) <= MaxCalls
  /\ ended \in Seq([outcome : Outcomes, left : 0..FlushTime])
  /\ phase \in {"idle", "flushing", "closing", "draining", "closed"}
  /\ left \in 0..FlushTime
  /\ state \in Seq(States) /\ Len(state) = Len(calls)
  /\ topic \subseteq DOMAIN calls
  /\ reports \subseteq {i \in DOMAIN state : state[i] \in {"delivered", "failed"}}
  /\ Len(errors) = Len(calls) /\ \A i \in DOMAIN errors : errors[i] \subseteq DOMAIN calls
  /\ consumers \in 0..MaxConsumers
  /\ clean \in BOOLEAN
  /\ Cardinality(Outstanding) <= QueueMax

Init ==
  /\ calls = <<>> /\ ended = <<>> /\ phase = "idle" /\ left = 0
  /\ state = <<>> /\ topic = {} /\ reports = {} /\ errors = <<>>
  /\ consumers \in 0..MaxConsumers
  /\ clean = TRUE

-----------------------------------------------------------------------------
(* produce() *)

End(outcome) == ended' = Append(ended, [outcome |-> outcome, left |-> left])

Start(flush, s) ==
  /\ phase = "idle" /\ Len(calls) < MaxCalls
  /\ calls' = Append(calls, [flush |-> flush])
  /\ state' = Append(state, s)
  /\ errors' = Append(errors, {})
  /\ UNCHANGED <<topic, reports, consumers, clean>>

\* value_serializer, or an encode of key and headers, raises.
ProduceInvalid(flush) ==
  Start(flush, "refused") /\ End("invalid") /\ UNCHANGED <<phase, left>>

\* Producer.produce raises BufferError: the local queue is full.
ProduceFull(flush) ==
  /\ Cardinality(Outstanding) = QueueMax
  /\ Start(flush, "refused") /\ End("full") /\ UNCHANGED <<phase, left>>

\* Mutant: a queue without its limit.
ProduceUnlimited(flush) ==
  /\ Start(flush, "queued")
  /\ IF flush
     THEN phase' = "flushing" /\ left' = FlushTime /\ UNCHANGED ended
     ELSE End("returned") /\ UNCHANGED <<phase, left>>

\* The message is queued; without flush the call is over.
Produce(flush) ==
  /\ Cardinality(Outstanding) < QueueMax
  /\ Start(flush, "queued")
  /\ IF flush
     THEN phase' = "flushing" /\ left' = FlushTime /\ UNCHANGED ended
     ELSE End("returned") /\ UNCHANGED <<phase, left>>

-----------------------------------------------------------------------------
(* Producer.flush *)

Flushing == phase \in {"flushing", "draining"}

\* Mutant: one delivery_error for the whole agent.
ServeShared(i) ==
  /\ Flushing /\ left > 0 /\ i \in reports
  /\ reports' = reports \ {i}
  /\ errors' = IF state[i] = "failed" THEN [errors EXCEPT ![Current] = @ \cup {i}] ELSE errors
  /\ UNCHANGED <<calls, ended, phase, left, state, topic, consumers, clean>>

\* flush() serves _on_delivery of message i, a closure of call i.
Serve(i) ==
  /\ Flushing /\ left > 0 /\ i \in reports
  /\ reports' = reports \ {i}
  /\ errors' = IF state[i] = "failed" THEN [errors EXCEPT ![i] = @ \cup {i}] ELSE errors
  /\ UNCHANGED <<calls, ended, phase, left, state, topic, consumers, clean>>

Tick ==
  /\ Flushing /\ left > 0
  /\ left' = left - 1
  /\ UNCHANGED <<calls, ended, phase, state, topic, reports, errors, consumers, clean>>

\* Mutants: poll(0) in place of flush(timeout), and flush() without a timeout.
FlushedAtOnce == TRUE
FlushedOnly == Outstanding = {}

\* flush() returns when nothing is outstanding or its time is over.
Flushed == Outstanding = {} \/ left = 0

\* Its result, the number of messages left, is ignored; delivery_error decides.
FlushEnds ==
  /\ phase = "flushing" /\ Flushed
  /\ phase' = "idle"
  /\ End(IF errors[Current] = {} THEN "returned" ELSE "raised")
  /\ left' = 0
  /\ UNCHANGED <<calls, state, topic, reports, errors, consumers, clean>>

-----------------------------------------------------------------------------
(* close() *)

Close ==
  /\ phase = "idle"
  /\ phase' = "closing"
  /\ UNCHANGED <<calls, ended, left, state, topic, reports, errors, consumers, clean>>

CloseConsumer ==
  /\ phase = "closing" /\ consumers > 0
  /\ consumers' = consumers - 1
  /\ UNCHANGED <<calls, ended, phase, left, state, topic, reports, errors, clean>>

\* A consumer.close() that raises ends close(): no further consumer, no flush.
CloseConsumerRaises ==
  /\ phase = "closing" /\ consumers > 0
  /\ phase' = "closed" /\ clean' = FALSE
  /\ UNCHANGED <<calls, ended, left, state, topic, reports, errors, consumers>>

\* Mutant: close() without its flush.
CloseProducerUnflushed ==
  /\ phase = "closing" /\ consumers = 0
  /\ phase' = "closed" /\ left' = FlushTime
  /\ UNCHANGED <<calls, ended, state, topic, reports, errors, consumers, clean>>

\* The first produce() has created the producer, even one that raised: the
\* property is read before the arguments are evaluated.
CloseProducer ==
  /\ phase = "closing" /\ consumers = 0
  /\ left' = FlushTime
  /\ phase' = IF calls = <<>> THEN "closed" ELSE "draining"
  /\ UNCHANGED <<calls, ended, state, topic, reports, errors, consumers, clean>>

DrainEnds ==
  /\ phase = "draining" /\ Flushed
  /\ phase' = "closed"
  /\ UNCHANGED <<calls, ended, left, state, topic, reports, errors, consumers, clean>>

-----------------------------------------------------------------------------
(* librdkafka's background thread and the broker (external) *)

Deliver(i) ==
  /\ i \in Queued \ topic
  /\ topic' = topic \cup {i}
  /\ UNCHANGED <<calls, ended, phase, left, state, reports, errors, consumers, clean>>

Settle(i, verdict) ==
  /\ i \in Queued
  /\ state' = [state EXCEPT ![i] = verdict]
  /\ reports' = reports \cup {i}
  /\ UNCHANGED <<calls, ended, phase, left, topic, errors, consumers, clean>>

Acknowledge(i) == i \in topic /\ Settle(i, "delivered")

\* The broker refuses, or message.timeout.ms is over: also after the append,
\* when the acknowledgement was lost.
Fail(i) == Settle(i, "failed")

Agent ==
  \/ \E i \in reports : Serve(i)
  \/ Tick \/ FlushEnds
  \/ CloseConsumer \/ CloseConsumerRaises \/ CloseProducer \/ DrainEnds

Next ==
  \/ \E flush \in BOOLEAN : ProduceInvalid(flush)
  \/ \E flush \in BOOLEAN : ProduceFull(flush)
  \/ \E flush \in BOOLEAN : Produce(flush)
  \/ Close
  \/ Agent
  \/ \E i \in Queued : Deliver(i)
  \/ \E i \in Queued : Acknowledge(i)
  \/ \E i \in Queued : Fail(i)

Spec == Init /\ [][Next]_vars

\* Each step of a running call or close() ends: a flush has a timeout, and the
\* clock does not wait for the broker.
FairSpec == Spec /\ WF_vars(Agent)
-----------------------------------------------------------------------------
(* Properties *)

InTime(i) == ended[i].left > 0

\* A produce() that raises a delivery error raises that of its own message: the
\* flush of a later call serves the callbacks of earlier ones without taking
\* over their errors.
ErrorsStayWithTheirCall ==
  \A i \in DOMAIN ended : ended[i].outcome = "raised" => state[i] = "failed"

\* A produce() with flush that returns before its flush timed out has its
\* message, and every message produced before it, in the topic or reported as
\* failed; its own is in the topic.
FlushedMeansSettled ==
  \A i \in DOMAIN ended :
    calls[i].flush /\ ended[i].outcome = "returned" /\ InTime(i) =>
      /\ state[i] = "delivered" /\ i \in topic
      /\ \A j \in 1..(i - 1) : state[j] # "queued" /\ j \notin reports

\* The queue fills up only with messages that nobody waited for: a BufferError
\* is preceded by QueueMax calls without flush or with one that timed out.
FullOnlyWithoutFlush ==
  \A i \in DOMAIN ended :
    ended[i].outcome = "full" =>
      Cardinality({j \in 1..(i - 1) : state[j] # "refused" /\ (~calls[j].flush \/ ~InTime(j))})
        >= QueueMax

\* A close() that neither raised nor ran out of time has closed every consumer
\* and settled every message that any call had queued.
CloseLeavesNothing ==
  phase = "closed" /\ clean /\ left > 0 => consumers = 0 /\ Outstanding = {}

\* Every call, and close(), comes to an end, even if the broker is gone.
EveryCallEnds ==
  /\ \A i \in 1..MaxCalls : (Len(calls) >= i) ~> (Len(ended) >= i)
  /\ (phase = "closing") ~> (phase = "closed")
=============================================================================
