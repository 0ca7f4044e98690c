----------------------------- MODULE OrderService -----------------------------
(***************************************************************************)
(* The demo application (docker/demo_app/app): create_order, reached by    *)
(* POST /orders and by the createOrder mutation, inserts a row and then    *)
(* publishes an event.  Requests run in parallel threads, to their end,    *)
(* whatever their clients do.  Kafka and the process manager are external. *)
(***************************************************************************)
EXTENDS Postgres

CONSTANT MaxRequests   \* bound: create_order requests

ASSUME RequestsAssumption == MaxRequests \in Nat

VARIABLES
  request,   \* request[q]: its stage, the id drawn for its order, and its producer
  producer,  \* the process's producer, by the request that made it, or 0
  queued,    \* requests whose event is in the queue of their producer
  topic,     \* requests whose event is in the topic "orders"
  lost       \* history: committed orders whose event was dropped

service == <<request, producer, queued, topic, lost>>
events == <<queued, topic, lost>>

Requests == 1..MaxRequests
Conn(q) == <<"request", q>>
ServiceConns == {Conn(q) : q \in Requests}

\* "created" and "unflushed" are both answered with 201, the second after a
\* flush that ran out of time; "failed" is a 500, "gone" a reset connection.
Answered == {"created", "unflushed"}
Over == Answered \cup {"failed", "gone"}
Stages == Over \cup {"idle", "begun", "inserting", "inserted", "committed", "stored",
                     "connecting", "publishing"}

ServiceTypeOK ==
  /\ request \in [Requests -> [stage : Stages, id : 0..MaxId, producer : 0..MaxRequests]]
  /\ producer \in 0..MaxRequests
  /\ queued \subseteq Requests /\ topic \subseteq Requests /\ lost \subseteq Requests

ServiceInit ==
  /\ request = [q \in Requests |-> [stage |-> "idle", id |-> 0, producer |-> 0]]
  /\ producer = 0
  /\ queued = {} /\ topic = {} /\ lost = {}

At(q, stage) == q \in Requests /\ request[q].stage = stage
Running(q) == request[q].stage \notin Over \cup {"idle"}
Go(q, stage) == request' = [request EXCEPT ![q].stage = stage]

\* The order of q is in the table, or was before a later write changed it.
Committed(q) == request[q].id # 0 /\ Conn(q) \in table[request[q].id]

\* get_order, order(id): the row, or 404 and null.  list_orders, orders.
GetOrder(id) == table[id]
ListOrders == {id \in Ids : GetOrder(id) # {}}

-----------------------------------------------------------------------------
(* create_order *)

\* The handler of either surface is called; parallel requests are alike, so they
\* start in the order of their numbers.
Receive(q) ==
  /\ At(q, "idle") /\ \A p \in 1..(q - 1) : request[p].stage # "idle"
  /\ Go(q, "begun")
  /\ UNCHANGED <<database, producer, events>>

\* engine.begin() finds the server down.
ConnectFails(q) ==
  /\ At(q, "begun") /\ ~online
  /\ Go(q, "failed")
  /\ UNCHANGED <<database, producer, events>>

\* INSERT draws its id before it waits for a row with that id.
DrawId(q) ==
  /\ At(q, "begun") /\ online /\ serial < MaxId
  /\ serial' = serial + 1 /\ SetLink(Conn(q), "open")
  /\ request' = [request EXCEPT ![q] =
                   [stage |-> "inserting", id |-> serial + 1, producer |-> 0]]
  /\ UNCHANGED <<table, writes, online, producer, events>>

Insert(q) ==
  /\ At(q, "inserting") /\ ~Refused(Conn(q), "insert", request[q].id)
  /\ Write(Conn(q), request[q].id) /\ Go(q, "inserted")
  /\ UNCHANGED <<table, serial, online, link, producer, events>>

\* The id is taken, by a row that was written with an explicit id.
InsertRefused(q) ==
  /\ At(q, "inserting") /\ link[Conn(q)] = "open"
  /\ Refused(Conn(q), "insert", request[q].id)
  /\ Go(q, "failed") /\ SetLink(Conn(q), "closed")
  /\ UNCHANGED <<table, serial, online, writes, producer, events>>

\* The database commits; its answer may still be lost.
CommitOrder(q) ==
  /\ At(q, "inserted") /\ Commit(Conn(q)) /\ Go(q, "committed")
  /\ UNCHANGED <<serial, online, link, producer, events>>

\* The connection breaks under the request: a 500, also if COMMIT was done.
DatabaseFails(q) ==
  /\ q \in Requests /\ link[Conn(q)] = "broken"
  /\ Go(q, "failed") /\ SetLink(Conn(q), "closed")
  /\ lost' = IF At(q, "committed") THEN lost \cup {q} ELSE lost
  /\ UNCHANGED <<table, serial, online, writes, producer, queued, topic>>

\* The answer to COMMIT arrives; engine.begin() is left.
LeaveTransaction(q) ==
  /\ At(q, "committed") /\ link[Conn(q)] = "open"
  /\ Go(q, "stored") /\ SetLink(Conn(q), "closed")
  /\ UNCHANGED <<table, serial, online, writes, producer, events>>

-----------------------------------------------------------------------------
(* publish_order_created *)

\* get_producer: threads that find no producer each make one, and the last one
\* made is kept for the others.
FindNoProducer(q) ==
  /\ At(q, "stored") /\ producer = 0
  /\ Go(q, "connecting")
  /\ UNCHANGED <<database, producer, events>>

KeepProducer(q) ==
  /\ At(q, "connecting")
  /\ Go(q, "stored") /\ producer' = q
  /\ UNCHANGED <<database, events>>

\* Mutants: the event is published inside engine.begin(), or not at all.
PublishInTransaction(q) ==
  /\ At(q, "inserted") /\ link[Conn(q)] = "open"
  /\ queued' = queued \cup {q} /\ Go(q, "publishing")
  /\ UNCHANGED <<database, producer, topic, lost>>
PublishNothing(q) ==
  /\ At(q, "stored")
  /\ Go(q, "created")
  /\ UNCHANGED <<database, producer, events>>

Publish(q) ==
  /\ At(q, "stored") /\ producer # 0
  /\ queued' = queued \cup {q}
  /\ request' = [request EXCEPT ![q] =
                   [stage |-> "publishing", id |-> request[q].id, producer |-> producer]]
  /\ UNCHANGED <<database, producer, topic, lost>>

\* produce() raises BufferError: a 500 for an order that exists.
PublishRaises(q) ==
  /\ At(q, "stored") /\ producer # 0
  /\ lost' = lost \cup {q} /\ Go(q, "failed")
  /\ UNCHANGED <<database, producer, queued, topic>>

\* What flush(10) waits for: the queue of this request's producer.
Undelivered(q) == {r \in queued : request[r].producer = request[q].producer}

\* It ends with nothing left to deliver or by its timeout; the handler ignores which.
FlushEnds(q) ==
  /\ At(q, "publishing")
  /\ \/ Undelivered(q) = {} /\ Go(q, "created")
     \/ Undelivered(q) # {} /\ Go(q, "unflushed")
  /\ UNCHANGED <<database, producer, events>>

-----------------------------------------------------------------------------
(* The producers' background threads, the broker and the process (external) *)

Deliver(q) ==
  /\ q \in queued
  /\ queued' = queued \ {q} /\ topic' = topic \cup {q}
  /\ UNCHANGED <<database, request, producer, lost>>

\* The broker refuses the event, its message timeout is over, or its producer is
\* not the one that was kept and goes with its handler.
Drop(q) ==
  /\ q \in queued
  /\ queued' = queued \ {q} /\ lost' = lost \cup {q}
  /\ UNCHANGED <<database, request, producer, topic>>

\* The process dies with its requests, transactions, producer and queue.
Crash ==
  /\ request' = [q \in Requests |->
                   IF Running(q) THEN [request[q] EXCEPT !.stage = "gone"] ELSE request[q]]
  /\ writes' = [c \in Conns |-> IF c \in ServiceConns THEN {} ELSE writes[c]]
  /\ link' = [c \in Conns |-> IF c \in ServiceConns THEN "closed" ELSE link[c]]
  /\ producer' = 0 /\ queued' = {}
  /\ lost' = lost \cup {q \in Requests : Committed(q) /\ q \notin topic
                                         /\ (Running(q) \/ q \in queued)}
  /\ UNCHANGED <<table, serial, online, topic>>

Handle(q) ==
  \/ ConnectFails(q) \/ DrawId(q) \/ Insert(q) \/ InsertRefused(q)
  \/ CommitOrder(q) \/ DatabaseFails(q) \/ LeaveTransaction(q)
  \/ FindNoProducer(q) \/ KeepProducer(q)
  \/ Publish(q) \/ PublishRaises(q) \/ FlushEnds(q)

Settle(q) == Deliver(q) \/ Drop(q)
=============================================================================
