-------------------------------- MODULE DbAgent --------------------------------
(***************************************************************************)
(* DbAgent (db/agent.py): execute(), the queries and rollback_after() of   *)
(* one scenario over the cached engine, whose pool and pre-ping are        *)
(* SQLAlchemy's, and dispose_all_engines() at the end of the session.      *)
(* The scenario is one thread: it runs one statement at a time, and waits  *)
(* for it, while its rollback_after blocks stay open.                      *)
(***************************************************************************)
EXTENDS Postgres

CONSTANTS MaxBlocks,  \* bound: nested rollback_after blocks
          PoolMax     \* pool_size + max_overflow of the engine

ASSUME AgentBounds ==
  MaxBlocks \in Nat /\ PoolMax \in Nat \ {0}

VARIABLES
  depth,      \* open blocks; the innermost is Block(depth)
  stmt,       \* the statement under way: its kind, connection, verb and row, and
              \* whether the database was shut down since it began
  idle,       \* idle connections of the pool: none, alive, or older than an outage
  failure,    \* how the last call of the agent failed, if it did
  executed,   \* rows whose execute() returned
  exposed,    \* history: a query returned a row that a block had written
  session     \* "running", or "over" once the engines are disposed

agent == <<depth, stmt, idle, failure, executed, exposed, session>>

Own == <<"statement", 1>>
Block(i) == <<"block", i>>
Blocks == {Block(i) : i \in 1..MaxBlocks}
AgentConns == Blocks \cup {Own}

NoStatement == [kind |-> "none", conn |-> Own, verb |-> "none", id |-> 0, hurt |-> FALSE]
Kinds == {"none", "execute", "committed", "query", "fast", "block"}
Failures == {"none", "raised", "timeout"}

AgentTypeOK ==
  /\ depth \in 0..MaxBlocks
  /\ stmt \in [kind : Kinds, conn : AgentConns, verb : Writing \cup Reading \cup {"none"},
               id : 0..MaxId, hurt : BOOLEAN]
  /\ idle \in {"empty", "fresh", "stale"}
  /\ failure \in Failures
  /\ executed \subseteq Ids
  /\ exposed \in BOOLEAN
  /\ session \in {"running", "over"}

AgentInit ==
  /\ depth = 0 /\ stmt = NoStatement /\ idle = "empty"
  /\ failure = "none"
  /\ executed = {} /\ exposed = FALSE /\ session = "running"

-----------------------------------------------------------------------------
(* The engine *)

CheckedOut == {c \in AgentConns : link[c] \in Alive \cup {"broken"}}
PoolFull == Cardinality(CheckedOut) >= PoolMax

\* Mutants: an engine, and so a pool, per call; an engine without pool_pre_ping.
CheckoutNewEngine(c) == online /\ SetLink(c, "open") /\ idle' = idle
CheckoutUnpinged(c) ==
  /\ online /\ ~PoolFull
  /\ SetLink(c, IF idle = "stale" THEN "broken" ELSE "open") /\ idle' = idle

\* A connection of the cached engine.  Its pre-ping replaces a stale one, and
\* with it everything that is idle.
Checkout(c) ==
  /\ online /\ ~PoolFull
  /\ SetLink(c, "open")
  /\ idle' = IF idle = "stale" THEN "empty" ELSE idle

\* The server does not answer: no connection, a pre-ping that fails included.
Unreachable == ~online /\ ~PoolFull /\ idle' = "empty" /\ UNCHANGED link

Checkin(c) ==
  /\ SetLink(c, "closed")
  /\ idle' = IF link[c] \in Alive THEN "fresh" ELSE idle

-----------------------------------------------------------------------------
(* execute, query_one, query_scalar, query_df *)

Ready == stmt.kind = "none" /\ session = "running"

Begin(kind, c, verb, id) ==
  /\ Ready
  /\ stmt' = [kind |-> kind, conn |-> c, verb |-> verb, id |-> id, hurt |-> FALSE]
  /\ failure' = "none"

End(how) == stmt' = NoStatement /\ failure' = how

Execute(verb, id) ==
  /\ Begin("execute", Own, verb, id) /\ Checkout(Own)
  /\ UNCHANGED <<table, serial, online, writes, depth, executed, exposed, session>>

\* query_one, query_scalar over it, and query_df with parameters.
Query(verb, id) ==
  /\ Begin("query", Own, verb, id) /\ Checkout(Own)
  /\ UNCHANGED <<table, serial, online, writes, depth, executed, exposed, session>>

\* query_df without parameters: connectorx connects by itself.
QueryDf(verb, id) ==
  /\ Begin("fast", Own, verb, id)
  /\ UNCHANGED <<database, depth, idle, executed, exposed, session>>

\* engine.begin() or connect() gives up, of a statement or of rollback_after:
\* every connection is checked out, or the server is down.
PoolTimesOut ==
  /\ Ready /\ PoolFull
  /\ End("timeout")
  /\ UNCHANGED <<database, depth, idle, executed, exposed, session>>

ConnectRaises ==
  /\ Ready /\ Unreachable
  /\ End("raised")
  /\ UNCHANGED <<table, serial, online, writes, depth, executed, exposed, session>>

\* engine.begin() has begun and the statement has not been run.
Unwritten == stmt.kind = "execute" /\ stmt.id \notin writes[Own]

ExecuteWrites ==
  /\ Unwritten /\ ~Refused(Own, stmt.verb, stmt.id)
  /\ Write(Own, stmt.id)
  /\ UNCHANGED <<table, serial, online, link, agent>>

\* Mutant: engine.connect() in place of engine.begin(): nothing is committed.
ExecuteUncommitted ==
  /\ stmt.kind = "execute" /\ stmt.id \in writes[Own]
  /\ Rollback(Own)
  /\ stmt' = [stmt EXCEPT !.kind = "committed"]
  /\ UNCHANGED <<table, serial, online, link, depth, idle, failure, executed, exposed, session>>

\* The database commits; its answer may still be lost.
ExecuteCommits ==
  /\ stmt.kind = "execute" /\ stmt.id \in writes[Own]
  /\ Commit(Own)
  /\ stmt' = [stmt EXCEPT !.kind = "committed"]
  /\ UNCHANGED <<serial, online, link, depth, idle, failure, executed, exposed, session>>

ExecuteReturns ==
  /\ stmt.kind = "committed" /\ link[Own] = "open"
  /\ Checkin(Own) /\ End("none")
  /\ executed' = executed \cup {stmt.id}
  /\ UNCHANGED <<table, serial, online, writes, depth, exposed, session>>

\* Mutant: the agent keeps one connection, which its blocks use as well.
ResultOnSharedConnection(id) == UNION {View(c, id) : c \in AgentConns}

\* What a query over a connection of its own returns.
Result(id) == View(Own, id)

QueryReturns ==
  /\ stmt.verb # "faulty"
  /\ \/ stmt.kind = "query" /\ link[Own] = "open" /\ Checkin(Own)
     \/ stmt.kind = "fast" /\ online /\ UNCHANGED <<link, idle>>
  /\ End("none")
  /\ exposed' = (exposed \/ Result(stmt.id) \cap Blocks # {})
  /\ UNCHANGED <<table, serial, online, writes, depth, executed, session>>

\* Any failure of the fast path: the query is run again over SQLAlchemy.
FallBack ==
  /\ stmt.kind = "fast"
  /\ \/ Checkout(Own) /\ stmt' = [stmt EXCEPT !.kind = "query"] /\ UNCHANGED failure
     \/ PoolFull /\ End("timeout") /\ UNCHANGED <<link, idle>>
     \/ Unreachable /\ End("raised")
  /\ UNCHANGED <<table, serial, online, writes, depth, executed, exposed, session>>

\* The server has refused the statement, or its connection broke; the context
\* managers roll back and close.
StatementRefused ==
  /\ Unwritten \/ stmt.kind = "query"
  /\ link[Own] = "open" /\ Refused(Own, stmt.verb, stmt.id)
ConnectionLost == stmt.kind \in {"execute", "committed", "query"} /\ link[Own] = "broken"

StatementRaises ==
  /\ StatementRefused \/ ConnectionLost
  /\ Rollback(Own) /\ Checkin(Own) /\ End("raised")
  /\ UNCHANGED <<table, serial, online, depth, executed, exposed, session>>

-----------------------------------------------------------------------------
(* rollback_after *)

EnterBlock ==
  /\ Ready /\ depth < MaxBlocks
  /\ Checkout(Block(depth + 1))
  /\ depth' = depth + 1
  /\ UNCHANGED <<table, serial, online, writes, stmt, failure, executed, exposed, session>>

\* The scenario writes over the connection that an open block has yielded.
BlockStatement(i, verb, id) ==
  /\ i <= depth
  /\ Begin("block", Block(i), verb, id)
  /\ UNCHANGED <<database, depth, idle, executed, exposed, session>>

BlockWrites ==
  /\ stmt.kind = "block" /\ ~Refused(stmt.conn, stmt.verb, stmt.id)
  /\ Write(stmt.conn, stmt.id) /\ stmt' = NoStatement
  /\ UNCHANGED <<table, serial, online, link, depth, idle, failure, executed, exposed, session>>

\* The server refuses the statement and undoes all that the block has written.
BlockRefused ==
  /\ stmt.kind = "block" /\ link[stmt.conn] = "open"
  /\ Refused(stmt.conn, stmt.verb, stmt.id)
  /\ Rollback(stmt.conn) /\ SetLink(stmt.conn, "aborted") /\ stmt' = NoStatement
  /\ UNCHANGED <<table, serial, online, depth, idle, failure, executed, exposed, session>>

\* Nothing works over an aborted transaction or a broken connection.
BlockRaises ==
  /\ stmt.kind = "block" /\ link[stmt.conn] # "open"
  /\ SetLink(stmt.conn, IF link[stmt.conn] = "aborted" THEN "aborted" ELSE "invalid")
  /\ stmt' = NoStatement
  /\ UNCHANGED <<table, serial, online, writes, depth, idle, failure, executed, exposed, session>>

\* Mutants: a block that commits; rollback and close outside a finally, which an
\* exception of the scenario skips.
ExitBlockCommits ==
  /\ Ready /\ depth > 0 /\ link[Block(depth)] # "broken"
  /\ IF link[Block(depth)] = "open" THEN Commit(Block(depth)) ELSE UNCHANGED <<table, writes>>
  /\ Checkin(Block(depth)) /\ depth' = depth - 1
  /\ UNCHANGED <<serial, online, stmt, failure, executed, exposed, session>>
ExitBlockUnguarded ==
  /\ Ready /\ depth > 0 /\ link[Block(depth)] # "broken"
  /\ \/ Rollback(Block(depth)) /\ Checkin(Block(depth))
     \/ UNCHANGED <<writes, link, idle>>
  /\ depth' = depth - 1
  /\ UNCHANGED <<table, serial, online, stmt, failure, executed, exposed, session>>

\* The end of the block, by whichever exception: rollback, then close.
ExitBlock ==
  /\ Ready /\ depth > 0 /\ link[Block(depth)] # "broken"
  /\ Rollback(Block(depth)) /\ Checkin(Block(depth))
  /\ depth' = depth - 1
  /\ UNCHANGED <<table, serial, online, stmt, failure, executed, exposed, session>>

\* The connection broke unnoticed: rollback() raises, conn.close() is skipped, and
\* SQLAlchemy gives up the connection it has seen to be broken.
ExitBlockRaises ==
  /\ Ready /\ depth > 0 /\ link[Block(depth)] = "broken"
  /\ SetLink(Block(depth), "closed")
  /\ depth' = depth - 1
  /\ UNCHANGED <<table, serial, online, writes, stmt, idle, failure, executed, exposed, session>>

-----------------------------------------------------------------------------

\* dispose_all_engines, in pytest_sessionfinish.
Dispose ==
  /\ Ready /\ depth = 0
  /\ session' = "over" /\ idle' = "empty"
  /\ UNCHANGED <<database, depth, stmt, failure, executed, exposed>>

\* A shutdown leaves stale connections, and hurts a call that is under way.
ShutdownSeenByAgent ==
  /\ idle' = IF idle = "fresh" THEN "stale" ELSE idle
  /\ stmt' = [stmt EXCEPT !.hurt = stmt.kind \notin {"none", "block"}]
  /\ UNCHANGED <<depth, failure, executed, exposed, session>>

\* The steps of a statement that has begun.
Proceed ==
  \/ ExecuteWrites \/ ExecuteCommits \/ ExecuteReturns
  \/ QueryReturns \/ FallBack \/ StatementRaises
  \/ BlockWrites \/ BlockRefused \/ BlockRaises

\* What the scenario chooses to do next.
Choose ==
  \/ \E verb \in Writing : \E id \in Rows(verb) : Execute(verb, id)
  \/ \E verb \in Reading : \E id \in Rows(verb) : Query(verb, id) \/ QueryDf(verb, id)
  \/ PoolTimesOut \/ ConnectRaises
  \/ EnterBlock \/ ExitBlock \/ ExitBlockRaises
  \/ \E i \in 1..MaxBlocks, verb \in Writing :
       \E id \in Rows(verb) : BlockStatement(i, verb, id)
  \/ Dispose

\* It waits for a row that an open block of its own has written.
WaitsForOwnBlock ==
  /\ stmt.kind \in {"execute", "block"} /\ stmt.verb # "faulty"
  /\ \E i \in 1..depth : Block(i) # stmt.conn /\ stmt.id \in writes[Block(i)]
=============================================================================
