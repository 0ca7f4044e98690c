------------------------- MODULE OrderLifecycleProofs -------------------------
(***************************************************************************)
(* Safety of OrderLifecycle for any number of rows, requests and nested    *)
(* blocks and a pool of any size, under the assumptions named in Postgres, *)
(* DbAgent, OrderService and OrderLifecycle.                               *)
(***************************************************************************)
EXTENDS OrderLifecycle, FiniteSetTheorems, TLAPS

\* The type of the statement under way.
Statements == [kind : Kinds, conn : AgentConns, verb : Writing \cup Reading \cup {"none"},
               id : 0..MaxId, hurt : BOOLEAN]

\* A connection that is not open has no transaction.
ClosedHoldsNothing == \A c \in Conns : link[c] # "open" => writes[c] = {}

\* The connection of a statement is checked out while it runs, and broken only
\* by a shutdown in that time; a committed write is in the table.
Connected == {"execute", "committed", "query"}
StatementInv ==
  /\ stmt.kind # "none" /\ stmt.verb # "faulty" => stmt.id \in Ids
  /\ IF stmt.kind \in Connected THEN link[Own] \in {"open", "broken"} ELSE link[Own] = "closed"
  /\ stmt.kind # "execute" => writes[Own] = {}
  /\ stmt.kind = "committed" => stmt.id \in Ids /\ Own \in table[stmt.id]
  /\ link[Own] = "broken" => stmt.hurt
  /\ stmt.kind = "block" => \E i \in 1..depth : stmt.conn = Block(i)

\* Blocks that are not open hold nothing.
BlocksInv ==
  \A i \in 1..MaxBlocks : i > depth => link[Block(i)] = "closed" /\ writes[Block(i)] = {}

SessionInv == session = "over" => depth = 0 /\ stmt.kind = "none" /\ idle = "empty"

\* What calls and blocks have left.
PastInv ==
  /\ ~exposed /\ \A id \in Ids : table[id] \cap Blocks = {}
  /\ \A id \in executed : Own \in table[id]

AgentInv == StatementInv /\ BlocksInv /\ SessionInv /\ PastInv

\* The connection and the order of a request at each stage of its handler.
RequestInv(q) ==
  LET r == request[q]  c == Conn(q) IN
  /\ IF r.stage \in {"inserting", "inserted", "committed"}
     THEN link[c] \in {"open", "broken"} ELSE link[c] = "closed"
  /\ r.stage \in {"idle", "begun"} => r.id = 0
  /\ r.stage \in {"inserting", "inserted"} => r.id \in Ids
  /\ r.stage # "inserted" => writes[c] = {}
  /\ r.stage = "inserted" /\ link[c] = "open" => writes[c] = {r.id}
  /\ r.stage \in {"committed", "stored", "connecting", "publishing"} \cup Answered =>
       Committed(q)
  /\ q \in queued \cup topic => Committed(q)
  /\ r.stage = "publishing" => q \in queued \cup topic \cup lost
  /\ r.stage = "created" => q \in topic \cup lost

ServiceInv == \A q \in Requests : RequestInv(q)

\* The inductive invariant.
Inv == TypeOK /\ ClosedHoldsNothing /\ AgentInv /\ ServiceInv

USE ConnsAssumption, AgentBounds, RequestsAssumption, MaxIdAssumption DEF Alive

-----------------------------------------------------------------------------
(* Connections *)

\* Connections of different owners and numbers differ.
LEMMA ConnsApart ==
  /\ \A i : Own # Block(i)
  /\ \A q : Own # Conn(q)
  /\ \A i, q : Block(i) # Conn(q)
  /\ \A i, j : Block(i) = Block(j) => i = j
  /\ \A p, q : Conn(p) = Conn(q) => p = q
BY DEF Own, Block, Conn

\* Whose they are.
LEMMA ConnsOf ==
  /\ Own \in AgentConns /\ Own \in Conns
  /\ \A i \in 1..MaxBlocks : Block(i) \in AgentConns /\ Block(i) \in Conns /\ Block(i) \in Blocks
  /\ \A q \in Requests : Conn(q) \in ServiceConns /\ Conn(q) \in Conns
  /\ \A c \in AgentConns : c = Own \/ \E i \in 1..MaxBlocks : c = Block(i)
  /\ AgentConns \subseteq Conns
BY DEF AgentConns, ServiceConns, Blocks

\* n blocks have at most n connections.
LEMMA BlocksBounded ==
  ASSUME NEW n \in Nat
  PROVE  IsFiniteSet({Block(i) : i \in 1..n}) /\ Cardinality({Block(i) : i \in 1..n}) <= n
<1> DEFINE T == {Block(i) : i \in 1..n}
           f == [i \in 1..n |-> Block(i)]
<1>1. f \in Surjection(1..n, T)
  BY DEF Surjection
<1>2. IsFiniteSet(1..n) /\ Cardinality(1..n) = n
  BY FS_Interval
<1> QED BY <1>1, <1>2, FS_Surjection

\* The agent's connections that are checked out are finitely many.
LEMMA CheckedOutFinite == IsFiniteSet(AgentConns) /\ IsFiniteSet(CheckedOut)
<1>1. IsFiniteSet(Blocks)
  BY BlocksBounded DEF Blocks
<1>2. IsFiniteSet(AgentConns)
  BY <1>1, FS_AddElement DEF AgentConns
<1>3. CheckedOut \in SUBSET AgentConns
  BY DEF CheckedOut
<1> QED BY <1>2, <1>3, FS_Subset

\* While no statement holds a connection, the open blocks have them all, so a
\* full pool has no more places than there are open blocks.
LEMMA FullPoolIsBlocks ==
  ASSUME TypeOK, AgentInv, stmt.kind \notin Connected, PoolFull
  PROVE  depth >= PoolMax
<1>1. depth \in Nat /\ depth \in 0..MaxBlocks
  BY DEF TypeOK, AgentTypeOK
<1> DEFINE T == {Block(i) : i \in 1..depth}
<1>2. CheckedOut \in SUBSET T
  BY <1>1, ConnsOf DEF CheckedOut, AgentInv, StatementInv, BlocksInv
<1>3. IsFiniteSet(T) /\ Cardinality(T) <= depth
  BY <1>1, BlocksBounded
<1> HIDE DEF T
<1>4. Cardinality(T) \in Nat /\ Cardinality(CheckedOut) \in Nat
  BY <1>3, CheckedOutFinite, FS_CardinalityType
<1>5. Cardinality(CheckedOut) <= Cardinality(T)
  BY <1>2, <1>3, FS_Subset
<1> QED BY <1>1, <1>3, <1>4, <1>5 DEF PoolFull

-----------------------------------------------------------------------------
(* Frames *)

\* A step of others: the agent's connections are as before, and no block's row
\* is committed.
Beside(conns) ==
  /\ \A c \in conns : link'[c] = link[c] /\ writes'[c] = writes[c]
  /\ \A id \in Ids : /\ table[id] \subseteq table'[id]
                     /\ table'[id] \cap Blocks = {}

\* Such a step keeps the agent's invariant.
LEMMA AgentFrame ==
  ASSUME TypeOK, AgentInv, UNCHANGED agent, Beside(AgentConns)
  PROVE  AgentInv'
<1>1. executed \subseteq Ids
  BY DEF TypeOK, AgentTypeOK
<1>2. StatementInv'
  BY ConnsOf DEF AgentInv, StatementInv, Beside, agent
<1>3. BlocksInv'
  BY ConnsOf DEF AgentInv, BlocksInv, Beside, agent
<1>4. SessionInv' /\ PastInv'
  BY <1>1 DEF AgentInv, SessionInv, PastInv, Beside, agent
<1> QED BY <1>2, <1>3, <1>4 DEF AgentInv

\* Likewise for the application's.
LEMMA ServiceFrame ==
  ASSUME TypeOK, ServiceInv, UNCHANGED service, Beside(ServiceConns)
  PROVE  ServiceInv'
<1> SUFFICES ASSUME NEW q \in Requests PROVE RequestInv(q)'
  BY DEF ServiceInv
<1>1. RequestInv(q) /\ UNCHANGED <<request, queued, topic, lost>>
  BY DEF ServiceInv, service
<1>2. request[q].id \in 0..MaxId
  BY DEF TypeOK, ServiceTypeOK
<1>3. link'[Conn(q)] = link[Conn(q)] /\ writes'[Conn(q)] = writes[Conn(q)]
  BY ConnsOf DEF Beside
<1>4. Committed(q) => Committed(q)'
  BY <1>1, <1>2 DEF Committed, Beside, Ids
<1> QED BY <1>1, <1>3, <1>4 DEF RequestInv

-----------------------------------------------------------------------------
(* The pool *)

PoolOK == Cardinality(CheckedOut) <= PoolMax

LEMMA PoolKept ==
  ASSUME PoolOK, CheckedOut' \subseteq CheckedOut
  PROVE  PoolOK'
<1>1. Cardinality(CheckedOut') <= Cardinality(CheckedOut)
  BY CheckedOutFinite, FS_Subset
<1>2. Cardinality(CheckedOut) \in Nat /\ Cardinality(CheckedOut') \in Nat
  BY CheckedOutFinite, FS_Subset, FS_CardinalityType
<1> QED BY <1>1, <1>2 DEF PoolOK

LEMMA PoolOneMore ==
  ASSUME TypeOK, NEW c, Checkout(c)
  PROVE  PoolOK'
<1>1. CheckedOut' \subseteq CheckedOut \cup {c}
  BY DEF Checkout, SetLink, CheckedOut, TypeOK, DatabaseTypeOK
<1> DEFINE more == CheckedOut \cup {c}
<1>2. IsFiniteSet(CheckedOut) /\ Cardinality(CheckedOut) \in Nat
  BY CheckedOutFinite, FS_CardinalityType
<1>3. /\ IsFiniteSet(more)
      /\ Cardinality(more) = IF c \in CheckedOut THEN Cardinality(CheckedOut)
                             ELSE Cardinality(CheckedOut) + 1
  BY <1>2, FS_AddElement
<1>4. Cardinality(more) \in Nat
  BY <1>3, FS_CardinalityType
<1>5. IsFiniteSet(CheckedOut') /\ Cardinality(CheckedOut') <= Cardinality(more)
  BY <1>1, <1>3, FS_Subset
<1>6. Cardinality(CheckedOut') \in Nat
  BY <1>5, FS_CardinalityType
<1>7. Cardinality(CheckedOut) < PoolMax
  BY <1>2 DEF Checkout, PoolFull
<1> QED BY <1>2, <1>3, <1>4, <1>5, <1>6, <1>7 DEF PoolOK

-----------------------------------------------------------------------------
(* Steps of the agent *)

\* What a step of the agent owes.
AgentKeeps ==
  /\ DatabaseTypeOK' /\ AgentTypeOK' /\ PoolOK' /\ ClosedHoldsNothing'
  /\ AgentInv' /\ Beside(ServiceConns)

\* Statements that begin.
LEMMA QueryKeeps ==
  ASSUME Inv, NEW verb \in Reading, NEW id \in Rows(verb), Query(verb, id)
  PROVE  AgentKeeps
<1> USE DEF Query, Begin, Checkout, SetLink, Ready
<1>1. DatabaseTypeOK'
  BY DEF Inv, TypeOK, DatabaseTypeOK, Links
<1>2. AgentTypeOK'
  BY ConnsOf DEF Inv, TypeOK, AgentTypeOK, Failures, Kinds, Writing, Reading, Rows, Ids
<1>3. PoolOK'
  BY PoolOneMore DEF Inv
<1>4. ClosedHoldsNothing'
  BY DEF Inv, ClosedHoldsNothing
<1>5. StatementInv'
  BY ConnsOf DEF Inv, TypeOK, DatabaseTypeOK, AgentInv, StatementInv, Connected, Rows
<1>6. BlocksInv'
  BY ConnsApart DEF Inv, AgentInv, BlocksInv
<1>7. SessionInv' /\ PastInv'
  BY DEF Inv, AgentInv, SessionInv, PastInv
<1>8. Beside(ServiceConns)
  BY ConnsApart DEF Inv, AgentInv, PastInv, Beside, ServiceConns
<1> QED BY <1>1, <1>2, <1>3, <1>4, <1>5, <1>6, <1>7, <1>8 DEF AgentKeeps, AgentInv

\* execute() checks a connection out.
LEMMA ExecuteKeeps ==
  ASSUME Inv, NEW verb \in Writing, NEW id \in Rows(verb), Execute(verb, id)
  PROVE  AgentKeeps
<1> USE DEF Execute, Begin, Checkout, SetLink, Ready
<1>1. DatabaseTypeOK'
  BY DEF Inv, TypeOK, DatabaseTypeOK, Links
<1>2. AgentTypeOK'
  BY ConnsOf DEF Inv, TypeOK, AgentTypeOK, Failures, Kinds, Writing, Reading, Rows, Ids
<1>3. PoolOK'
  BY PoolOneMore DEF Inv
<1>4. ClosedHoldsNothing'
  BY DEF Inv, ClosedHoldsNothing
<1>5. StatementInv'
  BY ConnsOf DEF Inv, TypeOK, DatabaseTypeOK, StatementInv, Connected, Rows
<1>6. BlocksInv'
  BY ConnsApart DEF Inv, AgentInv, BlocksInv
<1>7. SessionInv' /\ PastInv'
  BY DEF Inv, AgentInv, SessionInv, PastInv
<1>8. Beside(ServiceConns)
  BY ConnsApart DEF Inv, AgentInv, PastInv, Beside, ServiceConns
<1> QED BY <1>1, <1>2, <1>3, <1>4, <1>5, <1>6, <1>7, <1>8 DEF AgentKeeps, AgentInv

\* query_df starts on the fast path.
LEMMA QueryDfKeeps ==
  ASSUME Inv, NEW verb \in Reading, NEW id \in Rows(verb), QueryDf(verb, id)
  PROVE  AgentKeeps
<1> USE DEF QueryDf, Begin, Ready, database
<1>1. DatabaseTypeOK'
  BY DEF Inv, TypeOK, DatabaseTypeOK
<1>2. AgentTypeOK'
  BY ConnsOf DEF Inv, TypeOK, AgentTypeOK, Failures, Kinds, Writing, Reading, Rows, Ids
<1>3. PoolOK'
  BY DEF Inv, TypeOK, PoolOK, CheckedOut
<1>4. ClosedHoldsNothing'
  BY DEF Inv, ClosedHoldsNothing
<1>5. StatementInv'
  BY DEF Inv, AgentInv, StatementInv, Connected, Rows
<1>6. BlocksInv'
  BY DEF Inv, AgentInv, BlocksInv
<1>7. SessionInv' /\ PastInv'
  BY DEF Inv, AgentInv, SessionInv, PastInv
<1>8. Beside(ServiceConns)
  BY DEF Inv, AgentInv, PastInv, Beside
<1> QED BY <1>1, <1>2, <1>3, <1>4, <1>5, <1>6, <1>7, <1>8 DEF AgentKeeps, AgentInv

\* A statement over the connection of an open block.
LEMMA BlockStatementKeeps ==
  ASSUME Inv, NEW i \in 1..MaxBlocks, NEW verb \in Writing, NEW id \in Rows(verb),
         BlockStatement(i, verb, id)
  PROVE  AgentKeeps
<1> USE DEF BlockStatement, Begin, Ready, database
<1>1. DatabaseTypeOK'
  BY DEF Inv, TypeOK, DatabaseTypeOK
<1>2. AgentTypeOK'
  BY ConnsOf DEF Inv, TypeOK, AgentTypeOK, Failures, Kinds, Writing, Reading, Rows, Ids
<1>3. PoolOK'
  BY DEF Inv, TypeOK, PoolOK, CheckedOut
<1>4. ClosedHoldsNothing'
  BY DEF Inv, ClosedHoldsNothing
<1>5. StatementInv'
  BY DEF Inv, AgentInv, StatementInv, Connected, Rows
<1>6. BlocksInv'
  BY DEF Inv, AgentInv, BlocksInv
<1>7. SessionInv' /\ PastInv'
  BY DEF Inv, AgentInv, SessionInv, PastInv
<1>8. Beside(ServiceConns)
  BY DEF Inv, AgentInv, PastInv, Beside
<1> QED BY <1>1, <1>2, <1>3, <1>4, <1>5, <1>6, <1>7, <1>8 DEF AgentKeeps, AgentInv

\* Calls that do not get a connection.
LEMMA TimeoutKeeps == ASSUME Inv, PoolTimesOut PROVE AgentKeeps
<1> USE DEF PoolTimesOut, End, NoStatement, Ready, database
<1>1. DatabaseTypeOK'
  BY DEF Inv, TypeOK, DatabaseTypeOK
<1>2. AgentTypeOK'
  BY ConnsOf DEF Inv, TypeOK, AgentTypeOK, Failures, Kinds
<1>3. PoolOK'
  BY DEF Inv, TypeOK, PoolOK, CheckedOut
<1>4. ClosedHoldsNothing'
  BY DEF Inv, ClosedHoldsNothing
<1>5. StatementInv'
  BY DEF Inv, AgentInv, StatementInv, Connected
<1>6. BlocksInv'
  BY DEF Inv, AgentInv, BlocksInv
<1>7. SessionInv' /\ PastInv'
  BY DEF Inv, AgentInv, SessionInv, PastInv
<1>8. Beside(ServiceConns)
  BY DEF Inv, AgentInv, PastInv, Beside
<1> QED BY <1>1, <1>2, <1>3, <1>4, <1>5, <1>6, <1>7, <1>8 DEF AgentKeeps, AgentInv

\* The server is down.
LEMMA UnreachableKeeps == ASSUME Inv, ConnectRaises PROVE AgentKeeps
<1> USE DEF ConnectRaises, Unreachable, End, NoStatement, Ready
<1>1. DatabaseTypeOK'
  BY DEF Inv, TypeOK, DatabaseTypeOK
<1>2. AgentTypeOK'
  BY ConnsOf DEF Inv, TypeOK, AgentTypeOK, Failures, Kinds
<1>3. PoolOK'
  BY DEF Inv, TypeOK, PoolOK, CheckedOut
<1>4. ClosedHoldsNothing'
  BY DEF Inv, ClosedHoldsNothing
<1>5. StatementInv'
  BY DEF Inv, AgentInv, StatementInv, Connected
<1>6. BlocksInv'
  BY DEF Inv, AgentInv, BlocksInv
<1>7. SessionInv' /\ PastInv'
  BY DEF Inv, AgentInv, SessionInv, PastInv
<1>8. Beside(ServiceConns)
  BY DEF Inv, AgentInv, PastInv, Beside
<1> QED BY <1>1, <1>2, <1>3, <1>4, <1>5, <1>6, <1>7, <1>8 DEF AgentKeeps, AgentInv

\* The steps of a statement.
LEMMA WritesKeeps == ASSUME Inv, ExecuteWrites PROVE AgentKeeps
<1> USE DEF ExecuteWrites, Unwritten, Refused, Write, agent
<1>1. DatabaseTypeOK'
  BY DEF Inv, TypeOK, DatabaseTypeOK, AgentInv, StatementInv
<1>2. AgentTypeOK'
  BY DEF Inv, TypeOK, AgentTypeOK
<1>3. PoolOK'
  BY DEF Inv, TypeOK, PoolOK, CheckedOut
<1>4. ClosedHoldsNothing'
  BY DEF Inv, ClosedHoldsNothing
<1>5. StatementInv'
  BY DEF Inv, AgentInv, StatementInv
<1>6. BlocksInv'
  BY DEF Inv, AgentInv, BlocksInv
<1>7. SessionInv' /\ PastInv'
  BY DEF Inv, AgentInv, SessionInv, PastInv
<1>8. Beside(ServiceConns)
  BY ConnsApart DEF Inv, AgentInv, PastInv, Beside, ServiceConns
<1> QED BY <1>1, <1>2, <1>3, <1>4, <1>5, <1>6, <1>7, <1>8 DEF AgentKeeps, AgentInv

\* The write of execute() enters the table; no block's does.
LEMMA CommitsKeeps == ASSUME Inv, ExecuteCommits PROVE AgentKeeps
<1> USE DEF ExecuteCommits, Commit
<1>1. DatabaseTypeOK'
  BY ConnsOf DEF Inv, TypeOK, DatabaseTypeOK
<1>2. AgentTypeOK'
  <2>1. stmt \in Statements /\ stmt' = [stmt EXCEPT !.kind = "committed"]
    BY DEF Inv, TypeOK, AgentTypeOK, Statements
  <2>2. stmt' \in Statements
    BY <2>1 DEF Statements, Kinds
  <2> QED BY <2>2 DEF Inv, TypeOK, AgentTypeOK, Statements
<1>3. PoolOK'
  BY DEF Inv, TypeOK, PoolOK, CheckedOut
<1>4. ClosedHoldsNothing'
  BY DEF Inv, ClosedHoldsNothing
<1>5. StatementInv'
  BY ConnsOf DEF Inv, TypeOK, DatabaseTypeOK, StatementInv, Connected
<1>6. BlocksInv'
  BY DEF Inv, AgentInv, BlocksInv
<1>7. SessionInv' /\ PastInv'
  BY ConnsApart DEF Inv, TypeOK, AgentTypeOK, AgentInv, SessionInv, PastInv,
     Blocks
<1>8. Beside(ServiceConns)
  BY ConnsApart DEF Inv, AgentInv, PastInv, Beside, ServiceConns, Blocks
<1> QED BY <1>1, <1>2, <1>3, <1>4, <1>5, <1>6, <1>7, <1>8 DEF AgentKeeps, AgentInv

\* execute() returns, which is why its row is in the table.
LEMMA ReturnsKeeps == ASSUME Inv, ExecuteReturns PROVE AgentKeeps
<1> USE DEF ExecuteReturns, Checkin, SetLink, End, NoStatement
<1>1. DatabaseTypeOK'
  BY DEF Inv, TypeOK, DatabaseTypeOK, Links
<1>2. AgentTypeOK'
  <2>1. executed' \subseteq Ids
    BY DEF Inv, TypeOK, AgentTypeOK, AgentInv, StatementInv
  <2>2. stmt' = NoStatement /\ stmt' \in Statements
    BY ConnsOf DEF Statements, Kinds
  <2>3. idle' \in {"empty", "fresh", "stale"} /\ failure' \in Failures
    BY DEF Inv, TypeOK, AgentTypeOK, Failures
  <2> QED BY <2>1, <2>2, <2>3 DEF Inv, TypeOK, AgentTypeOK, Statements
<1>3. PoolOK'
  BY PoolKept DEF Inv, TypeOK, PoolOK, CheckedOut
<1>4. ClosedHoldsNothing'
  BY DEF Inv, AgentInv, StatementInv, ClosedHoldsNothing
<1>5. StatementInv'
  BY DEF Inv, TypeOK, DatabaseTypeOK, AgentInv, StatementInv, Connected
<1>6. BlocksInv'
  BY DEF Inv, AgentInv, BlocksInv
<1>7. SessionInv' /\ PastInv'
  BY DEF Inv, AgentInv, SessionInv, StatementInv, PastInv
<1>8. Beside(ServiceConns)
  BY ConnsApart DEF Inv, AgentInv, PastInv, Beside, ServiceConns
<1> QED BY <1>1, <1>2, <1>3, <1>4, <1>5, <1>6, <1>7, <1>8 DEF AgentKeeps, AgentInv

\* A query returns, over a connection that sees no block's row.
LEMMA QueryReturnsKeeps == ASSUME Inv, QueryReturns PROVE AgentKeeps
<1> USE DEF QueryReturns, Checkin, SetLink, End, NoStatement
<1>1. DatabaseTypeOK'
  BY DEF Inv, TypeOK, DatabaseTypeOK, Links
<1>2. AgentTypeOK'
  BY ConnsOf DEF Inv, TypeOK, AgentTypeOK, Failures, Kinds
<1>3. PoolOK'
  BY PoolKept DEF Inv, TypeOK, DatabaseTypeOK, PoolOK, CheckedOut
<1>4. ClosedHoldsNothing'
  BY DEF Inv, TypeOK, DatabaseTypeOK, AgentInv, StatementInv, ClosedHoldsNothing
<1>5. StatementInv'
  BY ConnsOf DEF Inv, TypeOK, DatabaseTypeOK, AgentInv, StatementInv, Connected
<1>6. BlocksInv'
  BY ConnsOf DEF Inv, TypeOK, DatabaseTypeOK, AgentInv, BlocksInv
<1>7. SessionInv' /\ PastInv'
  BY DEF Inv, AgentInv, SessionInv, StatementInv, PastInv, Result, View
<1>8. Beside(ServiceConns)
  BY ConnsApart DEF Inv, TypeOK, DatabaseTypeOK, AgentInv, PastInv, Beside, ServiceConns
<1> QED BY <1>1, <1>2, <1>3, <1>4, <1>5, <1>6, <1>7, <1>8 DEF AgentKeeps, AgentInv

\* The outcomes of FallBack: the query runs again, or gets no connection.
RunAgain ==
  /\ stmt.kind = "fast" /\ Checkout(Own) /\ stmt' = [stmt EXCEPT !.kind = "query"]
  /\ UNCHANGED <<table, serial, online, writes, depth, failure, executed, exposed, session>>
GiveUp(how) ==
  /\ stmt.kind = "fast" /\ End(how)
  /\ idle' \in {idle, "empty"}
  /\ UNCHANGED <<database, depth, executed, exposed, session>>

\* The fast path has failed and the query runs again.
LEMMA RetryKeeps == ASSUME Inv, RunAgain PROVE AgentKeeps
<1> USE DEF RunAgain, Checkout, SetLink
<1>1. DatabaseTypeOK'
  BY DEF Inv, TypeOK, DatabaseTypeOK, Links
<1>2. AgentTypeOK'
  <2>1. stmt \in Statements /\ stmt' = [stmt EXCEPT !.kind = "query"]
    BY DEF Inv, TypeOK, AgentTypeOK, Statements
  <2>2. stmt' \in Statements
    BY <2>1 DEF Statements, Kinds
  <2>3. idle' \in {"empty", "fresh", "stale"}
    BY DEF Inv, TypeOK, AgentTypeOK
  <2> QED BY <2>2, <2>3 DEF Inv, TypeOK, AgentTypeOK, Statements
<1>3. PoolOK'
  BY PoolOneMore DEF Inv
<1>4. ClosedHoldsNothing'
  BY DEF Inv, ClosedHoldsNothing
<1>5. StatementInv'
  BY ConnsOf DEF Inv, TypeOK, DatabaseTypeOK, AgentInv, StatementInv, Connected
<1>6. BlocksInv'
  BY ConnsApart DEF Inv, AgentInv, BlocksInv
<1>7. SessionInv' /\ PastInv'
  BY DEF Inv, AgentInv, SessionInv, PastInv
<1>8. Beside(ServiceConns)
  BY ConnsApart DEF Inv, AgentInv, PastInv, Beside, ServiceConns
<1> QED BY <1>1, <1>2, <1>3, <1>4, <1>5, <1>6, <1>7, <1>8 DEF AgentKeeps, AgentInv

\* The fast path has failed, and the pool is full or the server down.
LEMMA GiveUpKeeps == ASSUME Inv, NEW how \in Failures, GiveUp(how) PROVE AgentKeeps
<1> USE DEF GiveUp, End, NoStatement, database
<1>1. DatabaseTypeOK'
  BY DEF Inv, TypeOK, DatabaseTypeOK
<1>2. AgentTypeOK'
  BY ConnsOf DEF Inv, TypeOK, AgentTypeOK, Failures, Kinds
<1>3. PoolOK'
  BY DEF Inv, TypeOK, PoolOK, CheckedOut
<1>4. ClosedHoldsNothing'
  BY DEF Inv, ClosedHoldsNothing
<1>5. StatementInv'
  BY DEF Inv, AgentInv, StatementInv, Connected
<1>6. BlocksInv'
  BY DEF Inv, AgentInv, BlocksInv
<1>7. SessionInv' /\ PastInv'
  BY DEF Inv, AgentInv, SessionInv, PastInv
<1>8. Beside(ServiceConns)
  BY DEF Inv, AgentInv, PastInv, Beside
<1> QED BY <1>1, <1>2, <1>3, <1>4, <1>5, <1>6, <1>7, <1>8 DEF AgentKeeps, AgentInv

\* All outcomes of query_df's except clause.
LEMMA FallBackKeeps == ASSUME Inv, FallBack PROVE AgentKeeps
<1>1. RunAgain \/ \E how \in Failures : GiveUp(how)
  BY DEF FallBack, RunAgain, GiveUp, Unreachable, Failures, database
<1> QED BY <1>1, RetryKeeps, GiveUpKeeps

\* A statement raises, refused or after the shutdown that broke its connection.
LEMMA RaisesKeeps == ASSUME Inv, StatementRaises PROVE AgentKeeps
<1> USE DEF StatementRaises, StatementRefused, ConnectionLost, Unwritten, Rollback, Checkin, SetLink, End, NoStatement
<1>1. DatabaseTypeOK'
  BY DEF Inv, TypeOK, DatabaseTypeOK, Links
<1>2. AgentTypeOK'
  BY ConnsOf DEF Inv, TypeOK, AgentTypeOK, Failures, Kinds
<1>3. PoolOK'
  BY PoolKept DEF Inv, TypeOK, PoolOK, CheckedOut
<1>4. ClosedHoldsNothing'
  BY ConnsOf DEF Inv, TypeOK, DatabaseTypeOK, ClosedHoldsNothing
<1>5. StatementInv'
  BY ConnsOf DEF Inv, TypeOK, DatabaseTypeOK, StatementInv, Connected
<1>6. BlocksInv'
  BY DEF Inv, AgentInv, BlocksInv
<1>7. SessionInv' /\ PastInv'
  BY DEF Inv, AgentInv, SessionInv, StatementInv, PastInv
<1>8. Beside(ServiceConns)
  BY ConnsApart DEF Inv, AgentInv, PastInv, Beside, ServiceConns
<1> QED BY <1>1, <1>2, <1>3, <1>4, <1>5, <1>6, <1>7, <1>8 DEF AgentKeeps, AgentInv

\* rollback_after checks a connection out for the next block.
LEMMA EnterBlockKeeps == ASSUME Inv, EnterBlock PROVE AgentKeeps
<1> USE DEF EnterBlock, Checkout, SetLink, Ready
<1>1. DatabaseTypeOK'
  BY DEF Inv, TypeOK, DatabaseTypeOK, Links
<1>2. AgentTypeOK'
  BY DEF Inv, TypeOK, AgentTypeOK
<1>3. PoolOK'
  BY PoolOneMore DEF Inv
<1>4. ClosedHoldsNothing'
  BY DEF Inv, ClosedHoldsNothing
<1>5. StatementInv'
  BY ConnsApart DEF Inv, AgentInv, StatementInv
<1>6. BlocksInv'
  BY ConnsApart DEF Inv, TypeOK, AgentTypeOK, AgentInv, BlocksInv
<1>7. SessionInv' /\ PastInv'
  BY DEF Inv, AgentInv, SessionInv, PastInv
<1>8. Beside(ServiceConns)
  BY ConnsApart DEF Inv, AgentInv, PastInv, Beside, ServiceConns
<1> QED BY <1>1, <1>2, <1>3, <1>4, <1>5, <1>6, <1>7, <1>8 DEF AgentKeeps, AgentInv

\* A block writes and locks a row.
LEMMA BlockWritesKeeps == ASSUME Inv, BlockWrites PROVE AgentKeeps
<1> USE DEF BlockWrites, Write, NoStatement
<1>1. DatabaseTypeOK'
  BY DEF Inv, TypeOK, DatabaseTypeOK, AgentInv, StatementInv, Refused
<1>2. AgentTypeOK'
  BY ConnsOf DEF Inv, TypeOK, AgentTypeOK, Kinds
<1>3. PoolOK'
  BY DEF Inv, TypeOK, PoolOK, CheckedOut
<1>4. ClosedHoldsNothing'
  BY DEF Inv, ClosedHoldsNothing
<1>5. StatementInv'
  BY DEF Inv, AgentInv, StatementInv, Connected
<1>6. BlocksInv'
  BY DEF Inv, AgentInv, BlocksInv
<1>7. SessionInv' /\ PastInv'
  BY DEF Inv, AgentInv, SessionInv, PastInv
<1>8. Beside(ServiceConns)
  BY ConnsApart DEF Inv, AgentInv, StatementInv, PastInv, Beside, ServiceConns
<1> QED BY <1>1, <1>2, <1>3, <1>4, <1>5, <1>6, <1>7, <1>8 DEF AgentKeeps, AgentInv

\* The server refuses a statement of a block.
LEMMA BlockRefusedKeeps == ASSUME Inv, BlockRefused PROVE AgentKeeps
<1> USE DEF BlockRefused, Rollback, SetLink, NoStatement
<1>1. DatabaseTypeOK'
  BY DEF Inv, TypeOK, DatabaseTypeOK, Links
<1>2. AgentTypeOK'
  BY ConnsOf DEF Inv, TypeOK, AgentTypeOK, Kinds
<1>3. PoolOK'
  BY PoolKept DEF Inv, TypeOK, PoolOK, CheckedOut
<1>4. ClosedHoldsNothing'
  BY DEF Inv, TypeOK, DatabaseTypeOK, ClosedHoldsNothing
<1>5. StatementInv'
  BY DEF Inv, AgentInv, StatementInv, Connected
<1>6. BlocksInv'
  BY DEF Inv, AgentInv, BlocksInv
<1>7. SessionInv' /\ PastInv'
  BY DEF Inv, AgentInv, SessionInv, PastInv
<1>8. Beside(ServiceConns)
  BY ConnsApart DEF Inv, AgentInv, StatementInv, PastInv, Beside, ServiceConns
<1> QED BY <1>1, <1>2, <1>3, <1>4, <1>5, <1>6, <1>7, <1>8 DEF AgentKeeps, AgentInv

\* A block's connection proves to be broken, or its transaction aborted.
LEMMA BlockRaisesKeeps == ASSUME Inv, BlockRaises PROVE AgentKeeps
<1> USE DEF BlockRaises, SetLink, NoStatement
<1>1. DatabaseTypeOK'
  BY DEF Inv, TypeOK, DatabaseTypeOK, Links
<1>2. AgentTypeOK'
  BY ConnsOf DEF Inv, TypeOK, AgentTypeOK, Kinds
<1>3. PoolOK'
  BY PoolKept DEF Inv, TypeOK, PoolOK, CheckedOut
<1>4. ClosedHoldsNothing'
  BY DEF Inv, ClosedHoldsNothing
<1>5. StatementInv'
  BY ConnsApart DEF Inv, AgentInv, StatementInv, Connected
<1>6. BlocksInv'
  BY ConnsApart DEF Inv, TypeOK, AgentTypeOK, AgentInv, StatementInv, BlocksInv
<1>7. SessionInv' /\ PastInv'
  BY DEF Inv, AgentInv, SessionInv, PastInv
<1>8. Beside(ServiceConns)
  BY ConnsApart DEF Inv, AgentInv, StatementInv, PastInv, Beside, ServiceConns
<1> QED BY <1>1, <1>2, <1>3, <1>4, <1>5, <1>6, <1>7, <1>8 DEF AgentKeeps, AgentInv

\* The innermost block is rolled back and closed.
LEMMA ExitBlockKeeps == ASSUME Inv, ExitBlock PROVE AgentKeeps
<1> USE DEF ExitBlock, Rollback, Checkin, SetLink, Ready
<1>1. DatabaseTypeOK'
  BY DEF Inv, TypeOK, DatabaseTypeOK, Links
<1>2. AgentTypeOK'
  BY DEF Inv, TypeOK, AgentTypeOK
<1>3. PoolOK'
  BY PoolKept DEF Inv, TypeOK, PoolOK, CheckedOut
<1>4. ClosedHoldsNothing'
  BY DEF Inv, TypeOK, DatabaseTypeOK, ClosedHoldsNothing
<1>5. StatementInv'
  BY DEF Inv, AgentInv, StatementInv, Connected
<1>6. BlocksInv'
  BY ConnsOf DEF Inv, TypeOK, DatabaseTypeOK, AgentTypeOK, AgentInv, BlocksInv
<1>7. SessionInv' /\ PastInv'
  BY DEF Inv, AgentInv, SessionInv, PastInv
<1>8. Beside(ServiceConns)
  BY ConnsApart DEF Inv, AgentInv, PastInv, Beside, ServiceConns
<1> QED BY <1>1, <1>2, <1>3, <1>4, <1>5, <1>6, <1>7, <1>8 DEF AgentKeeps, AgentInv

\* rollback() raises: the block is broken, so it holds no row.
LEMMA ExitBlockRaisesKeeps == ASSUME Inv, ExitBlockRaises PROVE AgentKeeps
<1> USE DEF ExitBlockRaises, SetLink, Ready
<1>1. DatabaseTypeOK'
  BY DEF Inv, TypeOK, DatabaseTypeOK, Links
<1>2. AgentTypeOK'
  BY DEF Inv, TypeOK, AgentTypeOK
<1>3. PoolOK'
  BY PoolKept DEF Inv, TypeOK, PoolOK, CheckedOut
<1>4. ClosedHoldsNothing'
  BY DEF Inv, ClosedHoldsNothing
<1>5. StatementInv'
  BY DEF Inv, AgentInv, StatementInv, Connected
<1>6. BlocksInv'
  BY ConnsOf DEF Inv, TypeOK, DatabaseTypeOK, AgentTypeOK, AgentInv, ClosedHoldsNothing,
     BlocksInv
<1>7. SessionInv' /\ PastInv'
  BY DEF Inv, AgentInv, SessionInv, PastInv
<1>8. Beside(ServiceConns)
  BY ConnsApart DEF Inv, AgentInv, PastInv, Beside, ServiceConns
<1> QED BY <1>1, <1>2, <1>3, <1>4, <1>5, <1>6, <1>7, <1>8 DEF AgentKeeps, AgentInv

\* The end of the session.
LEMMA DisposeKeeps == ASSUME Inv, Dispose PROVE AgentKeeps
<1> USE DEF Dispose, Ready, database
<1>1. DatabaseTypeOK'
  BY DEF Inv, TypeOK, DatabaseTypeOK
<1>2. AgentTypeOK'
  BY DEF Inv, TypeOK, AgentTypeOK
<1>3. PoolOK'
  BY DEF Inv, TypeOK, PoolOK, CheckedOut
<1>4. ClosedHoldsNothing'
  BY DEF Inv, ClosedHoldsNothing
<1>5. StatementInv'
  BY DEF Inv, AgentInv, StatementInv
<1>6. BlocksInv'
  BY DEF Inv, AgentInv, BlocksInv
<1>7. SessionInv' /\ PastInv'
  BY DEF Inv, AgentInv, SessionInv, PastInv
<1>8. Beside(ServiceConns)
  BY DEF Inv, AgentInv, PastInv, Beside
<1> QED BY <1>1, <1>2, <1>3, <1>4, <1>5, <1>6, <1>7, <1>8 DEF AgentKeeps, AgentInv

-----------------------------------------------------------------------------
(* Steps of the application and of Kafka *)

\* What a step of the application owes.
ServiceKeeps ==
  /\ DatabaseTypeOK' /\ ServiceTypeOK' /\ ClosedHoldsNothing'
  /\ ServiceInv' /\ Beside(AgentConns)

\* A request whose own state and connection a step leaves alone, and whose event
\* it at most moves on.
LEMMA RequestFrame ==
  ASSUME TypeOK, NEW r \in Requests, RequestInv(r),
         request'[r] = request[r], link'[Conn(r)] = link[Conn(r)], writes'[Conn(r)] = writes[Conn(r)],
         \A id \in Ids : table[id] \subseteq table'[id],
         r \in queued' \cup topic' => r \in queued \cup topic,
         r \in queued \cup topic \cup lost => r \in queued' \cup topic' \cup lost',
         r \in topic \cup lost => r \in topic' \cup lost'
  PROVE  RequestInv(r)'
<1>1. request[r].id \in 0..MaxId
  BY DEF TypeOK, ServiceTypeOK
<1>2. Committed(r) => Committed(r)'
  BY <1>1 DEF Committed, Ids
<1> QED BY <1>2 DEF RequestInv

\* The handler of create_order.
LEMMA ReceiveKeeps == ASSUME Inv, NEW q \in Requests, Receive(q) PROVE ServiceKeeps
<1> USE DEF Receive, At, Go, database, events
<1>1. DatabaseTypeOK'
  BY DEF Inv, TypeOK, DatabaseTypeOK
<1>2. ServiceTypeOK'
  BY DEF Inv, TypeOK, ServiceTypeOK, Stages
<1>3. ClosedHoldsNothing'
  BY DEF Inv, ClosedHoldsNothing
<1>4. RequestInv(q)'
  BY DEF Inv, ServiceInv, RequestInv, Committed, Answered
<1>5. \A r \in Requests \ {q} : RequestInv(r)'
  BY RequestFrame DEF Inv, ServiceInv
<1>6. Beside(AgentConns)
  BY DEF Inv, AgentInv, PastInv, Beside
<1> QED BY <1>1, <1>2, <1>3, <1>4, <1>5, <1>6 DEF ServiceKeeps, ServiceInv

\* The server is down.
LEMMA ConnectFailsKeeps == ASSUME Inv, NEW q \in Requests, ConnectFails(q) PROVE ServiceKeeps
<1> USE DEF ConnectFails, At, Go, database, events
<1>1. DatabaseTypeOK'
  BY DEF Inv, TypeOK, DatabaseTypeOK
<1>2. ServiceTypeOK'
  BY DEF Inv, TypeOK, ServiceTypeOK, Stages, Over, Answered
<1>3. ClosedHoldsNothing'
  BY DEF Inv, ClosedHoldsNothing
<1>4. RequestInv(q)'
  BY DEF Inv, TypeOK, ServiceTypeOK, ServiceInv, RequestInv, Committed, Answered
<1>5. \A r \in Requests \ {q} : RequestInv(r)'
  BY RequestFrame DEF Inv, TypeOK, ServiceTypeOK, ServiceInv
<1>6. Beside(AgentConns)
  BY DEF Inv, AgentInv, PastInv, Beside
<1> QED BY <1>1, <1>2, <1>3, <1>4, <1>5, <1>6 DEF ServiceKeeps, ServiceInv

\* INSERT draws its id.
LEMMA DrawIdKeeps == ASSUME Inv, NEW q \in Requests, DrawId(q) PROVE ServiceKeeps
<1> USE DEF DrawId, At, SetLink, events
<1>1. DatabaseTypeOK'
  BY ConnsOf DEF Inv, TypeOK, DatabaseTypeOK, Links
<1>2. ServiceTypeOK'
  BY DEF Inv, TypeOK, DatabaseTypeOK, ServiceTypeOK, Stages
<1>3. ClosedHoldsNothing'
  BY DEF Inv, ClosedHoldsNothing
<1>4. RequestInv(q)'
  BY ConnsOf DEF Inv, TypeOK, DatabaseTypeOK, ServiceTypeOK, ServiceInv, RequestInv,
     Committed, Answered, Ids
<1>5. \A r \in Requests \ {q} : RequestInv(r)'
  BY RequestFrame, ConnsApart DEF Inv, ServiceInv
<1>6. Beside(AgentConns)
  BY ConnsApart DEF Inv, AgentInv, PastInv, Beside, AgentConns, Blocks
<1> QED BY <1>1, <1>2, <1>3, <1>4, <1>5, <1>6 DEF ServiceKeeps, ServiceInv

\* INSERT writes the row.
LEMMA InsertKeeps == ASSUME Inv, NEW q \in Requests, Insert(q) PROVE ServiceKeeps
<1> USE DEF Insert, Refused, At, Go, Write, events
<1>1. DatabaseTypeOK'
  BY DEF Inv, TypeOK, DatabaseTypeOK, ServiceInv, RequestInv
<1>2. ServiceTypeOK'
  BY DEF Inv, TypeOK, ServiceTypeOK, Stages
<1>3. ClosedHoldsNothing'
  BY DEF Inv, ClosedHoldsNothing
<1>4. RequestInv(q)'
  BY ConnsOf DEF Inv, TypeOK, DatabaseTypeOK, ServiceTypeOK, ServiceInv, RequestInv,
     Committed, Answered
<1>5. \A r \in Requests \ {q} : RequestInv(r)'
  BY RequestFrame, ConnsApart DEF Inv, ServiceInv
<1>6. Beside(AgentConns)
  BY ConnsApart DEF Inv, AgentInv, PastInv, Beside, AgentConns, Blocks
<1> QED BY <1>1, <1>2, <1>3, <1>4, <1>5, <1>6 DEF ServiceKeeps, ServiceInv

\* INSERT finds the id taken.
LEMMA InsertRefusedKeeps == ASSUME Inv, NEW q \in Requests, InsertRefused(q) PROVE ServiceKeeps
<1> USE DEF InsertRefused, Refused, At, Go, SetLink, events
<1>1. DatabaseTypeOK'
  BY DEF Inv, TypeOK, DatabaseTypeOK, Links
<1>2. ServiceTypeOK'
  BY DEF Inv, TypeOK, ServiceTypeOK, Stages, Over
<1>3. ClosedHoldsNothing'
  BY DEF Inv, ServiceInv, RequestInv, ClosedHoldsNothing
<1>4. RequestInv(q)'
  BY ConnsOf DEF Inv, TypeOK, DatabaseTypeOK, ServiceTypeOK, ServiceInv, RequestInv,
     Committed, Answered
<1>5. \A r \in Requests \ {q} : RequestInv(r)'
  BY RequestFrame, ConnsApart DEF Inv, ServiceInv
<1>6. Beside(AgentConns)
  BY ConnsApart DEF Inv, AgentInv, PastInv, Beside, AgentConns, Blocks
<1> QED BY <1>1, <1>2, <1>3, <1>4, <1>5, <1>6 DEF ServiceKeeps, ServiceInv

\* The order enters the table.
LEMMA CommitOrderKeeps == ASSUME Inv, NEW q \in Requests, CommitOrder(q) PROVE ServiceKeeps
<1> USE DEF CommitOrder, At, Go, Commit, events
<1>1. DatabaseTypeOK'
  BY ConnsOf DEF Inv, TypeOK, DatabaseTypeOK
<1>2. ServiceTypeOK'
  BY DEF Inv, TypeOK, ServiceTypeOK, Stages
<1>3. ClosedHoldsNothing'
  BY DEF Inv, ClosedHoldsNothing
<1>4. RequestInv(q)'
  BY ConnsOf DEF Inv, TypeOK, DatabaseTypeOK, ServiceTypeOK, ServiceInv, RequestInv,
     Committed, Ids
<1>5. \A r \in Requests \ {q} : RequestInv(r)'
  BY RequestFrame, ConnsApart DEF Inv, ServiceInv
<1>6. Beside(AgentConns)
  BY ConnsApart DEF Inv, AgentInv, PastInv, Beside, AgentConns, Blocks
<1> QED BY <1>1, <1>2, <1>3, <1>4, <1>5, <1>6 DEF ServiceKeeps, ServiceInv

\* The database goes away under the request.
LEMMA DatabaseFailsKeeps == ASSUME Inv, NEW q \in Requests, DatabaseFails(q) PROVE ServiceKeeps
<1> USE DEF DatabaseFails, At, Go, SetLink, events
<1>1. DatabaseTypeOK'
  BY DEF Inv, TypeOK, DatabaseTypeOK, Links
<1>2. ServiceTypeOK'
  BY DEF Inv, TypeOK, ServiceTypeOK, Stages, Over
<1>3. ClosedHoldsNothing'
  BY DEF Inv, ClosedHoldsNothing
<1>4. RequestInv(q)'
  BY ConnsOf DEF Inv, TypeOK, DatabaseTypeOK, ServiceTypeOK, ClosedHoldsNothing,
     ServiceInv, RequestInv, Committed, Answered
<1>5. \A r \in Requests \ {q} : RequestInv(r)'
  BY RequestFrame, ConnsApart DEF Inv, ServiceInv
<1>6. Beside(AgentConns)
  BY ConnsApart DEF Inv, AgentInv, PastInv, Beside, AgentConns, Blocks
<1> QED BY <1>1, <1>2, <1>3, <1>4, <1>5, <1>6 DEF ServiceKeeps, ServiceInv

\* The transaction is over, with its order in the table.
LEMMA LeaveTransactionKeeps == ASSUME Inv, NEW q \in Requests, LeaveTransaction(q) PROVE ServiceKeeps
<1> USE DEF LeaveTransaction, At, Go, SetLink, events
<1>1. DatabaseTypeOK'
  BY DEF Inv, TypeOK, DatabaseTypeOK, Links
<1>2. ServiceTypeOK'
  BY DEF Inv, TypeOK, ServiceTypeOK, Stages, Over
<1>3. ClosedHoldsNothing'
  BY DEF Inv, ServiceInv, RequestInv, ClosedHoldsNothing
<1>4. RequestInv(q)'
  BY ConnsOf DEF Inv, TypeOK, DatabaseTypeOK, ServiceTypeOK, ClosedHoldsNothing,
     ServiceInv, RequestInv, Committed, Answered
<1>5. \A r \in Requests \ {q} : RequestInv(r)'
  BY RequestFrame, ConnsApart DEF Inv, ServiceInv
<1>6. Beside(AgentConns)
  BY ConnsApart DEF Inv, AgentInv, PastInv, Beside, AgentConns, Blocks
<1> QED BY <1>1, <1>2, <1>3, <1>4, <1>5, <1>6 DEF ServiceKeeps, ServiceInv

\* The thread finds no producer.
LEMMA FindNoProducerKeeps == ASSUME Inv, NEW q \in Requests, FindNoProducer(q) PROVE ServiceKeeps
<1> USE DEF FindNoProducer, At, Go, database, events
<1>1. DatabaseTypeOK'
  BY DEF Inv, TypeOK, DatabaseTypeOK
<1>2. ServiceTypeOK'
  BY DEF Inv, TypeOK, ServiceTypeOK, Stages
<1>3. ClosedHoldsNothing'
  BY DEF Inv, ClosedHoldsNothing
<1>4. RequestInv(q)'
  BY DEF Inv, TypeOK, ServiceTypeOK, ServiceInv, RequestInv, Committed
<1>5. \A r \in Requests \ {q} : RequestInv(r)'
  BY RequestFrame DEF Inv, TypeOK, ServiceTypeOK, ServiceInv
<1>6. Beside(AgentConns)
  BY DEF Inv, AgentInv, PastInv, Beside
<1> QED BY <1>1, <1>2, <1>3, <1>4, <1>5, <1>6 DEF ServiceKeeps, ServiceInv

\* Its own becomes the one that is kept.
LEMMA KeepProducerKeeps == ASSUME Inv, NEW q \in Requests, KeepProducer(q) PROVE ServiceKeeps
<1> USE DEF KeepProducer, At, Go, database, events
<1>1. DatabaseTypeOK'
  BY DEF Inv, TypeOK, DatabaseTypeOK
<1>2. ServiceTypeOK'
  <2>1. request' \in [Requests -> [stage : Stages, id : 0..MaxId, producer : 0..MaxRequests]]
    BY DEF Inv, TypeOK, ServiceTypeOK, Stages
  <2>2. producer' \in 0..MaxRequests
    BY DEF Requests
  <2> QED BY <2>1, <2>2 DEF Inv, TypeOK, ServiceTypeOK
<1>3. ClosedHoldsNothing'
  BY DEF Inv, ClosedHoldsNothing
<1>4. RequestInv(q)'
  BY DEF Inv, TypeOK, ServiceTypeOK, ServiceInv, RequestInv, Committed
<1>5. \A r \in Requests \ {q} : RequestInv(r)'
  BY RequestFrame DEF Inv, TypeOK, ServiceTypeOK, ServiceInv
<1>6. Beside(AgentConns)
  BY DEF Inv, AgentInv, PastInv, Beside
<1> QED BY <1>1, <1>2, <1>3, <1>4, <1>5, <1>6 DEF ServiceKeeps, ServiceInv

\* The event is queued, after the commit.
LEMMA PublishKeeps == ASSUME Inv, NEW q \in Requests, Publish(q) PROVE ServiceKeeps
<1> USE DEF Publish, At, Go, database, events
<1>1. DatabaseTypeOK'
  BY DEF Inv, TypeOK, DatabaseTypeOK
<1>2. ServiceTypeOK'
  BY DEF Inv, TypeOK, ServiceTypeOK, Stages
<1>3. ClosedHoldsNothing'
  BY DEF Inv, ClosedHoldsNothing
<1>4. RequestInv(q)'
  BY DEF Inv, TypeOK, ServiceTypeOK, ServiceInv, RequestInv, Committed
<1>5. \A r \in Requests \ {q} : RequestInv(r)'
  BY RequestFrame DEF Inv, TypeOK, ServiceTypeOK, ServiceInv
<1>6. Beside(AgentConns)
  BY DEF Inv, AgentInv, PastInv, Beside
<1> QED BY <1>1, <1>2, <1>3, <1>4, <1>5, <1>6 DEF ServiceKeeps, ServiceInv

\* The event cannot be queued.
LEMMA PublishRaisesKeeps == ASSUME Inv, NEW q \in Requests, PublishRaises(q) PROVE ServiceKeeps
<1> USE DEF PublishRaises, At, Go, database, events
<1>1. DatabaseTypeOK'
  BY DEF Inv, TypeOK, DatabaseTypeOK
<1>2. ServiceTypeOK'
  BY DEF Inv, TypeOK, ServiceTypeOK, Stages, Over, Answered
<1>3. ClosedHoldsNothing'
  BY DEF Inv, ClosedHoldsNothing
<1>4. RequestInv(q)'
  BY DEF Inv, TypeOK, ServiceTypeOK, ServiceInv, RequestInv, Committed
<1>5. \A r \in Requests \ {q} : RequestInv(r)'
  BY RequestFrame DEF Inv, TypeOK, ServiceTypeOK, ServiceInv
<1>6. Beside(AgentConns)
  BY DEF Inv, AgentInv, PastInv, Beside
<1> QED BY <1>1, <1>2, <1>3, <1>4, <1>5, <1>6 DEF ServiceKeeps, ServiceInv

\* flush(10) ends and the request is answered.
LEMMA FlushEndsKeeps == ASSUME Inv, NEW q \in Requests, FlushEnds(q) PROVE ServiceKeeps
<1> USE DEF FlushEnds, Undelivered, At, Go, database, events
<1>1. DatabaseTypeOK'
  BY DEF Inv, TypeOK, DatabaseTypeOK
<1>2. ServiceTypeOK'
  BY DEF Inv, TypeOK, ServiceTypeOK, Stages, Over, Answered
<1>3. ClosedHoldsNothing'
  BY DEF Inv, ClosedHoldsNothing
<1>4. RequestInv(q)'
  BY DEF Inv, TypeOK, ServiceTypeOK, ServiceInv, RequestInv, Committed
<1>5. \A r \in Requests \ {q} : RequestInv(r)'
  BY RequestFrame DEF Inv, TypeOK, ServiceTypeOK, ServiceInv
<1>6. Beside(AgentConns)
  BY DEF Inv, AgentInv, PastInv, Beside
<1> QED BY <1>1, <1>2, <1>3, <1>4, <1>5, <1>6 DEF ServiceKeeps, ServiceInv

\* Kafka's answer to an event.
LEMMA DeliverKeeps == ASSUME Inv, NEW q \in Requests, Deliver(q) PROVE ServiceKeeps
<1> USE DEF Deliver, database, events
<1>1. DatabaseTypeOK'
  BY DEF Inv, TypeOK, DatabaseTypeOK
<1>2. ServiceTypeOK'
  BY DEF Inv, TypeOK, ServiceTypeOK
<1>3. ClosedHoldsNothing'
  BY DEF Inv, ClosedHoldsNothing
<1>4. RequestInv(q)'
  BY DEF Inv, ServiceInv, RequestInv, Committed
<1>5. \A r \in Requests \ {q} : RequestInv(r)'
  BY RequestFrame DEF Inv, ServiceInv
<1>6. Beside(AgentConns)
  BY DEF Inv, AgentInv, PastInv, Beside
<1> QED BY <1>1, <1>2, <1>3, <1>4, <1>5, <1>6 DEF ServiceKeeps, ServiceInv

\* Kafka gives the event up.
LEMMA DropKeeps == ASSUME Inv, NEW q \in Requests, Drop(q) PROVE ServiceKeeps
<1> USE DEF Drop, database, events
<1>1. DatabaseTypeOK'
  BY DEF Inv, TypeOK, DatabaseTypeOK
<1>2. ServiceTypeOK'
  BY DEF Inv, TypeOK, ServiceTypeOK
<1>3. ClosedHoldsNothing'
  BY DEF Inv, ClosedHoldsNothing
<1>4. RequestInv(q)'
  BY DEF Inv, ServiceInv, RequestInv, Committed
<1>5. \A r \in Requests \ {q} : RequestInv(r)'
  BY RequestFrame DEF Inv, ServiceInv
<1>6. Beside(AgentConns)
  BY DEF Inv, AgentInv, PastInv, Beside
<1> QED BY <1>1, <1>2, <1>3, <1>4, <1>5, <1>6 DEF ServiceKeeps, ServiceInv

-----------------------------------------------------------------------------
(* Faults *)

\* A shutdown ends every transaction and breaks the open connections.
LEMMA ShutdownKeeps ==
  ASSUME Inv, Shutdown, ShutdownSeenByAgent, UNCHANGED <<service, posting>>
  PROVE  Inv'
<1> USE DEF Shutdown, ShutdownSeenByAgent, service
<1>1. DatabaseTypeOK' /\ ClosedHoldsNothing'
  BY DEF Inv, TypeOK, DatabaseTypeOK, Links, ClosedHoldsNothing
<1>2. AgentTypeOK'
  BY DEF Inv, TypeOK, AgentTypeOK
<1>3. PoolOK'
  BY DEF Inv, TypeOK, PoolOK, CheckedOut
<1>4. StatementInv'
  BY ConnsOf DEF Inv, TypeOK, AgentTypeOK, AgentInv, StatementInv, Connected
<1>5. BlocksInv'
  BY ConnsOf DEF Inv, AgentInv, BlocksInv
<1>6. SessionInv' /\ PastInv'
  BY DEF Inv, AgentInv, SessionInv, PastInv
<1>7. ServiceInv'
  <2> SUFFICES ASSUME NEW q \in Requests PROVE RequestInv(q)'
    BY DEF ServiceInv
  <2>1. RequestInv(q)
    BY DEF Inv, ServiceInv
  <2>2. writes'[Conn(q)] = {} /\ link'[Conn(q)] = IF link[Conn(q)] \in Alive THEN "broken" ELSE link[Conn(q)]
    BY ConnsOf
  <2>3. Committed(q)' <=> Committed(q)
    BY DEF Committed
  <2>4. UNCHANGED <<request, queued, topic, lost>>
    OBVIOUS
  <2> HIDE DEF Shutdown, ShutdownSeenByAgent, service
  <2> QED BY <2>1, <2>2, <2>3, <2>4 DEF RequestInv
<1>8. ServiceTypeOK' /\ (posting \in 0..MaxRequests)'
  BY DEF Inv, TypeOK, ServiceTypeOK
<1> QED BY <1>1, <1>2, <1>3, <1>4, <1>5, <1>6, <1>7, <1>8 DEF Inv, TypeOK, AgentInv, PoolOK

\* The server accepts connections again.
LEMMA StartupKeeps ==
  ASSUME Inv, Startup, UNCHANGED <<agent, service, posting>>
  PROVE  Inv'
<1>1. UNCHANGED <<table, serial, writes, link>> /\ online' \in BOOLEAN
  BY DEF Startup
<1>2. DatabaseTypeOK' /\ AgentTypeOK' /\ ServiceTypeOK' /\ (posting \in 0..MaxRequests)'
  BY <1>1 DEF Inv, TypeOK, DatabaseTypeOK, AgentTypeOK, ServiceTypeOK, agent, service
<1>3. PoolOK' /\ ClosedHoldsNothing'
  BY <1>1 DEF Inv, TypeOK, PoolOK, CheckedOut, ClosedHoldsNothing
<1>4. Beside(AgentConns) /\ Beside(ServiceConns)
  BY <1>1 DEF Inv, AgentInv, PastInv, Beside
<1>5. AgentInv' /\ ServiceInv'
  BY <1>4, AgentFrame, ServiceFrame DEF Inv
<1> QED BY <1>2, <1>3, <1>5 DEF Inv, TypeOK, PoolOK

\* A crash ends the running requests and their transactions.
LEMMA CrashKeeps == ASSUME Inv, Crash PROVE ServiceKeeps
<1> USE DEF Crash
<1>1. DatabaseTypeOK'
  BY DEF Inv, TypeOK, DatabaseTypeOK, Links
<1>2. ServiceTypeOK'
  BY DEF Inv, TypeOK, ServiceTypeOK, Stages, Over
<1>3. ClosedHoldsNothing'
  BY DEF Inv, ClosedHoldsNothing
<1>4. ASSUME NEW q \in Requests PROVE RequestInv(q)'
  <2>1. RequestInv(q)
    BY DEF Inv, ServiceInv
  <2>2. link'[Conn(q)] = "closed" /\ writes'[Conn(q)] = {}
    BY ConnsOf
  <2>3. Committed(q)' <=> Committed(q)
    BY DEF Committed
  <2>4. /\ request'[q].id = request[q].id
        /\ request'[q].stage = IF Running(q) THEN "gone" ELSE request[q].stage
    OBVIOUS
  <2> QED BY <2>1, <2>2, <2>3, <2>4 DEF RequestInv, Running, Over, Answered
<1>5. Beside(AgentConns)
  BY ConnsApart DEF Inv, AgentInv, PastInv, Beside, AgentConns, ServiceConns, Blocks
<1> QED BY <1>1, <1>2, <1>3, <1>4, <1>5 DEF ServiceKeeps, ServiceInv

-----------------------------------------------------------------------------
(* The composition *)

\* A step of the agent alone.
LEMMA AgentSide ==
  ASSUME Inv, AgentKeeps, UNCHANGED <<service, posting>>
  PROVE  Inv'
<1>1. ServiceInv'
  BY ServiceFrame DEF Inv, AgentKeeps
<1>2. ServiceTypeOK' /\ (posting \in 0..MaxRequests)'
  BY DEF Inv, TypeOK, ServiceTypeOK, service
<1> QED BY <1>1, <1>2 DEF Inv, TypeOK, AgentKeeps, PoolOK

\* A step of the application, and of the scenario's HTTP client.
LEMMA ServiceSide ==
  ASSUME Inv, ServiceKeeps, UNCHANGED agent, posting' \in 0..MaxRequests
  PROVE  Inv'
<1>1. AgentInv'
  BY AgentFrame DEF Inv, ServiceKeeps
<1>2. AgentTypeOK'
  BY DEF Inv, TypeOK, AgentTypeOK, agent
<1>3. CheckedOut' = CheckedOut
  BY DEF ServiceKeeps, Beside, CheckedOut
<1> QED BY <1>1, <1>2, <1>3 DEF Inv, TypeOK, ServiceKeeps

\* A step that touches neither side.
LEMMA StutterKeeps == ASSUME Inv, UNCHANGED <<database, service>> PROVE ServiceKeeps
<1>1. Beside(AgentConns) /\ Beside(ServiceConns)
  BY DEF Inv, AgentInv, PastInv, Beside, database
<1>2. ServiceInv'
  BY <1>1, ServiceFrame DEF Inv
<1>3. DatabaseTypeOK' /\ ServiceTypeOK' /\ ClosedHoldsNothing'
  BY DEF Inv, TypeOK, DatabaseTypeOK, ServiceTypeOK, ClosedHoldsNothing, database, service
<1> QED BY <1>1, <1>2, <1>3 DEF ServiceKeeps

\* The invariant holds initially.
LEMMA InitInv == Init => Inv
<1> SUFFICES ASSUME Init PROVE Inv
  OBVIOUS
<1> USE DEF Init, DatabaseInit, AgentInit, ServiceInit
<1>1. DatabaseTypeOK
  BY DEF DatabaseTypeOK, Links
<1>2. AgentTypeOK
  <2>1. stmt \in Statements
    BY ConnsOf DEF NoStatement, Statements, Kinds
  <2>2. failure \in Failures
    BY DEF Failures
  <2>3. depth \in 0..MaxBlocks /\ idle \in {"empty", "fresh", "stale"} /\ session \in {"running", "over"}
    OBVIOUS
  <2>4. executed \subseteq Ids
    OBVIOUS
  <2>5. exposed \in BOOLEAN
    OBVIOUS
  <2> HIDE DEF Init, AgentInit
  <2> QED BY <2>1, <2>2, <2>3, <2>4, <2>5 DEF AgentTypeOK, Statements
<1>3. ServiceTypeOK /\ posting \in 0..MaxRequests
  BY DEF ServiceTypeOK, Stages
<1>4. PoolOK
  <2>1. CheckedOut = {}
    BY ConnsOf DEF CheckedOut
  <2> QED BY <2>1, FS_EmptySet DEF PoolOK
<1>5. ClosedHoldsNothing
  BY DEF ClosedHoldsNothing
<1>6. AgentInv
  BY ConnsOf DEF AgentInv, StatementInv, Connected, BlocksInv, SessionInv, PastInv,
     NoStatement
<1>7. ServiceInv
  BY ConnsOf DEF ServiceInv, RequestInv, Answered
<1> QED BY <1>1, <1>2, <1>3, <1>4, <1>5, <1>6, <1>7 DEF Inv, TypeOK, PoolOK

\* Every step keeps the invariant.
LEMMA NextInv == ASSUME Inv, [Next]_vars PROVE Inv'
<1>1. CASE DbStep
  <2>1. CASE Proceed
    BY <1>1, <2>1, AgentSide, WritesKeeps, CommitsKeeps, ReturnsKeeps, QueryReturnsKeeps,
       FallBackKeeps, RaisesKeeps, BlockWritesKeeps, BlockRefusedKeeps, BlockRaisesKeeps
       DEF DbStep, Proceed
  <2>2. CASE Choose
    BY <1>1, <2>2, AgentSide, QueryKeeps, ExecuteKeeps, QueryDfKeeps, BlockStatementKeeps,
       TimeoutKeeps, UnreachableKeeps, EnterBlockKeeps, ExitBlockKeeps, ExitBlockRaisesKeeps,
       DisposeKeeps DEF DbStep, Choose
  <2> QED BY <1>1, <2>1, <2>2 DEF DbStep
<1>2. ASSUME NEW q \in Requests, Post(q) \/ ParallelPost(q) PROVE Inv'
  <2>1. Receive(q) /\ UNCHANGED agent /\ posting' \in 0..MaxRequests
    BY <1>2 DEF Post, ParallelPost, Inv, TypeOK, Requests
  <2> QED BY <2>1, ReceiveKeeps, ServiceSide
<1>3. CASE PostAnswered \/ PostTimesOut
  <2>1. posting' \in 0..MaxRequests /\ UNCHANGED <<database, agent, service>>
    BY <1>3 DEF PostAnswered, PostTimesOut
  <2> QED BY <2>1, StutterKeeps, ServiceSide
<1>4. ASSUME NEW q \in Requests, ServiceStep(q) \/ KafkaStep(q) PROVE Inv'
  <2>1. (Handle(q) \/ Settle(q)) /\ UNCHANGED agent /\ posting' \in 0..MaxRequests
    BY <1>4 DEF ServiceStep, KafkaStep, Inv, TypeOK
  <2>2. ServiceKeeps
    BY <2>1, ConnectFailsKeeps, DrawIdKeeps, InsertKeeps, InsertRefusedKeeps, CommitOrderKeeps,
       DatabaseFailsKeeps, LeaveTransactionKeeps, FindNoProducerKeeps, KeepProducerKeeps,
       PublishKeeps, PublishRaisesKeeps, FlushEndsKeeps, DeliverKeeps, DropKeeps DEF Handle, Settle
  <2> QED BY <2>1, <2>2, ServiceSide
<1>5. CASE DatabaseGoesDown \/ DatabaseComesUp
  BY <1>5, ShutdownKeeps, StartupKeeps DEF DatabaseGoesDown, DatabaseComesUp
<1>6. CASE ServiceCrashes
  <2>1. Crash /\ UNCHANGED agent /\ posting' \in 0..MaxRequests
    BY <1>6 DEF ServiceCrashes, Inv, TypeOK
  <2> QED BY <2>1, CrashKeeps, ServiceSide
<1>7. CASE UNCHANGED vars
  <2>1. posting' \in 0..MaxRequests /\ UNCHANGED <<database, agent, service>>
    BY <1>7 DEF vars, Inv, TypeOK
  <2> QED BY <2>1, StutterKeeps, ServiceSide
<1> QED BY <1>1, <1>2, <1>3, <1>4, <1>5, <1>6, <1>7 DEF Next

\* Only the calls that raise or wait in vain end in a failure.
LEMMA OnlyCallsFail ==
  ASSUME [Next]_vars
  PROVE  /\ Fails("raised") => ConnectRaises \/ FallBack \/ StatementRaises
         /\ Fails("timeout") => PoolTimesOut \/ FallBack
<1>1. CASE Proceed
  BY <1>1 DEF Proceed, ExecuteWrites, ExecuteCommits, ExecuteReturns, QueryReturns,
     StatementRaises, BlockWrites, BlockRefused, BlockRaises, End, Fails, agent
<1>2. CASE Choose
  BY <1>2 DEF Choose, Execute, Query, QueryDf, BlockStatement, Begin, PoolTimesOut,
     ConnectRaises, EnterBlock, ExitBlock, ExitBlockRaises, Dispose, End, Fails
<1>3. CASE UNCHANGED failure
  BY <1>3 DEF Fails
<1>4. Proceed \/ Choose \/ UNCHANGED failure
  BY DEF Next, DbStep, Post, ParallelPost, PostAnswered, PostTimesOut, ServiceStep, KafkaStep,
     DatabaseGoesDown, ShutdownSeenByAgent, DatabaseComesUp, ServiceCrashes, vars, agent
<1> QED BY <1>1, <1>2, <1>3, <1>4

-----------------------------------------------------------------------------
(* Theorems *)

\* The inductive invariant holds in every reachable state.
THEOREM Invariance == Spec => []Inv
<1>1. Init => Inv
  BY InitInv
<1>2. Inv /\ [Next]_vars => Inv'
  BY NextInv
<1> QED BY <1>1, <1>2, PTL DEF Spec

\* Every variable has its type, and the agent never holds more connections than
\* its engine's pool has (_engine, one engine per data source).
THEOREM TypeCorrect == Spec => []TypeOK
<1>1. Inv => TypeOK
  BY DEF Inv
<1> QED BY <1>1, Invariance, PTL

\* rollback_after leaves no row, lock or connection behind, whatever the scenario,
\* the application and the database do, and none is left after the session.
THEOREM BlocksLeaveNothing == Spec => []NothingLeftBehind
<1>1. ASSUME Inv PROVE NothingLeftBehind
  <2>1. ~exposed /\ \A id \in Ids : table[id] \cap Blocks = {}
    BY <1>1 DEF Inv, AgentInv, PastInv
  <2>2. ASSUME NEW c \in AgentConns, c \in CheckedOut \/ writes[c] # {}
        PROVE  \/ \E i \in 1..depth : c = Block(i)
               \/ c = Own /\ stmt.kind \in Connected
    <3>1. CASE c = Own
      BY <1>1, <2>2, <3>1 DEF Inv, AgentInv, StatementInv, Connected, CheckedOut
    <3>2. ASSUME NEW i \in 1..MaxBlocks, c = Block(i) PROVE \E j \in 1..depth : c = Block(j)
      BY <1>1, <2>2, <3>2 DEF Inv, TypeOK, AgentTypeOK, AgentInv, BlocksInv, CheckedOut
    <3> QED BY <3>1, <3>2, ConnsOf
  <2>3. ASSUME session = "over" PROVE CheckedOut = {} /\ idle = "empty"
    <3>1. depth = 0 /\ stmt.kind = "none" /\ idle = "empty"
      BY <1>1, <2>3 DEF Inv, AgentInv, SessionInv
    <3>2. \A c \in AgentConns : c \notin CheckedOut
      BY <2>2, <3>1 DEF Connected
    <3> QED BY <3>1, <3>2 DEF CheckedOut
  <2> QED BY <2>1, <2>2, <2>3 DEF NothingLeftBehind, Connected
<1> QED BY <1>1, Invariance, PTL

\* A write that execute() reported, and an order answered with 201, are in the
\* table and stay there.
THEOREM ReportsAreCommitted == Spec => []ReportedMeansCommitted
<1>1. ASSUME Inv PROVE ReportedMeansCommitted
  <2>1. \A id \in executed : Own \in table[id]
    BY <1>1 DEF Inv, AgentInv, PastInv
  <2>2. ASSUME NEW q \in Requests, request[q].stage \in Answered
        PROVE  request[q].id \in ListOrders /\ Conn(q) \in GetOrder(request[q].id)
    <3>1. Committed(q)
      BY <1>1, <2>2 DEF Inv, ServiceInv, RequestInv
    <3>2. request[q].id \in Ids
      BY <1>1, <3>1 DEF Inv, TypeOK, ServiceTypeOK, Committed, Ids
    <3> QED BY <3>1, <3>2 DEF Committed, ListOrders, GetOrder
  <2> QED BY <2>1, <2>2 DEF ReportedMeansCommitted
<1> QED BY <1>1, Invariance, PTL

\* Every event is that of a committed order, and a 201 whose flush was in time
\* has its event in the topic unless Kafka gave it up.
THEOREM EventsAreTrue == Spec => []EventsMatchOrders
<1>1. ASSUME Inv PROVE EventsMatchOrders
  BY <1>1 DEF Inv, ServiceInv, RequestInv, EventsMatchOrders, At
<1> QED BY <1>1, Invariance, PTL

\* A call fails only because the server is down, was shut down during the call or
\* refuses this statement, and waits in vain for a connection only if open blocks
\* hold them all: no step of the application, and no call before, makes it fail.
THEOREM FailuresHaveCauses == Spec => FailsOnlyOnFault
<1>1. ASSUME Inv, [Next]_vars, Fails("raised")
      PROVE  \/ ~online \/ stmt.hurt
             \/ stmt.kind # "none" /\ Refused(Own, stmt.verb, stmt.id)
  <2>1. ConnectRaises \/ FallBack \/ StatementRaises
    BY <1>1, OnlyCallsFail
  <2>2. CASE ConnectRaises \/ FallBack
    BY <1>1, <2>2 DEF ConnectRaises, FallBack, Unreachable, End, Fails
  <2>3. CASE StatementRaises
    BY <1>1, <2>3 DEF StatementRaises, StatementRefused, ConnectionLost, Unwritten, Inv,
       AgentInv, StatementInv
  <2> QED BY <2>1, <2>2, <2>3
<1>2. ASSUME Inv, [Next]_vars, Fails("timeout") PROVE depth >= PoolMax
  <2>1. PoolTimesOut \/ FallBack
    BY <1>2, OnlyCallsFail
  <2>2. PoolFull /\ stmt.kind \notin Connected
    BY <1>2, <2>1 DEF PoolTimesOut, FallBack, Ready, End, Fails, Connected
  <2> QED BY <1>2, <2>2, FullPoolIsBlocks DEF Inv
<1>3. Inv /\ [Next]_vars =>
        [/\ Fails("raised") => \/ ~online \/ stmt.hurt
                               \/ stmt.kind # "none" /\ Refused(Own, stmt.verb, stmt.id)
         /\ Fails("timeout") => depth >= PoolMax]_vars
  BY <1>1, <1>2
<1> QED BY <1>3, Invariance, PTL DEF Spec, FailsOnlyOnFault
=============================================================================
