------------------------------- MODULE Postgres -------------------------------
(***************************************************************************)
(* The orders table as its clients see it (external): transactions that    *)
(* read committed rows and lock the rows they write, statements that are   *)
(* refused, a serial id that no rollback gives back, and outages that lose *)
(* what is not committed and refuse connections until they are over.       *)
(***************************************************************************)
EXTENDS Naturals, FiniteSets

CONSTANTS MaxId,   \* bound: ids of orders
          Conns    \* connections, pairs of an owner and a number

ASSUME MaxIdAssumption == MaxId \in Nat

VARIABLES
  table,    \* table[id]: the connections whose write of the row was committed
  serial,   \* the last id drawn from the sequence
  writes,   \* writes[c]: rows the open transaction of c has written and so locks
  link,     \* link[c]: see Links
  online    \* the server accepts connections

database == <<table, serial, writes, link, online>>

Ids == 1..MaxId

\* A statement that is refused aborts its transaction: nothing but a rollback works
\* after that.  A shutdown breaks an open connection; the client that notices
\* invalidates it, which returns its place to the pool.
Alive == {"open", "aborted"}
Links == Alive \cup {"closed", "broken", "invalid"}

\* Statements: an INSERT with an explicit id, a write of a row that may be there,
\* SQL that the server cannot run, a SELECT.
Writing == {"insert", "upsert", "faulty"}
Reading == {"select", "faulty"}
Rows(verb) == IF verb = "faulty" THEN {0} ELSE Ids

DatabaseTypeOK ==
  /\ table \in [Ids -> SUBSET Conns]
  /\ serial \in 0..MaxId
  /\ writes \in [Conns -> SUBSET Ids]
  /\ link \in [Conns -> Links]
  /\ online \in BOOLEAN

DatabaseInit ==
  /\ table = [id \in Ids |-> {}]
  /\ serial = 0
  /\ writes = [c \in Conns |-> {}]
  /\ link = [c \in Conns |-> "closed"]
  /\ online = TRUE

Exists(id) == table[id] # {}

\* A writer waits for the transaction that has written the row.
Unlocked(c, id) == \A d \in Conns \ {c} : id \notin writes[d]

\* Whether the server refuses the statement: an INSERT waits for the writer of
\* a row of its id before it finds the id taken.
Refused(c, verb, id) ==
  \/ verb = "faulty"
  \/ verb = "insert" /\ Unlocked(c, id) /\ (Exists(id) \/ id \in writes[c])

Write(c, id) ==
  /\ link[c] = "open" /\ Unlocked(c, id)
  /\ writes' = [writes EXCEPT ![c] = @ \cup {id}]

\* Read committed: c sees the committed row, or its own.
View(c, id) == table[id] \cup (IF id \in writes[c] THEN {c} ELSE {})

Commit(c) ==
  /\ link[c] = "open"
  /\ table' = [id \in Ids |-> IF id \in writes[c] THEN table[id] \cup {c} ELSE table[id]]
  /\ writes' = [writes EXCEPT ![c] = {}]

Rollback(c) == writes' = [writes EXCEPT ![c] = {}]

SetLink(c, s) == link' = [link EXCEPT ![c] = s]

Shutdown ==
  /\ online /\ online' = FALSE
  /\ writes' = [c \in Conns |-> {}]
  /\ link' = [c \in Conns |-> IF link[c] \in Alive THEN "broken" ELSE link[c]]
  /\ UNCHANGED <<table, serial>>

Startup ==
  /\ ~online /\ online' = TRUE
  /\ UNCHANGED <<table, serial, writes, link>>
=============================================================================
