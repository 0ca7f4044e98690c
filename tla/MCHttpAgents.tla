--------------------------- MODULE MCHttpAgents ---------------------------
(* Small instances of HttpAgents for TLC. *)
EXTENDS HttpAgents

Rest(verb) == [api |-> "request", verb |-> verb, idempotent |-> "unset", check |-> FALSE]
GraphQL(api, verb, idempotent, check) ==
  [api |-> api, verb |-> verb, idempotent |-> idempotent, check |-> check]

\* One operation per path through request() and execute(), save the one that
\* ExecuteOps adds.
SafeOps == {
  Rest("GET"), Rest("PUT"),
  GraphQL("query", "query", "unset", TRUE),
  GraphQL("mutate", "mutation", "unset", TRUE),
  GraphQL("mutate", "mutation", "yes", FALSE),
  GraphQL("execute", "mutation", "no", FALSE)}

\* execute() called with a mutation and no keyword.
ExecuteOps == SafeOps \cup {GraphQL("execute", "mutation", "unset", TRUE)}
=============================================================================
