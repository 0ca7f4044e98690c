------------------------------- MODULE MCPerfRun -------------------------------
(* Values of the constants of PerfRun for TLC: the tasks of                *)
(* tests/perf/locustfile.py, and one more that shares a name with another. *)
EXTENDS PerfRun

MCEndpoints ==
  <<[name |-> "orders", method |-> "GET"], [name |-> "orders", method |-> "POST"],
    [name |-> "health", method |-> "GET"]>>

MCSlos ==
  [endpoint : {{}, {"orders"}, {"health"}, {"typo"}}, ratio : {{}, {0}, {50}}, p95 : {{}, {1}}]
=============================================================================
