-------------------------- MODULE MCKafkaConsume --------------------------
(* Small instances of KafkaConsume for TLC. *)
EXTENDS KafkaConsume

Req(predicate, group, beginning, timeout) ==
  [predicate |-> predicate, group |-> group, beginning |-> beginning, timeout |-> timeout]

\* The default wait, one with a group the tests share, and a consume_all that
\* reads from the end.
MixedRequests == {
  Req("x", "fresh", TRUE, 1),
  Req("x", "given", TRUE, 1),
  Req("none", "given", FALSE, 1)}

DefaultWaits == {Req("x", "fresh", TRUE, 1)}
ConsumeAllOnly == {Req("none", "fresh", TRUE, 1)}
=============================================================================
