---------------------------- MODULE TopicReader ----------------------------
(***************************************************************************)
(* What the author of a test may assume of a read from a topic, whatever   *)
(* the broker and the other tests do.  A reader looks for a wanted value,  *)
(* or for anything ("none").  It gets messages of the topic, from the      *)
(* beginning without a gap if it says so, and returns the first wanted one *)
(* that it gets; it gives up only if it got none.  Readers share nothing.  *)
(***************************************************************************)
EXTENDS Naturals, Sequences

CONSTANTS Agents,      \* tests that read the topic, one read after the other each
          Partitions,
          Values,
          Poison       \* a message that no reader can take

VARIABLES topic,   \* topic[p]: messages of partition p, the first at offset 0
          reader   \* reader[a]: the last read of test a, under way or ended

vars == <<topic, reader>>

Idle == [state |-> "idle", wanted |-> "none", beginning |-> FALSE, got |-> {}, result |-> {}]

Reading(a) == reader[a].state = "reading"
ValueAt(p, k) == topic[p][k + 1]
Wants(a, v) == reader[a].wanted \in {"none", v}

Init ==
  /\ topic = [p \in Partitions |-> <<>>]
  /\ reader = [a \in Agents |-> Idle]

Extend(p, v) ==
  /\ topic' = [topic EXCEPT ![p] = Append(@, v)]
  /\ UNCHANGED reader

Open(a, wanted, beginning) ==
  /\ ~Reading(a)
  /\ reader' = [reader EXCEPT ![a] =
       [Idle EXCEPT !.state = "reading", !.wanted = wanted, !.beginning = beginning]]
  /\ UNCHANGED topic

\* The message at offset k of partition p is got for the first time.
Get(a, p, k) ==
  /\ Reading(a)
  /\ k \in 0..(Len(topic[p]) - 1) /\ ValueAt(p, k) # Poison
  /\ <<p, k>> \notin reader[a].got
  /\ reader[a].beginning => \A j \in 0..(k - 1) : <<p, j>> \in reader[a].got
  /\ reader' = [reader EXCEPT ![a] =
       [state |-> IF Wants(a, ValueAt(p, k)) THEN "returned" ELSE "reading",
        wanted |-> @.wanted, beginning |-> @.beginning, got |-> @.got \cup {<<p, k>>},
        result |-> IF Wants(a, ValueAt(p, k)) THEN {<<p, k>>} ELSE {}]]
  /\ UNCHANGED topic

\* Time is up.  One that wants anything returns what it got, which is nothing.
GiveUp(a) ==
  /\ Reading(a)
  /\ \A m \in reader[a].got : ~Wants(a, ValueAt(m[1], m[2]))
  /\ reader' = [reader EXCEPT ![a].state =
                  IF reader[a].wanted = "none" THEN "returned" ELSE "timeout"]
  /\ UNCHANGED topic

Raise(a) ==
  /\ Reading(a)
  /\ reader' = [reader EXCEPT ![a].state = "raised"]
  /\ UNCHANGED topic

Next ==
  \/ \E p \in Partitions, v \in Values \cup {Poison} : Extend(p, v)
  \/ \E a \in Agents, wanted \in Values \cup {"none"}, beginning \in BOOLEAN :
       Open(a, wanted, beginning)
  \/ \E a \in Agents, p \in Partitions : \E k \in 0..(Len(topic[p]) - 1) : Get(a, p, k)
  \/ \E a \in Agents : GiveUp(a)
  \/ \E a \in Agents : Raise(a)

Spec == Init /\ [][Next]_vars
=============================================================================
