------------------------- MODULE KafkaConsumeProofs -------------------------
(***************************************************************************)
(* Safety of KafkaConsume for any number of parallel tests, partitions,    *)
(* calls, messages and rebalances.  What a call has seen and what its      *)
(* consumer reads next belong together only while the consumer is the one  *)
(* of the running call, so most of the invariant tells consumers apart.    *)
(***************************************************************************)
EXTENDS KafkaConsume, TLAPS

CallRecord == [state : {"polling"} \cup Outcomes, n : 1..MaxCalls, req : Requests,
               left : Nat, seen : Seq(Delivered)]

\* log and call are functions, whose values are sequences and records.
Shapes ==
  /\ log \in [Partitions -> Seq(Values \cup {Poison})]
  /\ call \in [Agents -> {NoCall} \cup CallRecord]

\* A consumer is that of the last call of its agent or of an earlier one, and is
\* in the group of that call or in the one the tests share.
MembersInv ==
  /\ \A c \in consumers :
       /\ c.n <= call[c.agent].n
       /\ c.n = call[c.agent].n => c = Consumer(c.agent)
       /\ c.group = <<"given", 0>> \/ c.group = <<c.agent, c.n>>
  /\ \A a \in Agents : Polling(a) => Consumer(a) \in consumers

\* A group whose members have not changed since it was dealt out reads every
\* partition.
DealtOut ==
  \A g \in Groups \ stale : \A p \in Partitions :
    \E f \in fetch : f.consumer.group = g /\ f.partition = p

\* The inductive invariant.
Inv ==
  /\ TypeOK /\ Shapes /\ MembersInv /\ DealtOut
  /\ SeesAllBeforePosition /\ OutcomeMatchesSeen

USE RequestsAssumption, ValuesAssumption, AgentsAssumption, BoundsAssumption

-----------------------------------------------------------------------------
(* Calls and consumers *)

\* The consumer of call n of agent a.
LEMMA ConsumerFacts ==
  ASSUME NEW a \in Agents, NEW n \in 1..MaxCalls, NEW req \in Requests
  PROVE  /\ ConsumerOf(a, n, req) \in ConsumerType
         /\ ConsumerOf(a, n, req).agent = a
         /\ ConsumerOf(a, n, req).n = n
         /\ ConsumerOf(a, n, req).beginning = req.beginning
         /\ ConsumerOf(a, n, req).group = GroupOf(a, n, req)
         /\ GroupOf(a, n, req) = <<"given", 0>> \/ GroupOf(a, n, req) = <<a, n>>
<1>1. GroupOf(a, n, req) = <<"given", 0>> \/ GroupOf(a, n, req) = <<a, n>>
  BY DEF GroupOf
<1>2. GroupOf(a, n, req) \in (Agents \cup {"given"}) \X (0..MaxCalls)
  BY <1>1
<1>3. req.beginning \in BOOLEAN
  BY DEF Request
<1> QED BY <1>1, <1>2, <1>3 DEF ConsumerOf, ConsumerType

\* A call under way is a complete record.
LEMMA PollingCall ==
  ASSUME Shapes, NEW a \in Agents, Polling(a)
  PROVE  call[a] \in CallRecord
BY DEF Shapes, Polling, NoCall

\* The numbers of calls are natural.
LEMMA CallNumber ==
  ASSUME Shapes, NEW a \in Agents
  PROVE  call[a].n \in 0..MaxCalls
BY DEF Shapes, NoCall, CallRecord

\* Adding a message to those seen.
LEMMA SeenAppend ==
  ASSUME NEW S, NEW s \in Seq(S), NEW x \in S
  PROVE  /\ Append(s, x) \in Seq(S) /\ Len(Append(s, x)) = Len(s) + 1
         /\ DOMAIN Append(s, x) = 1..(Len(s) + 1) /\ DOMAIN s = 1..Len(s)
         /\ Len(s) \in Nat
         /\ \A i \in 1..Len(s) : Append(s, x)[i] = s[i]
         /\ Append(s, x)[Len(s) + 1] = x
OBVIOUS

-----------------------------------------------------------------------------
(* What a step changes *)

\* A step of the agent's own loop: its call goes on, its consumer stays.
Progress(a) ==
  /\ call'[a] \in CallRecord
  /\ call'[a].n = call[a].n /\ call'[a].req = call[a].req
  /\ call' = [call EXCEPT ![a] = call'[a]]
  /\ UNCHANGED <<log, consumers, stale, rebalances>>

\* Such a step keeps all that is not about messages seen.
LEMMA ProgressKeeps ==
  ASSUME Inv, NEW a \in Agents, Polling(a), Progress(a)
  PROVE  /\ \A b \in Agents \ {a} : call'[b] = call[b]
         /\ \A b \in Agents : Polling(b)' => Polling(b)
         /\ \A b \in Agents : Polling(b) => Consumer(b)' = Consumer(b)
         /\ Shapes' /\ MembersInv'
<1>1. call \in [Agents -> {NoCall} \cup CallRecord]
  BY DEF Inv, Shapes
<1>2. Shapes' /\ \A b \in Agents \ {a} : call'[b] = call[b]
  BY <1>1 DEF Inv, Shapes, Progress
<1>3. \A b \in Agents : Polling(b)' => Polling(b)
  BY <1>2 DEF Polling
<1>4. \A b \in Agents : Consumer(b)' = Consumer(b)
  BY <1>2 DEF Consumer, ConsumerOf, GroupOf, Progress
<1>5. consumers \subseteq ConsumerType
  BY DEF Inv, TypeOK
<1>6. \A c \in consumers : c.agent \in Agents /\ call'[c.agent].n = call[c.agent].n
  BY <1>2, <1>5 DEF ConsumerType, Progress
<1>7. MembersInv'
  BY <1>3, <1>4, <1>6 DEF Inv, MembersInv, Progress
<1> QED BY <1>2, <1>3, <1>4, <1>7

\* An empty poll, an error event or the deadline: nothing is seen, and the
\* call may end, though not by a return of a message.
LEMMA NothingSeenInv ==
  ASSUME Inv, NEW a \in Agents, Polling(a), Progress(a), fetch' = fetch,
         call'[a].seen = call[a].seen,
         call'[a].left \in 0..call[a].left,
         call'[a].state = "returned" => call[a].req.predicate = "none",
         call'[a].state = "timeout" => call'[a].left = 0
  PROVE  Inv'
<1>1. /\ \A b \in Agents \ {a} : call'[b] = call[b]
      /\ \A b \in Agents : Polling(b)' => Polling(b)
      /\ \A b \in Agents : Polling(b) => Consumer(b)' = Consumer(b)
      /\ Shapes' /\ MembersInv'
  BY ProgressKeeps
<1>2. call[a] \in CallRecord /\ call'[a] \in CallRecord
  BY PollingCall DEF Inv, Progress
<1>3. TypeOK'
  <2>1. \A b \in Agents :
          \/ call'[b] = NoCall
          \/ /\ call'[b].state \in {"polling"} \cup Outcomes
             /\ call'[b].n \in 1..MaxCalls
             /\ call'[b].req \in Requests
             /\ call'[b].left \in 0..call'[b].req.timeout
             /\ call'[b].seen \in Seq(Delivered)
    <3>1. call[a].left \in 0..call[a].req.timeout /\ call[a].req.timeout \in Nat
      BY <1>2 DEF Inv, TypeOK, NoCall, CallRecord, Request, Polling
    <3>2. call'[a].left \in 0..call'[a].req.timeout
      BY <3>1, <1>2 DEF Progress, CallRecord
    <3> QED BY <1>1, <1>2, <3>2 DEF Inv, TypeOK, CallRecord
  <2> QED BY <2>1 DEF Inv, TypeOK, Progress
<1>4. DealtOut'
  BY DEF Inv, DealtOut, Groups, Progress
<1>5. \A b \in Agents : Polling(b) => call'[b].seen = call[b].seen
  BY <1>1
<1>6. SeesAllBeforePosition'
  BY <1>1, <1>5 DEF Inv, SeesAllBeforePosition, SeenOffsets
<1>7. OutcomeMatchesSeen'
  <2>1. call[a].state = "polling" /\ call'[a].state \in {"polling", "returned", "timeout", "raised"}
    BY <1>2 DEF Polling, CallRecord, Outcomes
  <2> QED BY <1>1, <2>1 DEF Inv, OutcomeMatchesSeen, Progress
<1> QED BY <1>1, <1>3, <1>4, <1>6, <1>7 DEF Inv

\* The message at a position, and the position after it.
ValueAt(f) == log[f.partition][f.next + 1]
MessageAt(f) == [partition |-> f.partition, offset |-> f.next, value |-> ValueAt(f)]
Advanced(f) == [f EXCEPT !.next = @ + 1]

\* What a poll that returns something does: the message is seen, unless it is one no
\* call can take, which ends the call.
LEMMA PollFacts ==
  ASSUME Inv, NEW a \in Agents, NEW f \in fetch, Poll(a, f)
  PROVE  /\ call[a] \in CallRecord /\ Polling(a) /\ call[a].state = "polling"
         /\ f \in [consumer : consumers, partition : Partitions, next : 0..MaxLog]
         /\ f.consumer = Consumer(a) /\ f.next \in Nat /\ f.partition \in Partitions
         /\ f.next < Len(log[f.partition]) /\ log[f.partition] \in Seq(Values \cup {Poison})
         /\ Advanced(f) \in [consumer : consumers, partition : Partitions, next : 0..MaxLog]
         /\ Advanced(f).consumer = Consumer(a) /\ Advanced(f).partition = f.partition
         /\ Advanced(f).next = f.next + 1
         /\ fetch' = (fetch \ {f}) \cup {Advanced(f)}
         /\ ValueAt(f) # Poison => MessageAt(f) \in Delivered
         /\ call'[a] = IF ValueAt(f) = Poison THEN [call[a] EXCEPT !.state = "raised"]
                       ELSE Take(call[a], MessageAt(f))
         /\ call'[a] \in CallRecord /\ call'[a].n = call[a].n /\ call'[a].req = call[a].req
         /\ call'[a].left = call[a].left
         /\ call'[a].state \in {"polling", "returned", "raised"}
         /\ ValueAt(f) = Poison => call'[a].state = "raised"
         /\ call'[a].seen = IF ValueAt(f) = Poison THEN call[a].seen
                            ELSE Append(call[a].seen, MessageAt(f))
         /\ Progress(a)
<1> DEFINE v == log[f.partition][f.next + 1]
           m == [partition |-> f.partition, offset |-> f.next, value |-> v]
           next == [f EXCEPT !.next = @ + 1]
<1>1. call[a] \in CallRecord /\ Polling(a) /\ call[a].state = "polling"
  BY PollingCall DEF Inv, Poll, Polling
<1>2. /\ f \in [consumer : consumers, partition : Partitions, next : 0..MaxLog]
      /\ f.consumer = Consumer(a) /\ f.next \in Nat /\ f.partition \in Partitions
  BY DEF Inv, TypeOK, Poll
<1>3. /\ log[f.partition] \in Seq(Values \cup {Poison})
      /\ f.next < Len(log[f.partition]) /\ Len(log[f.partition]) <= MaxLog
      /\ f.next \in 0..(MaxLog - 1) /\ f.next + 1 \in 0..MaxLog
      /\ v \in Values \cup {Poison}
  BY <1>2 DEF Inv, TypeOK, Shapes, Poll
<1>4. /\ next \in [consumer : consumers, partition : Partitions, next : 0..MaxLog]
      /\ next.consumer = Consumer(a) /\ next.partition = f.partition /\ next.next = f.next + 1
      /\ fetch' = (fetch \ {f}) \cup {next}
  BY <1>2, <1>3 DEF Poll
<1>5. v # Poison => m \in Delivered
  BY <1>2, <1>3 DEF Delivered
<1>6. call' = [call EXCEPT ![a] = IF v = Poison THEN [@ EXCEPT !.state = "raised"] ELSE Take(@, m)]
  BY DEF Poll
<1>7. call'[a] = IF v = Poison THEN [call[a] EXCEPT !.state = "raised"] ELSE Take(call[a], m)
  BY <1>6 DEF Inv, Shapes
<1>8. /\ call'[a] \in CallRecord /\ call'[a].n = call[a].n /\ call'[a].req = call[a].req
      /\ call'[a].left = call[a].left
      /\ call'[a].state \in {"polling", "returned", "raised"}
      /\ v = Poison => call'[a].state = "raised"
      /\ call'[a].seen = IF v = Poison THEN call[a].seen ELSE Append(call[a].seen, m)
  <2>1. CASE v = Poison
    BY <1>1, <1>7, <2>1 DEF CallRecord, Outcomes
  <2>2. CASE v # Poison
    <3>1. Append(call[a].seen, m) \in Seq(Delivered)
      BY <1>1, <1>5, <2>2, SeenAppend DEF CallRecord
    <3> QED BY <1>1, <1>7, <2>2, <3>1 DEF CallRecord, Outcomes, Take
  <2> QED BY <2>1, <2>2
<1>9. Progress(a)
  BY <1>6, <1>8 DEF Inv, Shapes, Progress, Poll
<1> QED BY <1>1, <1>2, <1>3, <1>4, <1>5, <1>7, <1>8, <1>9 DEF ValueAt, MessageAt, Advanced

\* A message is taken from the log, at the position of the consumer.
LEMMA PollInv ==
  ASSUME Inv, NEW a \in Agents, NEW f \in fetch, Poll(a, f)
  PROVE  Inv'
<1> DEFINE v == ValueAt(f)
           m == MessageAt(f)
           next == Advanced(f)
<1>1. call[a] \in CallRecord /\ Polling(a) /\ call[a].state = "polling"
  BY PollFacts
<1>2. /\ f \in [consumer : consumers, partition : Partitions, next : 0..MaxLog]
      /\ f.consumer = Consumer(a) /\ f.next \in Nat /\ f.partition \in Partitions
  BY PollFacts
<1>3. m.partition = f.partition /\ m.offset = f.next /\ m.value = v
  BY DEF MessageAt
<1>4. /\ next \in [consumer : consumers, partition : Partitions, next : 0..MaxLog]
      /\ next.consumer = Consumer(a) /\ next.partition = f.partition /\ next.next = f.next + 1
      /\ fetch' = (fetch \ {f}) \cup {next}
  BY PollFacts
<1>5. v # Poison => m \in Delivered
  BY PollFacts
<1>7. call'[a] = IF v = Poison THEN [call[a] EXCEPT !.state = "raised"] ELSE Take(call[a], m)
  BY PollFacts
<1>8. /\ call'[a] \in CallRecord /\ call'[a].n = call[a].n /\ call'[a].req = call[a].req
      /\ call'[a].left = call[a].left
      /\ call'[a].state \in {"polling", "returned", "raised"}
      /\ v = Poison => call'[a].state = "raised"
      /\ call'[a].seen = IF v = Poison THEN call[a].seen ELSE Append(call[a].seen, m)
  BY PollFacts
<1>9. Progress(a)
  BY PollFacts
<1> HIDE DEF v, m, next
<1>10. /\ \A b \in Agents \ {a} : call'[b] = call[b]
       /\ \A b \in Agents : Polling(b)' => Polling(b)
       /\ \A b \in Agents : Polling(b) => Consumer(b)' = Consumer(b)
       /\ Shapes' /\ MembersInv'
  BY <1>1, <1>9, ProgressKeeps
<1>11. TypeOK'
  <2>1. call[a].left \in 0..call[a].req.timeout
    BY <1>1 DEF Inv, TypeOK, NoCall
  <2>2. \A b \in Agents :
          \/ call'[b] = NoCall
          \/ /\ call'[b].state \in {"polling"} \cup Outcomes
             /\ call'[b].n \in 1..MaxCalls
             /\ call'[b].req \in Requests
             /\ call'[b].left \in 0..call'[b].req.timeout
             /\ call'[b].seen \in Seq(Delivered)
    BY <1>8, <1>10, <2>1 DEF Inv, TypeOK, CallRecord
  <2>3. fetch' \subseteq [consumer : consumers, partition : Partitions, next : 0..MaxLog]
    BY <1>4 DEF Inv, TypeOK
  <2>4. \A g, h \in fetch' :
          g.partition = h.partition /\ g.consumer.group = h.consumer.group => g = h
    BY <1>2, <1>4 DEF Inv, TypeOK
  <2> QED BY <1>9, <2>2, <2>3, <2>4 DEF Inv, TypeOK, Progress
<1>12. DealtOut'
  <2> SUFFICES ASSUME NEW g \in Groups \ stale, NEW p \in Partitions
               PROVE  \E h \in fetch' : h.consumer.group = g /\ h.partition = p
    BY <1>9 DEF DealtOut, Groups, Progress
  <2>1. PICK h \in fetch : h.consumer.group = g /\ h.partition = p
    BY DEF Inv, DealtOut
  <2> QED BY <1>2, <1>4, <2>1
<1>13. SeesAllBeforePosition'
  <2> SUFFICES ASSUME NEW b \in Agents, NEW g \in fetch', Polling(b)',
                      g.consumer = Consumer(b)', g.consumer.beginning,
                      NEW k \in 0..(g.next - 1)
               PROVE  k \in SeenOffsets(b, g.partition)'
    BY DEF SeesAllBeforePosition
  <2>1. Polling(b) /\ g.consumer = Consumer(b)
    BY <1>10
  <2>2. CASE b # a
    <3>1. g \in fetch
      <4>1. Consumer(b).agent = b /\ Consumer(a).agent = a
        BY DEF Consumer, ConsumerOf
      <4> QED BY <1>4, <2>1, <2>2, <4>1
    <3>2. k \in SeenOffsets(b, g.partition)
      BY <2>1, <3>1 DEF Inv, SeesAllBeforePosition
    <3> QED BY <1>10, <2>2, <3>2 DEF SeenOffsets
  <2>3. CASE b = a
    <3>1. v # Poison /\ call'[a].seen = Append(call[a].seen, m)
      BY <1>8, <2>3 DEF Polling
    <3> DEFINE s == call[a].seen
    <3>2. s \in Seq(Delivered) /\ m \in Delivered
      BY <1>1, <1>5, <3>1 DEF CallRecord
    <3>3. /\ DOMAIN Append(s, m) = 1..(Len(s) + 1) /\ DOMAIN s = 1..Len(s) /\ Len(s) \in Nat
          /\ \A i \in 1..Len(s) : Append(s, m)[i] = s[i]
          /\ Append(s, m)[Len(s) + 1] = m
      BY <3>2, SeenAppend
    <3>4. SeenOffsets(a, g.partition) \subseteq SeenOffsets(a, g.partition)'
      BY <3>1, <3>3 DEF SeenOffsets
    <3>5. CASE g \in fetch
      BY <2>1, <2>3, <3>4, <3>5 DEF Inv, SeesAllBeforePosition
    <3>6. CASE g = next
      <4>1. CASE k = f.next
        <5> DEFINE last == Len(s) + 1
        <5>1. /\ call'[a].seen[last].partition = g.partition
              /\ call'[a].seen[last].offset = k
              /\ last \in DOMAIN call'[a].seen
          BY <1>3, <1>4, <3>1, <3>3, <3>6, <4>1
        <5> HIDE DEF last
        <5> QED BY <2>3, <5>1 DEF SeenOffsets
      <4>2. CASE k # f.next
        <5>1. k \in 0..(f.next - 1)
          BY <1>2, <1>4, <3>6, <4>2
        <5>2. k \in SeenOffsets(a, f.partition)
          BY <1>1, <1>2, <1>4, <3>6, <5>1 DEF Inv, SeesAllBeforePosition
        <5> QED BY <1>4, <2>3, <3>4, <3>6, <5>2
      <4> QED BY <4>1, <4>2
    <3> QED BY <1>4, <3>5, <3>6
  <2> QED BY <2>2, <2>3
<1>14. OutcomeMatchesSeen'
  <2>1. ASSUME call[a].req.predicate # "none"
        PROVE  LET hits == {i \in DOMAIN call'[a].seen :
                              call'[a].seen[i].value = call[a].req.predicate} IN
               /\ call'[a].state = "returned" => hits = {Len(call'[a].seen)}
               /\ call'[a].state = "polling" => hits = {}
    <3> DEFINE s == call[a].seen
    <3>1. \A i \in DOMAIN s : s[i].value # call[a].req.predicate
      BY <1>1, <2>1 DEF Inv, OutcomeMatchesSeen
    <3>2. CASE v = Poison
      BY <1>8, <3>2
    <3>3. CASE v # Poison
      <4>1. /\ DOMAIN Append(s, m) = 1..(Len(s) + 1) /\ DOMAIN s = 1..Len(s) /\ Len(s) \in Nat
            /\ Len(Append(s, m)) = Len(s) + 1
            /\ \A i \in 1..Len(s) : Append(s, m)[i] = s[i]
            /\ Append(s, m)[Len(s) + 1] = m
        BY <1>1, <1>5, <3>3, SeenAppend DEF CallRecord
      <4>2. /\ call'[a].seen = Append(s, m)
            /\ call'[a].state = IF v = call[a].req.predicate THEN "returned" ELSE "polling"
        BY <1>1, <1>3, <1>7, <2>1, <3>3 DEF Take, Accepts, CallRecord
      <4>3. \A i \in DOMAIN Append(s, m) :
              Append(s, m)[i].value = call[a].req.predicate
                <=> i = Len(s) + 1 /\ v = call[a].req.predicate
        BY <1>3, <3>1, <4>1
      <4> QED BY <4>1, <4>2, <4>3
    <3> QED BY <3>2, <3>3
  <2> DEFINE Agrees(c) ==
        c.state # "none" /\ c.req.predicate # "none" =>
          LET hits == {i \in DOMAIN c.seen : c.seen[i].value = c.req.predicate} IN
          /\ c.state = "returned" => hits = {Len(c.seen)}
          /\ c.state \in {"polling", "timeout"} => hits = {}
          /\ c.state = "timeout" => c.left = 0
  <2>2. Agrees(call'[a])
    BY <1>8, <2>1
  <2>3. \A b \in Agents \ {a} : Agrees(call'[b])
    BY <1>10 DEF Inv, OutcomeMatchesSeen
  <2>4. \A b \in Agents : Agrees(call'[b])
    BY <2>2, <2>3
  <2> QED BY <2>4 DEF OutcomeMatchesSeen
<1> QED BY <1>10, <1>11, <1>12, <1>13, <1>14 DEF Inv
-----------------------------------------------------------------------------
(* The other steps *)

\* A new consumer joins its group; nothing has been read with it.
LEMMA BeginInv ==
  ASSUME Inv, NEW a \in Agents, NEW req \in Requests, Begin(a, req)
  PROVE  Inv'
<1> DEFINE n == call[a].n + 1
           new == ConsumerOf(a, n, req)
<1>1. n \in 1..MaxCalls
  BY CallNumber DEF Inv, Begin
<1>2. /\ new \in ConsumerType /\ new.agent = a /\ new.n = n /\ new.group = GroupOf(a, n, req)
      /\ new.group = <<"given", 0>> \/ new.group = <<a, n>>
  BY <1>1, ConsumerFacts
<1>3. /\ call'[a] = [state |-> "polling", n |-> n, req |-> req, left |-> req.timeout, seen |-> <<>>]
      /\ \A b \in Agents \ {a} : call'[b] = call[b]
      /\ call' = [call EXCEPT ![a] = call'[a]]
  BY DEF Inv, Shapes, Begin
<1>4. req.timeout \in Nat
  BY DEF Request
<1>5. call'[a] \in CallRecord
  BY <1>1, <1>3, <1>4 DEF CallRecord
<1>6. Shapes'
  BY <1>3, <1>5 DEF Inv, Shapes, Begin
<1>7. consumers' = consumers \cup {new} /\ stale' = stale \cup {new.group} /\ fetch' = fetch
      /\ UNCHANGED <<log, rebalances>>
  BY <1>2 DEF Begin
<1>8. Consumer(a)' = new /\ \A b \in Agents \ {a} : Consumer(b)' = Consumer(b)
  BY <1>3 DEF Consumer, ConsumerOf, GroupOf
<1>9. \A c \in consumers : c.agent \in Agents /\ (c.agent = a => c.n < n)
  <2>1. consumers \subseteq ConsumerType
    BY DEF Inv, TypeOK
  <2>2. \A c \in consumers : c.n <= call[c.agent].n /\ c.n \in Nat
    BY <2>1 DEF Inv, MembersInv, ConsumerType
  <2>3. call[a].n \in Nat
    BY CallNumber DEF Inv
  <2> QED BY <1>1, <2>1, <2>2, <2>3 DEF ConsumerType
<1>10. TypeOK'
  <2>1. call'[a].left \in 0..call'[a].req.timeout
    BY <1>3, <1>4
  <2>2. \A b \in Agents :
          \/ call'[b] = NoCall
          \/ /\ call'[b].state \in {"polling"} \cup Outcomes
             /\ call'[b].n \in 1..MaxCalls
             /\ call'[b].req \in Requests
             /\ call'[b].left \in 0..call'[b].req.timeout
             /\ call'[b].seen \in Seq(Delivered)
    BY <1>3, <1>5, <2>1 DEF Inv, TypeOK, CallRecord
  <2>3. fetch \subseteq [consumer : consumers', partition : Partitions, next : 0..MaxLog]
    BY <1>7 DEF Inv, TypeOK
  <2> QED BY <1>2, <1>7, <2>2, <2>3 DEF Inv, TypeOK
<1>11. MembersInv'
  <2>1. ASSUME NEW c \in consumers
        PROVE  /\ c.n <= call'[c.agent].n
               /\ c.n = call'[c.agent].n => c = Consumer(c.agent)'
    <3>1. c.n \in Nat /\ c.n <= call[c.agent].n
      BY DEF Inv, TypeOK, MembersInv, ConsumerType
    <3> QED BY <1>1, <1>3, <1>8, <1>9, <3>1 DEF Inv, MembersInv
  <2>2. \A b \in Agents : Polling(b)' => Consumer(b)' \in consumers'
    BY <1>3, <1>7, <1>8 DEF Inv, MembersInv, Polling
  <2> QED BY <1>1, <1>2, <1>3, <1>7, <1>8, <2>1, <2>2 DEF Inv, MembersInv
<1>12. DealtOut'
  BY <1>7 DEF Inv, DealtOut, Groups
<1>13. SeesAllBeforePosition'
  <2>1. \A f \in fetch : f.consumer # new
    <3>1. \A f \in fetch : f.consumer \in consumers
      BY DEF Inv, TypeOK
    <3>2. \A c \in consumers : c.agent = a => c.n \in Nat /\ c.n < n
      BY <1>9 DEF Inv, TypeOK, ConsumerType
    <3> QED BY <1>1, <1>2, <3>1, <3>2
  <2> QED BY <1>3, <1>7, <1>8, <2>1 DEF Inv, SeesAllBeforePosition, Polling, SeenOffsets
<1>14. OutcomeMatchesSeen'
  BY <1>3 DEF Inv, OutcomeMatchesSeen
<1> QED BY <1>6, <1>10, <1>11, <1>12, <1>13, <1>14 DEF Inv

\* The consumers of an agent leave; the groups they were in are dealt out anew.
LEMMA CloseInv ==
  ASSUME Inv, NEW a \in Agents, Close(a)
  PROVE  Inv'
<1> DEFINE mine == {c \in consumers : c.agent = a}
<1>1. /\ consumers' = consumers \ mine /\ fetch' = {f \in fetch : f.consumer \notin mine}
      /\ stale' = (stale \cup {c.group : c \in mine}) \cap {c.group : c \in consumers \ mine}
      /\ UNCHANGED <<log, call, rebalances>> /\ ~Polling(a)
  BY DEF Close
<1>2. TypeOK'
  BY <1>1 DEF Inv, TypeOK
<1>3. \A b \in Agents : Consumer(b)' = Consumer(b) /\ (Polling(b)' <=> Polling(b))
  BY <1>1 DEF Consumer, Polling
<1>4. Shapes' /\ OutcomeMatchesSeen'
  BY <1>1 DEF Inv, Shapes, OutcomeMatchesSeen
<1>5. SeesAllBeforePosition'
  BY <1>1, <1>3 DEF Inv, SeesAllBeforePosition, SeenOffsets
<1>6. MembersInv'
  <2>1. \A b \in Agents : Consumer(b).agent = b
    BY DEF Consumer, ConsumerOf
  <2>2. \A c \in consumers : c.agent \in Agents
    BY DEF Inv, TypeOK, ConsumerType
  <2> QED BY <1>1, <1>3, <2>1, <2>2 DEF Inv, MembersInv
<1>7. DealtOut'
  <2> SUFFICES ASSUME NEW g \in Groups' \ stale', NEW p \in Partitions
               PROVE  \E f \in fetch' : f.consumer.group = g /\ f.partition = p
    BY <1>1 DEF DealtOut
  <2>1. g \in Groups \ stale /\ \A c \in mine : c.group # g
    BY <1>1 DEF Groups
  <2>2. PICK f \in fetch : f.consumer.group = g /\ f.partition = p
    BY <2>1 DEF Inv, DealtOut
  <2> QED BY <1>1, <2>1, <2>2
<1> QED BY <1>2, <1>4, <1>5, <1>6, <1>7 DEF Inv

\* A message is appended to a partition.
LEMMA ProduceInv ==
  ASSUME Inv, NEW p \in Partitions, NEW v \in Values \cup {Poison}, Produce(p, v)
  PROVE  Inv'
<1>1. log'[p] = Append(log[p], v) /\ \A q \in Partitions \ {p} : log'[q] = log[q]
  BY DEF Inv, Shapes, Produce
<1>2. log'[p] \in Seq(Values \cup {Poison}) /\ Len(log'[p]) <= MaxLog
  <2>1. log[p] \in Seq(Values \cup {Poison}) /\ Len(log[p]) < MaxLog
    BY DEF Inv, TypeOK, Produce
  <2> QED BY <1>1, <2>1, SeenAppend
<1>3. Shapes'
  BY <1>1, <1>2 DEF Inv, Shapes, Produce
<1>4. TypeOK'
  BY <1>1, <1>2 DEF Inv, TypeOK, Produce
<1> QED BY <1>3, <1>4 DEF Inv, MembersInv, DealtOut, SeesAllBeforePosition, OutcomeMatchesSeen,
           Produce, Polling, Consumer, SeenOffsets, Groups

\* A group is dealt out: each member that reads from the beginning starts there.
LEMMA AssignInv ==
  ASSUME Inv, NEW g \in Groups, Assign(g), rebalances' \in 0..MaxRebalances
  PROVE  Inv'
<1>1. PICK owner \in [Partitions -> Members(g)] :
        fetch' = {f \in fetch : f.consumer.group # g} \cup
                 {[consumer |-> owner[p], partition |-> p,
                   next |-> ResetPosition(owner[p], p)] : p \in Partitions}
  BY DEF Assign
<1> DEFINE dealt(p) == [consumer |-> owner[p], partition |-> p,
                        next |-> ResetPosition(owner[p], p)]
<1>2. \A p \in Partitions : owner[p] \in consumers /\ owner[p].group = g
  BY DEF Members
<1>3. \A p \in Partitions : ResetPosition(owner[p], p) \in 0..MaxLog
  <2>1. \A p \in Partitions : Len(log[p]) \in 0..MaxLog
    BY DEF Inv, TypeOK
  <2> QED BY <2>1 DEF ResetPosition
<1>4. \A f \in fetch' : \/ f \in fetch /\ f.consumer.group # g
                        \/ \E p \in Partitions : f = dealt(p)
  BY <1>1
<1>5. UNCHANGED <<log, call, consumers>> /\ stale' = stale \ {g}
  BY DEF Assign
<1>6. TypeOK'
  <2>1. fetch' \subseteq [consumer : consumers, partition : Partitions, next : 0..MaxLog]
    BY <1>2, <1>3, <1>4 DEF Inv, TypeOK
  <2>2. \A f, h \in fetch' :
          f.partition = h.partition /\ f.consumer.group = h.consumer.group => f = h
    BY <1>2, <1>4 DEF Inv, TypeOK
  <2> QED BY <1>5, <2>1, <2>2 DEF Inv, TypeOK
<1>7. Shapes' /\ MembersInv' /\ OutcomeMatchesSeen'
  BY <1>5 DEF Inv, Shapes, MembersInv, OutcomeMatchesSeen, Polling, Consumer
<1>8. DealtOut'
  <2> SUFFICES ASSUME NEW h \in Groups \ stale', NEW p \in Partitions
               PROVE  \E f \in fetch' : f.consumer.group = h /\ f.partition = p
    BY <1>5 DEF DealtOut, Groups
  <2>1. CASE h = g
    <3>1. dealt(p) \in fetch' /\ dealt(p).consumer.group = g /\ dealt(p).partition = p
      BY <1>1, <1>2
    <3> QED BY <2>1, <3>1
  <2>2. CASE h # g
    <3>1. PICK f \in fetch : f.consumer.group = h /\ f.partition = p
      BY <1>5, <2>2 DEF Inv, DealtOut
    <3> QED BY <1>1, <2>2, <3>1
  <2> QED BY <2>1, <2>2
<1>9. SeesAllBeforePosition'
  <2> SUFFICES ASSUME NEW a \in Agents, NEW f \in fetch', Polling(a),
                      f.consumer = Consumer(a), f.consumer.beginning
               PROVE  0..(f.next - 1) \subseteq SeenOffsets(a, f.partition)
    BY <1>5 DEF SeesAllBeforePosition, Polling, Consumer, SeenOffsets
  <2>1. CASE f \in fetch
    BY <2>1 DEF Inv, SeesAllBeforePosition
  <2>2. ASSUME NEW p \in Partitions, f = dealt(p) PROVE f.next = 0
    BY <2>2 DEF ResetPosition
  <2>3. f.next = 0 => 0..(f.next - 1) = {}
    OBVIOUS
  <2> QED BY <1>4, <2>1, <2>2, <2>3
<1> QED BY <1>6, <1>7, <1>8, <1>9 DEF Inv

-----------------------------------------------------------------------------
\* The invariant holds before the first call.
LEMMA InitInv == Init => Inv
<1> SUFFICES ASSUME Init PROVE Inv
  OBVIOUS
<1>1. Shapes
  BY DEF Init, Shapes
<1>2. TypeOK
  BY DEF Init, TypeOK
<1> QED BY <1>1, <1>2 DEF Inv, Init, MembersInv, DealtOut, SeesAllBeforePosition,
           OutcomeMatchesSeen, Polling, Groups, NoCall

\* Every step of an agent or of the broker keeps it.
LEMMA NextInv == Inv /\ [Next]_vars => Inv'
<1> SUFFICES ASSUME Inv, [Next]_vars PROVE Inv'
  OBVIOUS
<1>1. ASSUME NEW a \in Agents, NEW req \in Requests, Begin(a, req) PROVE Inv'
  BY <1>1, BeginInv
<1>2. ASSUME NEW a \in Agents, PollSomething(a) PROVE Inv'
  BY <1>2, PollInv DEF PollSomething
<1>3. ASSUME NEW a \in Agents, PollNothing(a) PROVE Inv'
  <2>1. call[a] \in CallRecord
    BY <1>3, PollingCall DEF Inv, PollNothing
  <2>2. call'[a] = [call[a] EXCEPT !.left = @ - 1] /\ call[a].left \in Nat \ {0}
    BY <1>3, <2>1 DEF Inv, Shapes, PollNothing, CallRecord
  <2>3. call'[a].left \in Nat /\ call'[a].left \in 0..call[a].left /\ call'[a] \in CallRecord
    BY <2>1, <2>2 DEF CallRecord
  <2>4. Progress(a)
    BY <1>3, <2>1, <2>2, <2>3 DEF Inv, Shapes, PollNothing, Progress, CallRecord
  <2> QED BY <1>3, <2>1, <2>2, <2>3, <2>4, NothingSeenInv DEF PollNothing, CallRecord, Polling
<1>4. ASSUME NEW a \in Agents, PollError(a) PROVE Inv'
  <2>1. call[a] \in CallRecord
    BY <1>4, PollingCall DEF Inv, PollError
  <2>2. call'[a] = [call[a] EXCEPT !.state = "raised"]
    BY <1>4, <2>1 DEF Inv, Shapes, PollError
  <2>3. Progress(a) /\ call'[a].left \in 0..call[a].left
    BY <1>4, <2>1, <2>2 DEF Inv, Shapes, PollError, Progress, CallRecord, Outcomes
  <2> QED BY <1>4, <2>1, <2>2, <2>3, NothingSeenInv DEF PollError, CallRecord
<1>5. ASSUME NEW a \in Agents, Deadline(a) PROVE Inv'
  <2> DEFINE end == IF call[a].req.predicate = "none" THEN "returned" ELSE "timeout"
  <2>1. call[a] \in CallRecord /\ call[a].left = 0
    BY <1>5, PollingCall DEF Inv, Deadline
  <2>2. call'[a] = [call[a] EXCEPT !.state = end]
    BY <1>5, <2>1 DEF Inv, Shapes, Deadline
  <2>3. Progress(a) /\ call'[a].left \in 0..call[a].left
    BY <1>5, <2>1, <2>2 DEF Inv, Shapes, Deadline, Progress, CallRecord, Outcomes
  <2> QED BY <1>5, <2>1, <2>2, <2>3, NothingSeenInv DEF Deadline, CallRecord
<1>6. ASSUME NEW a \in Agents, Close(a) PROVE Inv'
  BY <1>6, CloseInv
<1>7. ASSUME NEW p \in Partitions, NEW v \in Values \cup {Poison}, Produce(p, v) PROVE Inv'
  BY <1>7, ProduceInv
<1>8. ASSUME NEW g \in Groups, Join(g) PROVE Inv'
  BY <1>8, AssignInv DEF Join, Inv, TypeOK
<1>9. ASSUME NEW g \in Groups, Rebalance(g) PROVE Inv'
  <2>1. rebalances' \in 0..MaxRebalances
    BY <1>9 DEF Rebalance, Inv, TypeOK
  <2> QED BY <1>9, <2>1, AssignInv DEF Rebalance
<1>10. CASE UNCHANGED vars
  <2>1. TypeOK' /\ Shapes' /\ DealtOut'
    BY <1>10 DEF vars, Inv, TypeOK, Shapes, DealtOut, Groups
  <2>2. MembersInv' /\ SeesAllBeforePosition' /\ OutcomeMatchesSeen'
    BY <1>10 DEF vars, Inv, MembersInv, SeesAllBeforePosition, OutcomeMatchesSeen,
                 Polling, Consumer, SeenOffsets
  <2> QED BY <2>1, <2>2 DEF Inv
<1> QED BY <1>1, <1>2, <1>3, <1>4, <1>5, <1>6, <1>7, <1>8, <1>9, <1>10 DEF Next

\* Every reachable state satisfies the inductive invariant.
THEOREM Invariance == Spec => []Inv
  BY InitInv, NextInv, PTL DEF Spec

\* The types of logs, calls, consumers and positions, for any number of each; no
\* two members of a group read the same partition.
THEOREM TypeCorrect == Spec => []TypeOK
<1>1. Inv => TypeOK
  BY DEF Inv
<1> QED BY <1>1, Invariance, PTL

\* A call that reads from the beginning has seen everything before its position.
THEOREM NothingSkipped == Spec => []SeesAllBeforePosition
<1>1. Inv => SeesAllBeforePosition
  BY DEF Inv
<1> QED BY <1>1, Invariance, PTL

\* A call with a group of its own reads the whole topic, however many other
\* tests read it: the consumer is the only member of its group.
THEOREM ParallelTestsShareNothing == Spec => []ReadsWholeTopic
<1>1. Inv => ReadsWholeTopic
  <2> SUFFICES ASSUME Inv, NEW a \in Agents, Polling(a), call[a].req.group = "fresh",
                      Consumer(a).group \notin stale, NEW p \in Partitions
               PROVE  \E f \in fetch : f.consumer = Consumer(a) /\ f.partition = p
    BY DEF ReadsWholeTopic
  <2>1. Consumer(a) \in consumers /\ Consumer(a).group = <<a, call[a].n>>
    BY DEF Inv, MembersInv, Consumer, ConsumerOf, GroupOf
  <2>2. PICK f \in fetch : f.consumer.group = <<a, call[a].n>> /\ f.partition = p
    BY <2>1 DEF Inv, DealtOut, Groups
  <2>3. f.consumer \in consumers
    BY DEF Inv, TypeOK
  <2>4. f.consumer.agent = a /\ f.consumer.n = call[a].n
    BY <2>2, <2>3 DEF Inv, MembersInv
  <2>5. f.consumer = Consumer(a)
    BY <2>3, <2>4 DEF Inv, MembersInv
  <2> QED BY <2>2, <2>5
<1> QED BY <1>1, Invariance, PTL

-----------------------------------------------------------------------------
(* What was seen, and TopicReader *)

\* What a call has seen is what the topic holds there.
SeenTrue(a) ==
  \A i \in DOMAIN call[a].seen :
    LET m == call[a].seen[i] IN
    m.offset < Len(log[m.partition]) /\ log[m.partition][m.offset + 1] = m.value

\* A call from the beginning has seen all before each message it has seen, also
\* when it has ended.
Gapless(a) ==
  call[a].state # "none" /\ call[a].req.beginning =>
    \A i \in DOMAIN call[a].seen :
      0..call[a].seen[i].offset \subseteq SeenOffsets(a, call[a].seen[i].partition)

\* The first message ends a consume_all.
NothingYet(a) == Polling(a) /\ call[a].req.predicate = "none" => call[a].seen = <<>>

SeenInv == \A a \in Agents : SeenTrue(a) /\ Gapless(a) /\ NothingYet(a)

\* The messages of a call are a sequence.
LEMMA SeenTyped ==
  ASSUME Shapes, NEW a \in Agents
  PROVE  /\ call[a].seen \in Seq(Delivered) /\ DOMAIN call[a].seen = 1..Len(call[a].seen)
         /\ Len(call[a].seen) \in Nat
         /\ \A i \in DOMAIN call[a].seen :
              /\ call[a].seen[i].partition \in Partitions
              /\ call[a].seen[i].offset \in Nat /\ call[a].seen[i].value \in Values
<1>1. call[a].seen \in Seq(Delivered)
  <2>1. call[a] = NoCall \/ call[a] \in CallRecord
    BY DEF Shapes
  <2>2. CASE call[a] = NoCall
    <3>1. call[a].seen = <<>>
      BY <2>2 DEF NoCall
    <3> QED BY <3>1
  <2>3. CASE call[a] \in CallRecord
    BY <2>3 DEF CallRecord
  <2> QED BY <2>1, <2>2, <2>3
<1>2. \A i \in DOMAIN call[a].seen : call[a].seen[i] \in Delivered
  BY <1>1
<1>3. \A m \in Delivered : m.partition \in Partitions /\ m.offset \in Nat /\ m.value \in Values
  BY DEF Delivered
<1>4. DOMAIN call[a].seen = 1..Len(call[a].seen) /\ Len(call[a].seen) \in Nat
  BY <1>1
<1> QED BY <1>1, <1>2, <1>3, <1>4

\* A call that sees nothing new, over a topic that keeps what it has.
LEMMA SameSeen ==
  ASSUME Inv, SeenInv, NEW a \in Agents,
         \A p \in Partitions : /\ Len(log[p]) <= Len(log'[p]) /\ Len(log'[p]) \in Nat
                               /\ \A k \in 1..Len(log[p]) : log'[p][k] = log[p][k],
         call'[a].seen = call[a].seen,
         call'[a].state # "none" => call[a].state # "none" /\ call'[a].req = call[a].req,
         Polling(a)' => Polling(a)
  PROVE  SeenTrue(a)' /\ Gapless(a)' /\ NothingYet(a)'
<1>1. Gapless(a)' /\ NothingYet(a)'
  BY DEF SeenInv, Gapless, NothingYet, SeenOffsets, Polling
<1>2. SeenTrue(a)'
  <2> SUFFICES ASSUME NEW i \in DOMAIN call[a].seen
               PROVE  LET m == call[a].seen[i] IN
                      m.offset < Len(log'[m.partition]) /\ log'[m.partition][m.offset + 1] = m.value
    BY DEF SeenTrue
  <2> DEFINE m == call[a].seen[i]
  <2>1. m.offset < Len(log[m.partition]) /\ log[m.partition][m.offset + 1] = m.value
    BY DEF SeenInv, SeenTrue
  <2>2. m.partition \in Partitions /\ m.offset \in Nat
    BY SeenTyped DEF Inv
  <2>3. Len(log[m.partition]) \in Nat
    BY <2>2 DEF Inv, Shapes
  <2> HIDE DEF m
  <2>4. m.offset + 1 \in 1..Len(log[m.partition])
    BY <2>1, <2>2, <2>3
  <2>5. m.offset < Len(log'[m.partition])
    BY <2>1, <2>2, <2>3
  <2>6. log'[m.partition][m.offset + 1] = m.value
    BY <2>1, <2>2, <2>4
  <2> QED BY <2>5, <2>6 DEF m
<1> QED BY <1>1, <1>2

\* Calls of other agents, over a topic that does not change.
LEMMA OthersSeen ==
  ASSUME Inv, SeenInv, NEW a \in Agents, log' = log, call'[a] = call[a]
  PROVE  SeenTrue(a)' /\ Gapless(a)' /\ NothingYet(a)'
<1>1. \A p \in Partitions : Len(log[p]) \in Nat
  BY DEF Inv, Shapes
<1>2. \A p \in Partitions : /\ Len(log[p]) <= Len(log'[p]) /\ Len(log'[p]) \in Nat
                            /\ \A k \in 1..Len(log[p]) : log'[p][k] = log[p][k]
  BY <1>1
<1>3. Polling(a)' => Polling(a)
  BY DEF Polling
<1> QED BY <1>2, <1>3, SameSeen

\* A poll that sees a message: it is at the position, before which all has been seen
\* if the call reads from the beginning.
LEMMA PollSeen ==
  ASSUME Inv, SeenInv, NEW a \in Agents, NEW f \in fetch, Poll(a, f)
  PROVE  SeenInv'
<1> DEFINE v == ValueAt(f)
           m == MessageAt(f)
           s == call[a].seen
<1>1. /\ call[a] \in CallRecord /\ Polling(a) /\ call[a].state = "polling"
      /\ f.consumer = Consumer(a) /\ f.next \in Nat /\ f.partition \in Partitions
      /\ f.next < Len(log[f.partition])
      /\ v # Poison => m \in Delivered
      /\ call'[a] = IF v = Poison THEN [call[a] EXCEPT !.state = "raised"] ELSE Take(call[a], m)
      /\ call'[a].req = call[a].req
      /\ v = Poison => call'[a].state = "raised"
      /\ call'[a].seen = IF v = Poison THEN s ELSE Append(s, m)
      /\ Progress(a)
  BY PollFacts
<1>2. log' = log /\ \A b \in Agents \ {a} : call'[b] = call[b]
  BY <1>1, ProgressKeeps DEF Progress
<1>3. ASSUME NEW b \in Agents \ {a} PROVE SeenTrue(b)' /\ Gapless(b)' /\ NothingYet(b)'
  BY <1>2, OthersSeen
<1>4. CASE v = Poison
  <2>1. \A p \in Partitions : /\ Len(log[p]) <= Len(log'[p]) /\ Len(log'[p]) \in Nat
                              /\ \A k \in 1..Len(log[p]) : log'[p][k] = log[p][k]
    <3>1. \A p \in Partitions : Len(log[p]) \in Nat
      BY DEF Inv, Shapes
    <3> QED BY <1>2, <3>1
  <2>2. SeenTrue(a)' /\ Gapless(a)' /\ NothingYet(a)'
    BY <1>1, <1>4, <2>1, SameSeen DEF Polling
  <2> QED BY <1>3, <2>2 DEF SeenInv
<1>5. CASE v # Poison
  <2>1. s \in Seq(Delivered) /\ m \in Delivered
    BY <1>1, <1>5, SeenTyped DEF Inv
  <2>2. /\ call'[a].seen = Append(s, m) /\ DOMAIN s = 1..Len(s) /\ Len(s) \in Nat
        /\ DOMAIN call'[a].seen = 1..(Len(s) + 1)
        /\ \A i \in 1..Len(s) : call'[a].seen[i] = s[i]
        /\ call'[a].seen[Len(s) + 1] = m
    BY <1>1, <1>5, <2>1, SeenAppend
  <2>3. m.partition = f.partition /\ m.offset = f.next /\ m.value = log[f.partition][f.next + 1]
    BY DEF MessageAt, ValueAt
  <2>4. \A i \in DOMAIN call'[a].seen : i \in DOMAIN s \/ i = Len(s) + 1
    BY <2>2
  <2>5. SeenTrue(a)'
    <3> HIDE DEF m, v, s
    <3> QED BY <1>1, <1>2, <2>2, <2>3, <2>4 DEF SeenInv, SeenTrue, s
  <2>6. Gapless(a)'
    <3> SUFFICES ASSUME call[a].req.beginning, NEW i \in DOMAIN call'[a].seen,
                        NEW p, p = call'[a].seen[i].partition
                 PROVE  0..call'[a].seen[i].offset \subseteq SeenOffsets(a, p)'
      BY <1>1 DEF Gapless
    <3>1. \A q : SeenOffsets(a, q) \subseteq SeenOffsets(a, q)'
      BY <2>2 DEF SeenOffsets
    <3>2. CASE i \in DOMAIN s
      <4>1. 0..s[i].offset \subseteq SeenOffsets(a, s[i].partition) /\ call'[a].seen[i] = s[i]
        BY <1>1, <2>2, <3>2 DEF SeenInv, Gapless
      <4> QED BY <3>1, <4>1
    <3>3. CASE i = Len(s) + 1
      <4>1. f.consumer.beginning
        BY <1>1 DEF Consumer, ConsumerOf
      <4>2. 0..(f.next - 1) \subseteq SeenOffsets(a, f.partition)'
        BY <1>1, <3>1, <4>1 DEF Inv, SeesAllBeforePosition
      <4>3. f.next \in SeenOffsets(a, f.partition)'
        BY <2>2, <2>3 DEF SeenOffsets
      <4>4. 0..f.next = 0..(f.next - 1) \cup {f.next}
        BY <1>1
      <4>5. call'[a].seen[i].offset = f.next /\ call'[a].seen[i].partition = f.partition
        BY <2>2, <2>3, <3>3
      <4> QED BY <4>2, <4>3, <4>4, <4>5
    <3> QED BY <2>4, <3>2, <3>3
  <2>7. NothingYet(a)'
    <3>1. call'[a] = Take(call[a], m)
      BY <1>1, <1>5
    <3>2. call[a].req.predicate = "none" => call'[a].state = "returned"
      BY <1>1, <3>1 DEF Take, Accepts, CallRecord
    <3> QED BY <1>1, <3>2 DEF NothingYet, Polling
  <2> QED BY <1>3, <2>5, <2>6, <2>7 DEF SeenInv
<1> QED BY <1>4, <1>5

\* The other steps of an agent see nothing.
LEMMA QuietSeen ==
  ASSUME Inv, SeenInv, NEW a \in Agents, log' = log,
         \A b \in Agents \ {a} : call'[b] = call[b],
         \/ call'[a].seen = <<>>
         \/ /\ call'[a].seen = call[a].seen /\ call'[a].req = call[a].req
            /\ call[a].state # "none" /\ (Polling(a)' => Polling(a))
  PROVE  SeenInv'
<1>1. ASSUME NEW b \in Agents \ {a} PROVE SeenTrue(b)' /\ Gapless(b)' /\ NothingYet(b)'
  BY <1>1, OthersSeen
<1>2. CASE call'[a].seen = <<>>
  <2>1. SeenTrue(a)' /\ Gapless(a)' /\ NothingYet(a)'
    BY <1>2 DEF SeenTrue, Gapless, NothingYet
  <2> QED BY <1>1, <2>1 DEF SeenInv
<1>3. CASE /\ call'[a].seen = call[a].seen /\ call'[a].req = call[a].req
           /\ call[a].state # "none" /\ (Polling(a)' => Polling(a))
  <2>1. SeenTrue(a)' /\ Gapless(a)' /\ NothingYet(a)'
    <3>1. \A p \in Partitions : Len(log[p]) \in Nat
      BY DEF Inv, Shapes
    <3> QED BY <1>3, <3>1, SameSeen
  <2> QED BY <1>1, <2>1 DEF SeenInv
<1> QED BY <1>2, <1>3

\* A log that grows keeps what it has.
LEMMA ProduceSeen ==
  ASSUME Inv, SeenInv, NEW p \in Partitions, NEW v \in Values \cup {Poison}, Produce(p, v)
  PROVE  SeenInv'
<1>1. \A q \in Partitions : log[q] \in Seq(Values \cup {Poison}) /\ Len(log[q]) \in Nat
  BY DEF Inv, Shapes
<1>2. log' = [log EXCEPT ![p] = Append(@, v)] /\ call' = call
  BY DEF Produce
<1>3. /\ Len(Append(log[p], v)) = Len(log[p]) + 1
      /\ \A k \in 1..Len(log[p]) : Append(log[p], v)[k] = log[p][k]
  BY <1>1, SeenAppend
<1>4. \A q \in Partitions : log'[q] = IF q = p THEN Append(log[p], v) ELSE log[q]
  BY <1>2 DEF Inv, Shapes
<1>5. \A q \in Partitions : /\ Len(log[q]) <= Len(log'[q]) /\ Len(log'[q]) \in Nat
                            /\ \A k \in 1..Len(log[q]) : log'[q][k] = log[q][k]
  <2> SUFFICES ASSUME NEW q \in Partitions
               PROVE  /\ Len(log[q]) <= Len(log'[q]) /\ Len(log'[q]) \in Nat
                      /\ \A k \in 1..Len(log[q]) : log'[q][k] = log[q][k]
    OBVIOUS
  <2>1. Len(log[q]) <= Len(log[q]) + 1 /\ Len(log[q]) + 1 \in Nat /\ Len(log[q]) <= Len(log[q])
    BY <1>1
  <2> QED BY <1>1, <1>3, <1>4, <2>1
<1> QED BY <1>2, <1>5, SameSeen DEF SeenInv, Polling

\* Every step keeps it.
LEMMA NextSeen == Inv /\ SeenInv /\ [Next]_vars => SeenInv'
<1> SUFFICES ASSUME Inv, SeenInv, [Next]_vars PROVE SeenInv'
  OBVIOUS
<1>1. ASSUME NEW a \in Agents, NEW req \in Requests, Begin(a, req) PROVE SeenInv'
  BY <1>1, QuietSeen DEF Inv, Shapes, Begin
<1>2. ASSUME NEW a \in Agents, PollSomething(a) PROVE SeenInv'
  BY <1>2, PollSeen DEF PollSomething
<1>3. ASSUME NEW a \in Agents, PollNothing(a) \/ PollError(a) \/ Deadline(a) PROVE SeenInv'
  <2>1. Polling(a) /\ call[a] \in CallRecord /\ log' = log
    BY <1>3, PollingCall DEF Inv, PollNothing, PollError, Deadline
  <2>2. \/ call' = [call EXCEPT ![a].left = @ - 1]
        \/ call' = [call EXCEPT ![a].state = "raised"]
        \/ call' = [call EXCEPT ![a].state =
                      IF call[a].req.predicate = "none" THEN "returned" ELSE "timeout"]
    BY <1>3 DEF PollNothing, PollError, Deadline
  <2>3. /\ \A b \in Agents \ {a} : call'[b] = call[b]
        /\ call'[a].seen = call[a].seen /\ call'[a].req = call[a].req
    BY <2>1, <2>2 DEF Inv, Shapes, CallRecord
  <2> QED BY <2>1, <2>3, QuietSeen DEF Polling
<1>4. ASSUME log' = log, call' = call PROVE SeenInv'
  BY <1>4, OthersSeen DEF SeenInv
<1>5. ASSUME NEW a \in Agents, Close(a) PROVE SeenInv'
  BY <1>4, <1>5 DEF Close
<1>6. ASSUME NEW p \in Partitions, NEW v \in Values \cup {Poison}, Produce(p, v) PROVE SeenInv'
  BY <1>6, ProduceSeen
<1>7. ASSUME NEW g \in Groups, Join(g) \/ Rebalance(g) PROVE SeenInv'
  BY <1>4, <1>7 DEF Join, Rebalance, Assign
<1>8. CASE UNCHANGED vars
  BY <1>4, <1>8 DEF vars
<1> QED BY <1>1, <1>2, <1>3, <1>5, <1>6, <1>7, <1>8 DEF Next

\* What calls have seen is in the topic, and without a gap from the beginning.
LEMMA SeenInvariance == Spec => [](Inv /\ SeenInv)
<1>1. Init => SeenInv
  BY DEF Init, SeenInv, SeenTrue, Gapless, NothingYet, NoCall
<1> QED BY <1>1, InitInv, NextInv, NextSeen, PTL DEF Spec

\* The outcome of a call agrees with what it has seen and with the topic: a wait from
\* the beginning returns the first message of its partition that it is after, for any
\* number of tests, partitions, messages and rebalances.
THEOREM OutcomesAreRight == Spec => []OutcomeMatchesTopic
<1>1. Inv /\ SeenInv => FirstOfItsPartition
  <2> SUFFICES ASSUME Inv, SeenInv, NEW a \in Agents,
                      call[a].state = "returned", call[a].req.predicate # "none",
                      call[a].req.beginning,
                      NEW m, m = call[a].seen[Len(call[a].seen)]
               PROVE  /\ log[m.partition][m.offset + 1] = call[a].req.predicate
                      /\ \A k \in 1..m.offset :
                           log[m.partition][k] \notin {call[a].req.predicate, Poison}
    BY DEF FirstOfItsPartition
  <2> DEFINE s == call[a].seen
             n == Len(s)
  <2>1. {i \in DOMAIN s : s[i].value = call[a].req.predicate} = {n}
    BY DEF Inv, OutcomeMatchesSeen
  <2>2. n \in DOMAIN s /\ m = s[n] /\ m.value = call[a].req.predicate
    BY <2>1
  <2>3. m.offset \in Nat /\ m.partition \in Partitions
    BY <2>2, SeenTyped DEF Inv
  <2>4. log[m.partition][m.offset + 1] = m.value
    BY <2>2 DEF SeenInv, SeenTrue
  <2>5. ASSUME NEW k \in 1..m.offset
        PROVE  log[m.partition][k] \notin {call[a].req.predicate, Poison}
    <3>1. 0..m.offset \subseteq SeenOffsets(a, m.partition)
      BY <2>2 DEF SeenInv, Gapless
    <3>2. k - 1 \in 0..m.offset /\ k - 1 # m.offset /\ (k - 1) + 1 = k
      BY <2>3
    <3>3. PICK i \in DOMAIN s : s[i].partition = m.partition /\ s[i].offset = k - 1
      BY <3>1, <3>2 DEF SeenOffsets
    <3>4. log[m.partition][k] = s[i].value
      <4>1. log[s[i].partition][s[i].offset + 1] = s[i].value
        BY DEF SeenInv, SeenTrue
      <4> QED BY <3>2, <3>3, <4>1
    <3>5. s[i].value \in Values
      BY SeenTyped DEF Inv
    <3>6. i # n
      BY <2>2, <3>2, <3>3
    <3>7. s[i].value # call[a].req.predicate
      BY <2>1, <3>6
    <3> QED BY <3>4, <3>5, <3>7
  <2> QED BY <2>2, <2>4, <2>5
<1>2. Inv /\ SeenInv => OutcomeMatchesTopic
  BY <1>1 DEF Inv, OutcomeMatchesTopic
<1> QED BY <1>2, SeenInvariance, PTL

-----------------------------------------------------------------------------
(* The refinement *)

\* A message that is seen adds its place.
LEMMA PlacesAppend ==
  ASSUME NEW s \in Seq(Delivered), NEW m \in Delivered
  PROVE  PlacesOf(Append(s, m)) = PlacesOf(s) \cup {<<m.partition, m.offset>>}
<1> DEFINE t == Append(s, m)
<1>1. /\ DOMAIN t = 1..(Len(s) + 1) /\ DOMAIN s = 1..Len(s) /\ Len(s) \in Nat
      /\ \A i \in 1..Len(s) : t[i] = s[i]
      /\ t[Len(s) + 1] = m
  BY SeenAppend
<1>2. \A i \in DOMAIN t : i \in DOMAIN s \/ i = Len(s) + 1
  BY <1>1
<1>3. DOMAIN s \subseteq DOMAIN t /\ Len(s) + 1 \in DOMAIN t
  BY <1>1
<1> HIDE DEF t
<1>4. \A x : x \in PlacesOf(t) <=> x \in PlacesOf(s) \cup {<<m.partition, m.offset>>}
  BY <1>1, <1>2, <1>3 DEF PlacesOf
<1> QED BY <1>4 DEF t

\* The reader of a call under way.
LEMMA ReaderOfPolling ==
  ASSUME NEW a \in Agents, Polling(a)
  PROVE  /\ Reader(call[a]) = [state |-> "reading", wanted |-> call[a].req.predicate,
                               beginning |-> call[a].req.beginning,
                               got |-> PlacesOf(call[a].seen), result |-> {}]
         /\ Readers[a] = Reader(call[a]) /\ Abstract!Reading(a)
<1>1. Reader(call[a]) = [state |-> "reading", wanted |-> call[a].req.predicate,
                         beginning |-> call[a].req.beginning,
                         got |-> PlacesOf(call[a].seen), result |-> {}]
  BY DEF Reader, Handed, Polling
<1>2. Readers[a] = Reader(call[a])
  BY DEF Readers
<1> QED BY <1>1, <1>2 DEF Abstract!Reading

\* A step of one agent changes its reader only.
LEMMA ReadersChange ==
  ASSUME NEW a \in Agents, \A b \in Agents \ {a} : call'[b] = call[b]
  PROVE  Readers' = [Readers EXCEPT ![a] = Reader(call'[a])]
<1>1. Readers' = [b \in Agents |-> Reader(call'[b])]
  BY DEF Readers, Reader, Handed, PlacesOf
<1>2. \A b \in Agents \ {a} : Reader(call'[b]) = Reader(call[b])
  OBVIOUS
<1> QED BY <1>1, <1>2 DEF Readers

\* A new call opens a reader.
LEMMA BeginRefines ==
  ASSUME Inv, NEW a \in Agents, NEW req \in Requests, Begin(a, req)
  PROVE  Abstract!Open(a, req.predicate, req.beginning)
<1>1. /\ call'[a] = [state |-> "polling", n |-> call[a].n + 1, req |-> req,
                     left |-> req.timeout, seen |-> <<>>]
      /\ \A b \in Agents \ {a} : call'[b] = call[b]
      /\ ~Polling(a) /\ log' = log
  BY DEF Inv, Shapes, Begin
<1>2. Reader(call'[a]) = [state |-> "reading", wanted |-> req.predicate,
                          beginning |-> req.beginning, got |-> {}, result |-> {}]
  <2>1. PlacesOf(<<>>) = {}
    BY DEF PlacesOf
  <2>2. /\ call'[a].state = "polling" /\ call'[a].req = req
        /\ PlacesOf(call'[a].seen) = {} /\ Handed(call'[a]) = {}
    BY <1>1, <2>1 DEF Handed
  <2> QED BY <2>2 DEF Reader
<1>3. Readers' = [Readers EXCEPT ![a] = Reader(call'[a])]
  BY <1>1, ReadersChange
<1>4. ~Abstract!Reading(a)
  <2>1. call[a].state \in {"none", "polling", "returned", "timeout", "raised"}
    BY DEF Inv, TypeOK, NoCall, Outcomes
  <2> QED BY <1>1, <2>1 DEF Abstract!Reading, Readers, Reader, Polling
<1> QED BY <1>1, <1>2, <1>3, <1>4 DEF Abstract!Open, Abstract!Idle

\* An error event or a message no call can take is the abstract Raise.
LEMMA RaiseRefines ==
  ASSUME Inv, NEW a \in Agents, Polling(a), log' = log,
         \A b \in Agents \ {a} : call'[b] = call[b],
         call'[a] = [call[a] EXCEPT !.state = "raised"]
  PROVE  Abstract!Raise(a)
<1>1. call[a] \in CallRecord
  BY PollingCall DEF Inv
<1>2. Reader(call'[a]) = [state |-> "raised", wanted |-> call[a].req.predicate,
                          beginning |-> call[a].req.beginning,
                          got |-> PlacesOf(call[a].seen), result |-> {}]
  BY <1>1 DEF Reader, Handed, CallRecord
<1>3. Reader(call'[a]) = [Readers[a] EXCEPT !.state = "raised"]
  <2>1. Readers[a] = [state |-> "reading", wanted |-> call[a].req.predicate,
                      beginning |-> call[a].req.beginning,
                      got |-> PlacesOf(call[a].seen), result |-> {}]
    BY ReaderOfPolling
  <2> QED BY <1>2, <2>1
<1>4. Readers' = [Readers EXCEPT ![a].state = "raised"]
  BY <1>3, ReadersChange
<1> QED BY <1>4, ReaderOfPolling DEF Abstract!Raise

\* At the deadline the reader gives up, having got nothing that it wants.
LEMMA DeadlineRefines ==
  ASSUME Inv, SeenInv, NEW a \in Agents, Deadline(a)
  PROVE  Abstract!GiveUp(a)
<1> DEFINE c == call[a]
           end == IF c.req.predicate = "none" THEN "returned" ELSE "timeout"
<1>1. Polling(a) /\ c \in CallRecord
  BY PollingCall DEF Inv, Deadline
<1>2. /\ call'[a] = [c EXCEPT !.state = end] /\ log' = log
      /\ \A b \in Agents \ {a} : call'[b] = call[b]
  BY <1>1 DEF Inv, Shapes, Deadline
<1>3. c.req.predicate = "none" => c.seen = <<>>
  BY <1>1 DEF SeenInv, NothingYet
<1>4. PlacesOf(<<>>) = {}
  BY DEF PlacesOf
<1>5. Reader(call'[a]) = [state |-> end, wanted |-> c.req.predicate,
                          beginning |-> c.req.beginning, got |-> PlacesOf(c.seen), result |-> {}]
  <2>1. /\ call'[a].state = end /\ call'[a].seen = c.seen /\ call'[a].req = c.req
        /\ end \in {"returned", "timeout"} /\ (end = "returned" <=> c.req.predicate = "none")
    BY <1>1, <1>2 DEF CallRecord
  <2>2. Handed(call'[a]) = {}
    BY <1>3, <1>4, <2>1 DEF Handed
  <2> HIDE DEF end
  <2> QED BY <2>1, <2>2 DEF Reader
<1>6. Reader(call'[a]) = [Readers[a] EXCEPT !.state = end] /\ Readers[a].wanted = c.req.predicate
  <2>1. Readers[a] = [state |-> "reading", wanted |-> c.req.predicate,
                      beginning |-> c.req.beginning, got |-> PlacesOf(c.seen), result |-> {}]
    BY <1>1, ReaderOfPolling
  <2> HIDE DEF end
  <2> QED BY <1>5, <2>1
<1>7. Readers' = [Readers EXCEPT ![a].state = end]
  BY <1>2, <1>6, ReadersChange
<1>8. ASSUME NEW m \in Readers[a].got
      PROVE  ~Abstract!Wants(a, Abstract!ValueAt(m[1], m[2]))
  <2>1. PICK i \in DOMAIN c.seen : m = <<c.seen[i].partition, c.seen[i].offset>>
    <3>1. Readers[a].got = PlacesOf(c.seen)
      <4>1. Readers[a] = [state |-> "reading", wanted |-> c.req.predicate,
                          beginning |-> c.req.beginning, got |-> PlacesOf(c.seen), result |-> {}]
        BY <1>1, ReaderOfPolling
      <4> QED BY <4>1
    <3> QED BY <3>1 DEF PlacesOf
  <2>2. c.req.predicate # "none"
    BY <1>3, <2>1
  <2>3. c.seen[i].value # c.req.predicate
    BY <1>1, <2>2 DEF Inv, OutcomeMatchesSeen, Polling
  <2>4. Abstract!ValueAt(m[1], m[2]) = c.seen[i].value
    BY <2>1 DEF SeenInv, SeenTrue, Abstract!ValueAt
  <2> QED BY <1>6, <2>2, <2>3, <2>4 DEF Abstract!Wants
<1>9. Abstract!Reading(a) /\ Readers[a].wanted = c.req.predicate
  BY <1>1, <1>6, ReaderOfPolling
<1> QED BY <1>2, <1>7, <1>8, <1>9 DEF Abstract!GiveUp

\* A message polled for the first time is got; one polled again was not wanted then,
\* nor is it now.
LEMMA PollRefines ==
  ASSUME Inv, SeenInv, NEW a \in Agents, NEW f \in fetch, Poll(a, f), ValueAt(f) # Poison
  PROVE  \/ Abstract!Get(a, f.partition, f.next)
         \/ Readers' = Readers /\ log' = log
<1> DEFINE v == ValueAt(f)
           m == MessageAt(f)
           c == call[a]
           place == <<f.partition, f.next>>
<1>1. /\ c \in CallRecord /\ Polling(a) /\ c.state = "polling"
      /\ f.consumer = Consumer(a) /\ f.next \in Nat /\ f.partition \in Partitions
      /\ f.next < Len(log[f.partition]) /\ log[f.partition] \in Seq(Values \cup {Poison})
      /\ m \in Delivered /\ call'[a] = Take(c, m) /\ call'[a].req = c.req
      /\ call'[a].seen = Append(c.seen, m) /\ Progress(a)
  BY PollFacts
<1>2. log' = log /\ \A b \in Agents \ {a} : call'[b] = call[b]
  BY <1>1, ProgressKeeps DEF Progress
<1>3. m.partition = f.partition /\ m.offset = f.next /\ m.value = v
  BY DEF MessageAt
<1>4. c.seen \in Seq(Delivered) /\ Len(c.seen) \in Nat
  BY SeenTyped DEF Inv
<1>5. PlacesOf(call'[a].seen) = PlacesOf(c.seen) \cup {place}
  BY <1>1, <1>3, <1>4, PlacesAppend
<1>6. call'[a].state = IF Accepts(c.req, v) THEN "returned" ELSE "polling"
  BY <1>1, <1>3 DEF Take, CallRecord
<1>7. Readers[a] = [state |-> "reading", wanted |-> c.req.predicate,
                    beginning |-> c.req.beginning, got |-> PlacesOf(c.seen), result |-> {}]
  BY <1>1, ReaderOfPolling
<1>8. Readers' = [Readers EXCEPT ![a] = Reader(call'[a])]
  BY <1>2, ReadersChange
<1>9. Accepts(c.req, v) <=> Abstract!Wants(a, v)
  BY <1>7 DEF Accepts, Abstract!Wants
<1>10. CASE place \in PlacesOf(c.seen)
  <2>1. PICK i \in DOMAIN c.seen : place = <<c.seen[i].partition, c.seen[i].offset>>
    BY <1>10 DEF PlacesOf
  <2>2. c.seen[i].value = v
    BY <2>1 DEF SeenInv, SeenTrue, ValueAt
  <2>3. c.req.predicate # "none"
    BY <1>1, <2>1 DEF SeenInv, NothingYet
  <2>4. c.req.predicate # v
    BY <1>1, <2>2, <2>3 DEF Inv, OutcomeMatchesSeen
  <2>5. call'[a].state = "polling" /\ PlacesOf(call'[a].seen) = PlacesOf(c.seen)
    BY <1>5, <1>6, <1>10, <2>3, <2>4 DEF Accepts
  <2>6. Reader(call'[a]) = Readers[a]
    BY <1>1, <1>7, <2>5 DEF Reader, Handed
  <2>7. Readers' = Readers
    BY <1>8, <2>6 DEF Readers
  <2> QED BY <1>2, <2>7
<1>11. CASE place \notin PlacesOf(c.seen)
  <2>1. f.next \in 0..(Len(log[f.partition]) - 1)
    <3>1. Len(log[f.partition]) \in Nat
      BY <1>1
    <3> QED BY <1>1, <3>1
  <2>2. Abstract!ValueAt(f.partition, f.next) = v /\ v # Poison
    BY DEF Abstract!ValueAt, ValueAt
  <2>3. ASSUME c.req.beginning, NEW j \in 0..(f.next - 1)
        PROVE  <<f.partition, j>> \in PlacesOf(c.seen)
    <3>1. f.consumer.beginning
      BY <1>1, <2>3 DEF Consumer, ConsumerOf
    <3>2. j \in SeenOffsets(a, f.partition)
      BY <1>1, <3>1 DEF Inv, SeesAllBeforePosition
    <3> QED BY <3>2 DEF SeenOffsets, PlacesOf
  <2>6. /\ Abstract!Reading(a) /\ place \notin Readers[a].got
        /\ Readers[a].beginning => \A j \in 0..(f.next - 1) : <<f.partition, j>> \in Readers[a].got
    BY <1>1, <1>7, <1>11, <2>3 DEF Abstract!Reading
  <2>4. CASE Accepts(c.req, v)
    <3>1. Handed(call'[a]) = {place}
      <4>1. CASE c.req.predicate = "none"
        <5>1. PlacesOf(c.seen) = {}
          BY <1>1, <4>1 DEF SeenInv, NothingYet, PlacesOf
        <5> QED BY <1>1, <1>5, <1>6, <2>4, <4>1, <5>1 DEF Handed
      <4>2. CASE c.req.predicate # "none"
        <5> DEFINE t == call'[a].seen
        <5>1. t[Len(t)] = m
          BY <1>1, <1>4, SeenAppend
        <5>2. PlacesOf(<<m>>) = {place}
          BY <1>3 DEF PlacesOf
        <5> QED BY <1>1, <1>6, <2>4, <4>2, <5>1, <5>2 DEF Handed
      <4> QED BY <4>1, <4>2
    <3>2. Reader(call'[a]) =
            [state |-> "returned", wanted |-> c.req.predicate, beginning |-> c.req.beginning,
             got |-> PlacesOf(c.seen) \cup {place}, result |-> {place}]
      <4>1. call'[a].state = "returned"
        BY <1>6, <2>4
      <4> QED BY <1>1, <1>5, <3>1, <4>1 DEF Reader
    <3>3. Readers' = [Readers EXCEPT ![a] =
            [state |-> IF Abstract!Wants(a, v) THEN "returned" ELSE "reading",
             wanted |-> @.wanted, beginning |-> @.beginning, got |-> @.got \cup {place},
             result |-> IF Abstract!Wants(a, v) THEN {place} ELSE {}]]
      BY <1>7, <1>8, <1>9, <2>4, <3>2
    <3> QED BY <1>2, <2>1, <2>2, <2>6, <3>3 DEF Abstract!Get
  <2>5. CASE ~Accepts(c.req, v)
    <3>1. Reader(call'[a]) =
            [state |-> "reading", wanted |-> c.req.predicate, beginning |-> c.req.beginning,
             got |-> PlacesOf(c.seen) \cup {place}, result |-> {}]
      <4>1. call'[a].state = "polling"
        BY <1>6, <2>5
      <4> QED BY <1>1, <1>5, <4>1 DEF Reader, Handed
    <3>2. Readers' = [Readers EXCEPT ![a] =
            [state |-> IF Abstract!Wants(a, v) THEN "returned" ELSE "reading",
             wanted |-> @.wanted, beginning |-> @.beginning, got |-> @.got \cup {place},
             result |-> IF Abstract!Wants(a, v) THEN {place} ELSE {}]]
      <4>1. ~Abstract!Wants(a, v)
        BY <1>9, <2>5
      <4>2. /\ Readers[a].wanted = c.req.predicate /\ Readers[a].beginning = c.req.beginning
            /\ Readers[a].got = PlacesOf(c.seen)
        BY <1>7
      <4> HIDE DEF place, v, c
      <4> QED BY <1>8, <3>1, <4>1, <4>2
    <3> QED BY <1>2, <2>1, <2>2, <2>6, <3>2 DEF Abstract!Get
  <2> QED BY <2>4, <2>5
<1> QED BY <1>10, <1>11

\* Every step of the agents or the broker is one of a reader or the topic, or invisible.
LEMMA StepRefines ==
  Inv /\ SeenInv /\ [Next]_vars => [Abstract!Next]_(Abstract!vars)
<1> SUFFICES ASSUME Inv, SeenInv, [Next]_vars
             PROVE  Abstract!Next \/ Abstract!vars' = Abstract!vars
  OBVIOUS
<1>1. ASSUME NEW a \in Agents, NEW req \in Requests, Begin(a, req) PROVE Abstract!Next
  <2>1. req.predicate \in Values \cup {"none"} /\ req.beginning \in BOOLEAN
    BY DEF Request
  <2> QED BY <1>1, <2>1, BeginRefines DEF Abstract!Next
<1>2. ASSUME log' = log, call' = call PROVE Abstract!vars' = Abstract!vars
  BY <1>2 DEF Abstract!vars, Readers, Reader, Handed, PlacesOf
<1>3. ASSUME NEW a \in Agents, NEW f \in fetch, Poll(a, f)
      PROVE  Abstract!Next \/ Abstract!vars' = Abstract!vars
  <2>1. CASE ValueAt(f) = Poison
    <3>1. /\ Polling(a) /\ Progress(a)
          /\ call'[a] = [call[a] EXCEPT !.state = "raised"]
      BY <1>3, <2>1, PollFacts
    <3>2. log' = log /\ \A b \in Agents \ {a} : call'[b] = call[b]
      BY <3>1, ProgressKeeps DEF Progress
    <3> QED BY <3>1, <3>2, RaiseRefines DEF Abstract!Next
  <2>2. CASE ValueAt(f) # Poison
    <3>1. f.partition \in Partitions /\ f.next \in Nat /\ f.next < Len(log[f.partition])
      BY <1>3, PollFacts
    <3>2. f.next \in 0..(Len(log[f.partition]) - 1)
      <4>1. Len(log[f.partition]) \in Nat
        BY <3>1 DEF Inv, Shapes
      <4> QED BY <3>1, <4>1
    <3>3. CASE Abstract!Get(a, f.partition, f.next)
      BY <3>1, <3>2, <3>3 DEF Abstract!Next
    <3> QED BY <1>3, <2>2, <3>3, PollRefines DEF Abstract!vars
  <2> QED BY <2>1, <2>2
<1>4. ASSUME NEW a \in Agents, PollNothing(a) PROVE Abstract!vars' = Abstract!vars
  <2>1. Polling(a) /\ call[a] \in CallRecord /\ log' = log
    BY <1>4, PollingCall DEF Inv, PollNothing
  <2>2. /\ call'[a] = [call[a] EXCEPT !.left = @ - 1]
        /\ \A b \in Agents \ {a} : call'[b] = call[b]
    BY <1>4 DEF Inv, Shapes, PollNothing
  <2>3. call'[a].state = call[a].state /\ call'[a].req = call[a].req /\ call'[a].seen = call[a].seen
    BY <2>1, <2>2 DEF CallRecord
  <2>4. Reader(call'[a]) = Readers[a]
    BY <2>3 DEF Readers, Reader, Handed, PlacesOf
  <2>5. Readers' = Readers
    BY <2>2, <2>4, ReadersChange DEF Readers
  <2> QED BY <2>1, <2>5 DEF Abstract!vars
<1>5. ASSUME NEW a \in Agents, PollError(a) PROVE Abstract!Next
  <2>1. Polling(a) /\ log' = log
    BY <1>5 DEF PollError
  <2>2. /\ call'[a] = [call[a] EXCEPT !.state = "raised"]
        /\ \A b \in Agents \ {a} : call'[b] = call[b]
    BY <1>5 DEF Inv, Shapes, PollError
  <2> QED BY <2>1, <2>2, RaiseRefines DEF Abstract!Next
<1>6. ASSUME NEW a \in Agents, Deadline(a) PROVE Abstract!Next
  BY <1>6, DeadlineRefines DEF Abstract!Next
<1>7. ASSUME NEW a \in Agents, Close(a) PROVE Abstract!vars' = Abstract!vars
  BY <1>2, <1>7 DEF Close
<1>8. ASSUME NEW p \in Partitions, NEW v \in Values \cup {Poison}, Produce(p, v) PROVE Abstract!Next
  <2>1. log' = [log EXCEPT ![p] = Append(@, v)] /\ call' = call
    BY <1>8 DEF Produce
  <2>2. Readers' = Readers
    BY <2>1 DEF Readers, Reader, Handed, PlacesOf
  <2> QED BY <2>1, <2>2 DEF Abstract!Next, Abstract!Extend
<1>9. ASSUME NEW g \in Groups, Join(g) \/ Rebalance(g) PROVE Abstract!vars' = Abstract!vars
  BY <1>2, <1>9 DEF Join, Rebalance, Assign
<1>10. CASE UNCHANGED vars
  BY <1>2, <1>10 DEF vars
<1> QED BY <1>1, <1>3, <1>4, <1>5, <1>6, <1>7, <1>8, <1>9, <1>10 DEF Next, PollSomething

\* The agents implement the independent readers of TopicReader, for any number of tests
\* that share the topic, any groups and any behaviour of the broker.
THEOREM Refinement == Spec => ImplementsTopicReader
<1>1. Init => Abstract!Init
  BY DEF Init, Abstract!Init, Abstract!Idle, Readers, Reader, NoCall
<1> QED BY <1>1, StepRefines, SeenInvariance, PTL DEF Spec, ImplementsTopicReader, Abstract!Spec
=============================================================================
