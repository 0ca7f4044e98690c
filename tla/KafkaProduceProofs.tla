------------------------- MODULE KafkaProduceProofs -------------------------
(***************************************************************************)
(* Safety of KafkaProduce for any number of calls, a queue of any size and *)
(* any flush timeout.  The properties speak of calls that have ended;      *)
(* messages are settled and their callbacks served later, by other calls,  *)
(* so the invariant says where each message and its report are.            *)
(***************************************************************************)
EXTENDS KafkaProduce, FiniteSetTheorems, TLAPS

\* The delivery errors of each call are a set of messages.
Shapes == errors \in Seq(SUBSET Nat)

\* All calls but the one that is flushing have ended, and that one has queued
\* its message.
RunningInv ==
  /\ phase # "flushing" => Len(calls) = Len(ended)
  /\ phase = "flushing" =>
       /\ Len(calls) = Len(ended) + 1
       /\ calls[Current].flush /\ state[Current] # "refused"

\* A call has the error of its own message, from the moment the report is served.
MessageInv(i) ==
  /\ \A j \in errors[i] : j = i /\ state[i] = "failed"
  /\ state[i] = "failed" /\ i \notin reports => i \in errors[i]
  /\ state[i] = "delivered" => i \in topic

MessagesInv == \A i \in DOMAIN state : MessageInv(i)

\* What an ended call says of its message and of those before it.
EndedCall(i) ==
  /\ ended[i].outcome \in {"invalid", "full"} => state[i] = "refused"
  /\ ended[i].outcome = "raised" => state[i] = "failed"
  /\ calls[i].flush /\ ended[i].outcome \in {"returned", "raised"} /\ InTime(i) =>
       \A j \in 1..i : state[j] # "queued" /\ j \notin reports
  /\ calls[i].flush /\ ended[i].outcome = "returned" /\ InTime(i) =>
       state[i] = "delivered" /\ i \in topic

\* Messages before call i that nobody waited for to the end.
Unawaited(i) == {j \in 1..(i - 1) : state[j] # "refused" /\ (~calls[j].flush \/ ~InTime(j))}

FullCall(i) == ended[i].outcome = "full" => Cardinality(Unawaited(i)) >= QueueMax

EndedInv == \A i \in DOMAIN ended : EndedCall(i) /\ FullCall(i)

\* close() flushes after the last consumer.
ClosingInv ==
  /\ phase = "draining" \/ (phase = "closed" /\ clean) => consumers = 0
  /\ CloseLeavesNothing

\* The inductive invariant.
Inv == TypeOK /\ Shapes /\ RunningInv /\ MessagesInv /\ EndedInv /\ ClosingInv

USE BoundsAssumption

-----------------------------------------------------------------------------
(* Sequences and the queue *)

\* Adding an element to a sequence.
LEMMA AppendFacts ==
  ASSUME NEW S, NEW s \in Seq(S), NEW x \in S
  PROVE  /\ Append(s, x) \in Seq(S) /\ Len(Append(s, x)) = Len(s) + 1
         /\ DOMAIN Append(s, x) = 1..(Len(s) + 1) /\ DOMAIN s = 1..Len(s)
         /\ Len(s) \in Nat
         /\ \A i \in 1..Len(s) : Append(s, x)[i] = s[i]
         /\ Append(s, x)[Len(s) + 1] = x
OBVIOUS

\* An element of a sequence.
LEMMA ElementFact ==
  ASSUME NEW S, NEW s \in Seq(S), NEW i \in 1..Len(s)
  PROVE  s[i] \in S
OBVIOUS

\* Calls, messages and their errors are numbered alike, and ended calls are calls.
LEMMA Numbering ==
  ASSUME Inv
  PROVE  /\ DOMAIN calls = 1..Len(calls) /\ DOMAIN ended = 1..Len(ended)
         /\ DOMAIN state = 1..Len(calls) /\ DOMAIN errors = 1..Len(calls)
         /\ Len(calls) \in Nat /\ Len(ended) \in Nat /\ Len(ended) <= Len(calls)
         /\ DOMAIN ended \subseteq DOMAIN calls
<1>1. /\ DOMAIN calls = 1..Len(calls) /\ DOMAIN ended = 1..Len(ended)
      /\ DOMAIN state = 1..Len(calls) /\ DOMAIN errors = 1..Len(calls)
      /\ Len(calls) \in Nat /\ Len(ended) \in Nat
  BY DEF Inv, TypeOK, Shapes
<1>2. Len(calls) = Len(ended) \/ Len(calls) = Len(ended) + 1
  BY DEF Inv, RunningInv
<1>3. Len(ended) <= Len(calls)
  <2>1. Len(calls) \in Nat /\ Len(ended) \in Nat
    BY <1>1
  <2> QED BY <1>2, <2>1
<1> QED BY <1>1, <1>3

\* The messages outstanding are finitely many.
LEMMA OutstandingFinite ==
  ASSUME Inv
  PROVE  /\ Outstanding \subseteq 1..Len(calls)
         /\ IsFiniteSet(Outstanding) /\ Cardinality(Outstanding) \in Nat
<1>1. Outstanding \subseteq 1..Len(calls)
  BY Numbering DEF Inv, TypeOK, Outstanding, Queued
<1>2. IsFiniteSet(1..Len(calls))
  BY Numbering, FS_Interval
<1> QED BY <1>1, <1>2, FS_Subset, FS_CardinalityType

-----------------------------------------------------------------------------
(* What has ended stays as it is *)

\* No step changes a call that was made, or a message that is not queued.
Grows ==
  /\ \A i \in DOMAIN ended : i \in DOMAIN ended' /\ ended'[i] = ended[i]
  /\ \A i \in DOMAIN calls :
       /\ calls'[i] = calls[i]
       /\ state'[i] = state[i] \/ (state[i] = "queued" /\ state'[i] # "refused")
       /\ i \in reports' => i \in reports \/ state[i] = "queued"
  /\ topic \subseteq topic'

\* So what ended calls say stays true.
LEMMA GrowsKeeps ==
  ASSUME Inv, Grows, NEW i \in DOMAIN ended
  PROVE  EndedCall(i)' /\ FullCall(i)'
<1>1. i \in DOMAIN calls /\ \A j \in 1..i : j \in DOMAIN calls /\ j \in DOMAIN ended
  BY Numbering
<1>2. i \in Nat
  BY Numbering
<1>3. EndedCall(i)'
  BY <1>1, <1>2 DEF Inv, EndedInv, EndedCall, Grows, InTime
<1>4. Unawaited(i)' = Unawaited(i)
  BY <1>1, <1>2 DEF Unawaited, InTime, Grows
<1>5. FullCall(i)'
  BY <1>4 DEF Inv, EndedInv, FullCall, Grows
<1> QED BY <1>3, <1>5

-----------------------------------------------------------------------------
(* produce() *)

\* What the start of a call with message state s changes.
LEMMA StartFacts ==
  ASSUME Inv, NEW flush \in BOOLEAN, NEW s \in {"refused", "queued"}, Start(flush, s),
         NEW n, n = Len(calls) + 1
  PROVE  /\ n \in Nat /\ Len(calls) < MaxCalls /\ phase = "idle" /\ Len(ended) = Len(calls)
         /\ DOMAIN calls' = 1..n /\ DOMAIN state' = 1..n /\ DOMAIN errors' = 1..n
         /\ Len(calls') = n /\ Len(state') = n /\ Len(errors') = n
         /\ calls' \in Seq([flush : BOOLEAN]) /\ state' \in Seq(States) /\ Shapes'
         /\ \A i \in 1..Len(calls) :
              calls'[i] = calls[i] /\ state'[i] = state[i] /\ errors'[i] = errors[i]
         /\ calls'[n] = [flush |-> flush] /\ state'[n] = s /\ errors'[n] = {}
         /\ UNCHANGED <<topic, reports, consumers, clean>>
<1>1. /\ calls \in Seq([flush : BOOLEAN]) /\ state \in Seq(States) /\ errors \in Seq(SUBSET Nat)
      /\ Len(state) = Len(calls) /\ Len(errors) = Len(calls)
  BY DEF Inv, TypeOK, Shapes
<1>2. s \in States /\ [flush |-> flush] \in [flush : BOOLEAN]
  BY DEF States
<1>3. phase = "idle" /\ Len(ended) = Len(calls)
  BY DEF Inv, RunningInv, Start
<1> QED BY <1>1, <1>2, <1>3, AppendFacts DEF Start, Shapes

\* A call that is refused ends at once and leaves the queue alone.
LEMMA RefusedInv ==
  ASSUME Inv, NEW flush \in BOOLEAN, NEW o \in {"invalid", "full"},
         Start(flush, "refused"), End(o), UNCHANGED <<phase, left>>,
         o = "full" => Cardinality(Outstanding) = QueueMax
  PROVE  Inv'
<1> PICK n : n = Len(calls) + 1
  OBVIOUS
<1>1. /\ n \in Nat /\ Len(calls) < MaxCalls /\ phase = "idle" /\ Len(ended) = Len(calls)
      /\ DOMAIN calls' = 1..n /\ DOMAIN state' = 1..n /\ DOMAIN errors' = 1..n
      /\ Len(calls') = n /\ Len(state') = n /\ Len(errors') = n
      /\ calls' \in Seq([flush : BOOLEAN]) /\ state' \in Seq(States) /\ Shapes'
      /\ \A i \in 1..Len(calls) :
           calls'[i] = calls[i] /\ state'[i] = state[i] /\ errors'[i] = errors[i]
      /\ calls'[n] = [flush |-> flush] /\ state'[n] = "refused" /\ errors'[n] = {}
      /\ UNCHANGED <<topic, reports, consumers, clean>>
  BY StartFacts
<1>2. /\ ended' \in Seq([outcome : Outcomes, left : 0..FlushTime]) /\ Len(ended') = n
      /\ DOMAIN ended' = 1..n
      /\ \A i \in 1..Len(ended) : ended'[i] = ended[i]
      /\ ended'[n] = [outcome |-> o, left |-> left]
  BY <1>1, AppendFacts DEF Inv, TypeOK, End, Outcomes
<1>3. /\ DOMAIN calls = 1..Len(calls) /\ DOMAIN ended = 1..Len(calls)
      /\ DOMAIN state = 1..Len(calls) /\ DOMAIN errors = 1..Len(calls) /\ Len(calls) \in Nat
  BY <1>1, Numbering
<1>4. \A i \in 1..n : i \in 1..Len(calls) \/ i = n
  BY <1>1, <1>3
<1>5. n \notin reports /\ n \notin topic /\ reports \subseteq 1..Len(calls)
  BY <1>1, <1>3 DEF Inv, TypeOK
<1>6. Outstanding' = Outstanding
  BY <1>1, <1>3, <1>4 DEF Outstanding, Queued
<1>7. TypeOK'
  <2>1. \A i \in DOMAIN errors' : errors'[i] \subseteq DOMAIN calls'
    BY <1>1, <1>3, <1>4 DEF Inv, TypeOK
  <2>2. reports' \subseteq {i \in DOMAIN state' : state'[i] \in {"delivered", "failed"}}
    BY <1>1, <1>3, <1>4 DEF Inv, TypeOK
  <2>3. topic' \subseteq DOMAIN calls' /\ n <= MaxCalls
    BY <1>1, <1>3 DEF Inv, TypeOK
  <2> QED BY <1>1, <1>2, <1>6, <2>1, <2>2, <2>3 DEF Inv, TypeOK
<1>8. RunningInv'
  BY <1>1, <1>2 DEF RunningInv
<1>9. MessagesInv'
  BY <1>1, <1>3, <1>4, <1>5 DEF Inv, MessagesInv, MessageInv
<1>10. EndedInv'
  <2>1. Grows
    BY <1>1, <1>2, <1>3 DEF Grows
  <2>2. EndedCall(n)'
    BY <1>1, <1>2 DEF EndedCall
  <2>3. FullCall(n)'
    <3> SUFFICES ASSUME o = "full"
                 PROVE  Cardinality(Unawaited(n)') >= QueueMax
      BY <1>2 DEF FullCall
    <3>1. ASSUME NEW j \in Outstanding PROVE j \in Unawaited(n)'
      <4>1. j \in 1..Len(calls) /\ j \in 1..(n - 1) /\ j \in DOMAIN ended
        BY <1>1, <1>3, OutstandingFinite
      <4>2. state[j] # "refused" /\ (state[j] = "queued" \/ j \in reports)
        BY DEF Inv, TypeOK, Outstanding, Queued
      <4>3. ended[j].outcome \in Outcomes
        <5>1. ended \in Seq([outcome : Outcomes, left : 0..FlushTime])
          BY DEF Inv, TypeOK
        <5>2. j \in 1..Len(ended)
          BY <1>1, <4>1
        <5>3. ended[j] \in [outcome : Outcomes, left : 0..FlushTime]
          BY <5>1, <5>2, ElementFact
        <5> QED BY <5>3
      <4>4. ~calls[j].flush \/ ~InTime(j)
        BY <4>1, <4>2, <4>3 DEF Inv, EndedInv, EndedCall, Outcomes
      <4> QED BY <1>1, <1>2, <1>3, <4>1, <4>2, <4>4 DEF Unawaited, InTime
    <3>2. Outstanding \subseteq Unawaited(n)'
      BY <3>1
    <3>3. Unawaited(n)' \subseteq 1..(n - 1) /\ IsFiniteSet(1..(n - 1))
      BY <1>1, FS_Interval DEF Unawaited
    <3>4. IsFiniteSet(Unawaited(n)')
      BY <3>3, FS_Subset
    <3>5. Cardinality(Unawaited(n)') >= Cardinality(Outstanding)
      BY <3>2, <3>4, FS_Subset, FS_CardinalityType
    <3> QED BY <3>5
  <2> QED BY <1>2, <1>3, <1>4, <2>1, <2>2, <2>3, GrowsKeeps DEF EndedInv
<1>11. ClosingInv'
  BY <1>1 DEF Inv, ClosingInv, CloseLeavesNothing
<1> QED BY <1>1, <1>7, <1>8, <1>9, <1>10, <1>11 DEF Inv

\* A call queues its message; without flush it has ended, and waited for nothing.
LEMMA ProduceInv ==
  ASSUME Inv, NEW flush \in BOOLEAN, Produce(flush)
  PROVE  Inv'
<1> PICK n : n = Len(calls) + 1
  OBVIOUS
<1>0. Start(flush, "queued") /\ Cardinality(Outstanding) < QueueMax
  BY DEF Produce
<1>1. /\ n \in Nat /\ Len(calls) < MaxCalls /\ phase = "idle" /\ Len(ended) = Len(calls)
      /\ DOMAIN calls' = 1..n /\ DOMAIN state' = 1..n /\ DOMAIN errors' = 1..n
      /\ Len(calls') = n /\ Len(state') = n /\ Len(errors') = n
      /\ calls' \in Seq([flush : BOOLEAN]) /\ state' \in Seq(States) /\ Shapes'
      /\ \A i \in 1..Len(calls) :
           calls'[i] = calls[i] /\ state'[i] = state[i] /\ errors'[i] = errors[i]
      /\ calls'[n] = [flush |-> flush] /\ state'[n] = "queued" /\ errors'[n] = {}
      /\ UNCHANGED <<topic, reports, consumers, clean>>
  BY <1>0, StartFacts
<1>3. /\ DOMAIN calls = 1..Len(calls) /\ DOMAIN ended = 1..Len(calls)
      /\ DOMAIN state = 1..Len(calls) /\ DOMAIN errors = 1..Len(calls) /\ Len(calls) \in Nat
  BY <1>1, Numbering
<1>4. \A i \in 1..n : i \in 1..Len(calls) \/ i = n
  BY <1>1, <1>3
<1>5. n \notin reports /\ n \notin topic /\ reports \subseteq 1..Len(calls)
  BY <1>1, <1>3 DEF Inv, TypeOK
<1>6. Outstanding' = Outstanding \cup {n}
  BY <1>1, <1>3, <1>4 DEF Outstanding, Queued
<1>7. Cardinality(Outstanding') <= QueueMax
  <2>1. Cardinality(Outstanding) \in Nat /\ IsFiniteSet(Outstanding) /\ n \notin Outstanding
    BY <1>1, OutstandingFinite
  <2>2. Cardinality(Outstanding') = Cardinality(Outstanding) + 1
    BY <1>6, <2>1, FS_AddElement
  <2> QED BY <1>0, <2>1, <2>2
<1>8. \/ /\ flush /\ phase' = "flushing" /\ left' = FlushTime /\ ended' = ended
      \/ /\ ~flush /\ phase' = "idle" /\ left' = left
         /\ ended' = Append(ended, [outcome |-> "returned", left |-> left])
  BY <1>1 DEF Produce, End
<1>9. /\ ended' \in Seq([outcome : Outcomes, left : 0..FlushTime])
      /\ \A i \in 1..Len(calls) : i \in DOMAIN ended' /\ ended'[i] = ended[i]
      /\ flush => Len(ended') = Len(calls) /\ DOMAIN ended' = 1..Len(calls)
      /\ ~flush => /\ Len(ended') = n /\ DOMAIN ended' = 1..n
                   /\ ended'[n] = [outcome |-> "returned", left |-> left]
  <2>1. ended \in Seq([outcome : Outcomes, left : 0..FlushTime])
        /\ [outcome |-> "returned", left |-> left] \in [outcome : Outcomes, left : 0..FlushTime]
    BY DEF Inv, TypeOK, Outcomes
  <2>2. CASE flush
    BY <1>1, <1>3, <1>8, <2>1, <2>2
  <2>3. CASE ~flush
    <3> DEFINE e == [outcome |-> "returned", left |-> left]
    <3>1. ended' = Append(ended, e)
      BY <1>8, <2>3
    <3>2. /\ Append(ended, e) \in Seq([outcome : Outcomes, left : 0..FlushTime])
          /\ Len(Append(ended, e)) = Len(ended) + 1
          /\ DOMAIN Append(ended, e) = 1..(Len(ended) + 1)
          /\ \A i \in 1..Len(ended) : Append(ended, e)[i] = ended[i]
          /\ Append(ended, e)[Len(ended) + 1] = e
      BY <2>1, AppendFacts
    <3>3. Len(ended) + 1 = n /\ Len(ended) = Len(calls) /\ \A i \in 1..Len(calls) : i \in 1..n
      BY <1>1, <1>3
    <3> QED BY <2>3, <3>1, <3>2, <3>3
  <2> QED BY <2>2, <2>3
<1>10. TypeOK'
  <2>1. \A i \in DOMAIN errors' : errors'[i] \subseteq DOMAIN calls'
    BY <1>1, <1>3, <1>4 DEF Inv, TypeOK
  <2>2. reports' \subseteq {i \in DOMAIN state' : state'[i] \in {"delivered", "failed"}}
    BY <1>1, <1>3, <1>4 DEF Inv, TypeOK
  <2>3. topic' \subseteq DOMAIN calls' /\ n <= MaxCalls
    BY <1>1, <1>3 DEF Inv, TypeOK
  <2>4. left' \in 0..FlushTime /\ phase' \in {"idle", "flushing"}
    BY <1>8 DEF Inv, TypeOK
  <2> QED BY <1>1, <1>7, <1>9, <2>1, <2>2, <2>3, <2>4 DEF Inv, TypeOK
<1>11. RunningInv'
  <2>1. Current' = n
    BY <1>1 DEF Current
  <2>2. CASE flush
    BY <1>1, <1>8, <1>9, <2>1, <2>2 DEF RunningInv
  <2>3. CASE ~flush
    BY <1>1, <1>8, <1>9, <2>3 DEF RunningInv
  <2> QED BY <2>2, <2>3
<1>12. MessagesInv'
  BY <1>1, <1>3, <1>4, <1>5 DEF Inv, MessagesInv, MessageInv
<1>13. EndedInv'
  <2>1. Grows
    BY <1>1, <1>3, <1>9 DEF Grows
  <2>2. ~flush => EndedCall(n)' /\ FullCall(n)'
    BY <1>1, <1>9 DEF EndedCall, FullCall
  <2> QED BY <1>3, <1>4, <1>9, <2>1, <2>2, GrowsKeeps DEF EndedInv
<1>14. ClosingInv'
  BY <1>1, <1>8 DEF Inv, ClosingInv, CloseLeavesNothing
<1> QED BY <1>1, <1>10, <1>11, <1>12, <1>13, <1>14 DEF Inv

-----------------------------------------------------------------------------
(* flush() *)

\* The callback of message i puts its failure into its own call.
LEMMA ServeInv ==
  ASSUME Inv, NEW i \in reports, Serve(i)
  PROVE  Inv'
<1>1. /\ reports' = reports \ {i} /\ i \in DOMAIN calls
      /\ UNCHANGED <<calls, ended, phase, left, state, topic, consumers, clean>>
      /\ Flushing /\ left > 0
  BY Numbering DEF Inv, TypeOK, Serve
<1>2. /\ DOMAIN errors = DOMAIN calls /\ errors \in Seq(SUBSET Nat) /\ DOMAIN state = DOMAIN calls
      /\ i \in Nat /\ i \notin Queued
  BY <1>1, Numbering DEF Inv, Shapes, TypeOK, Queued
<1>3. /\ DOMAIN errors' = DOMAIN errors /\ errors' \in Seq(SUBSET Nat) /\ Len(errors') = Len(errors)
      /\ \A j \in DOMAIN errors \ {i} : errors'[j] = errors[j]
      /\ errors'[i] = IF state[i] = "failed" THEN errors[i] \cup {i} ELSE errors[i]
  <2>1. CASE state[i] = "failed"
    <3>1. errors' = [errors EXCEPT ![i] = @ \cup {i}]
      BY <2>1 DEF Serve
    <3>2. errors[i] \cup {i} \in SUBSET Nat
      BY <1>1, <1>2, Numbering, ElementFact DEF Inv
    <3> QED BY <1>1, <1>2, <2>1, <3>1, <3>2
  <2>2. CASE state[i] # "failed"
    BY <1>2, <2>2 DEF Serve
  <2> QED BY <2>1, <2>2
<1>4. Outstanding' = Outstanding \ {i}
  BY <1>1, <1>2 DEF Outstanding, Queued
<1>5. Cardinality(Outstanding') <= QueueMax
  <2>1. IsFiniteSet(Outstanding) /\ Cardinality(Outstanding) \in Nat
        /\ Cardinality(Outstanding) <= QueueMax
    BY OutstandingFinite DEF Inv, TypeOK
  <2>2. Outstanding' \in SUBSET Outstanding
    BY <1>4
  <2>3. Cardinality(Outstanding') <= Cardinality(Outstanding) /\ IsFiniteSet(Outstanding')
    BY <2>1, <2>2, FS_Subset
  <2> QED BY <2>1, <2>3, FS_CardinalityType
<1>6. TypeOK'
  BY <1>1, <1>2, <1>3, <1>5 DEF Inv, TypeOK
<1>7. Shapes' /\ RunningInv'
  BY <1>1, <1>3 DEF Inv, Shapes, RunningInv, Current
<1>8. MessagesInv'
  BY <1>1, <1>2, <1>3 DEF Inv, MessagesInv, MessageInv
<1>9. EndedInv'
  <2>1. Grows
    BY <1>1 DEF Grows
  <2> QED BY <1>1, <2>1, GrowsKeeps DEF EndedInv
<1>10. ClosingInv'
  BY <1>1 DEF Inv, ClosingInv, CloseLeavesNothing, Flushing
<1> QED BY <1>6, <1>7, <1>8, <1>9, <1>10 DEF Inv

\* A flush that ended in time has left nothing outstanding; the call's own error
\* decides whether it raises.
LEMMA FlushEndsInv ==
  ASSUME Inv, FlushEnds
  PROVE  Inv'
<1> PICK n : n = Len(calls)
  OBVIOUS
<1> DEFINE o == IF errors[n] = {} THEN "returned" ELSE "raised"
<1>1. /\ phase = "flushing" /\ phase' = "idle" /\ left' = 0
      /\ ended' = Append(ended, [outcome |-> o, left |-> left])
      /\ Outstanding = {} \/ left = 0
      /\ UNCHANGED <<calls, state, topic, reports, errors, consumers, clean>>
  BY DEF FlushEnds, Flushed, End, Current
<1>2. /\ n = Len(ended) + 1 /\ calls[n].flush /\ state[n] # "refused"
      /\ n \in Nat /\ Len(ended) \in Nat
      /\ DOMAIN calls = 1..n /\ DOMAIN state = 1..n /\ DOMAIN errors = 1..n
      /\ DOMAIN ended = 1..Len(ended) /\ n \in DOMAIN state
  BY <1>1, Numbering DEF Inv, RunningInv, Current
<1>3. /\ ended' \in Seq([outcome : Outcomes, left : 0..FlushTime]) /\ Len(ended') = n
      /\ DOMAIN ended' = 1..n
      /\ \A i \in 1..Len(ended) : ended'[i] = ended[i]
      /\ ended'[n] = [outcome |-> o, left |-> left]
  <2>1. /\ ended \in Seq([outcome : Outcomes, left : 0..FlushTime])
        /\ [outcome |-> o, left |-> left] \in [outcome : Outcomes, left : 0..FlushTime]
    BY DEF Inv, TypeOK, Outcomes
  <2> QED BY <1>1, <1>2, <2>1, AppendFacts
<1>4. TypeOK'
  BY <1>1, <1>3 DEF Inv, TypeOK, Outstanding, Queued
<1>5. Shapes' /\ RunningInv' /\ MessagesInv'
  BY <1>1, <1>2, <1>3 DEF Inv, Shapes, RunningInv, MessagesInv, MessageInv
<1>6. EndedCall(n)'
  <2>1. MessageInv(n) /\ state[n] \in States
    <3>1. state \in Seq(States) /\ Len(state) = n
      BY DEF Inv, TypeOK
    <3>2. state[n] \in States
      BY <1>2, <3>1, ElementFact
    <3> QED BY <1>2, <3>2 DEF Inv, MessagesInv
  <2>2. o = "raised" => state[n] = "failed"
    BY <2>1 DEF MessageInv
  <2>3. ASSUME left > 0
        PROVE  /\ \A j \in 1..n : state[j] # "queued" /\ j \notin reports
               /\ o = "returned" => state[n] = "delivered" /\ n \in topic
    <3>1. Outstanding = {}
      BY <1>1, <2>3 DEF Inv, TypeOK
    <3>2. \A j \in 1..n : state[j] # "queued" /\ j \notin reports
      BY <1>2, <3>1 DEF Outstanding, Queued
    <3> QED BY <1>2, <2>1, <3>2 DEF MessageInv, States
  <2> QED BY <1>1, <1>3, <2>2, <2>3 DEF EndedCall, InTime
<1>7. FullCall(n)'
  BY <1>3 DEF FullCall
<1>8. EndedInv'
  <2>1. Grows
    BY <1>1, <1>2, <1>3 DEF Grows
  <2>2. \A i \in 1..n : i \in DOMAIN ended \/ i = n
    BY <1>2
  <2> QED BY <1>3, <1>6, <1>7, <2>1, <2>2, GrowsKeeps DEF EndedInv
<1>9. ClosingInv'
  BY <1>1 DEF Inv, ClosingInv, CloseLeavesNothing
<1> QED BY <1>4, <1>5, <1>8, <1>9 DEF Inv

-----------------------------------------------------------------------------
(* librdkafka and the broker *)

\* A queued message is settled; its place in the queue is kept by its report.
LEMMA SettleInv ==
  ASSUME Inv, NEW i \in Queued, NEW verdict \in {"delivered", "failed"}, Settle(i, verdict),
         verdict = "delivered" => i \in topic
  PROVE  Inv'
<1>1. /\ state' = [state EXCEPT ![i] = verdict] /\ reports' = reports \cup {i}
      /\ i \in DOMAIN state /\ state[i] = "queued" /\ DOMAIN state = DOMAIN calls
      /\ UNCHANGED <<calls, ended, phase, left, topic, errors, consumers, clean>>
  BY Numbering DEF Settle, Queued, Inv
<1>2. /\ state' \in Seq(States) /\ Len(state') = Len(state) /\ DOMAIN state' = DOMAIN state
      /\ state'[i] = verdict /\ \A j \in DOMAIN state \ {i} : state'[j] = state[j]
  <2>1. state \in Seq(States) /\ verdict \in States
    BY DEF Inv, TypeOK, States
  <2> QED BY <1>1, <2>1
<1>3. Outstanding' = Outstanding
  BY <1>1, <1>2 DEF Outstanding, Queued
<1>4. reports \subseteq {j \in DOMAIN state : state[j] \in {"delivered", "failed"}}
  BY DEF Inv, TypeOK
<1>5. TypeOK'
  <2>1. reports' \subseteq {j \in DOMAIN state' : state'[j] \in {"delivered", "failed"}}
    BY <1>1, <1>2, <1>4
  <2> QED BY <1>1, <1>2, <1>3, <2>1 DEF Inv, TypeOK
<1>6. Shapes' /\ RunningInv'
  <2>1. phase = "flushing" => Len(calls) \in DOMAIN state
    BY Numbering DEF Inv, RunningInv
  <2> QED BY <1>1, <1>2, <2>1 DEF Inv, Shapes, RunningInv, Current
<1>7. MessagesInv'
  <2>1. MessageInv(i)'
    BY <1>1, <1>2 DEF Inv, MessagesInv, MessageInv
  <2>2. \A j \in DOMAIN state \ {i} : MessageInv(j)'
    BY <1>1, <1>2 DEF Inv, MessagesInv, MessageInv
  <2> QED BY <1>2, <2>1, <2>2 DEF MessagesInv
<1>8. EndedInv'
  <2>1. Grows
    BY <1>1, <1>2 DEF Grows
  <2> QED BY <1>1, <2>1, GrowsKeeps DEF EndedInv
<1>9. ClosingInv'
  BY <1>1, <1>3 DEF Inv, ClosingInv, CloseLeavesNothing, Outstanding
<1> QED BY <1>5, <1>6, <1>7, <1>8, <1>9 DEF Inv

\* A message may reach the topic before anybody knows.
LEMMA DeliverInv ==
  ASSUME Inv, NEW i \in Queued, Deliver(i)
  PROVE  Inv'
<1>1. /\ topic' = topic \cup {i} /\ i \in DOMAIN calls
      /\ UNCHANGED <<calls, ended, phase, left, state, reports, errors, consumers, clean>>
  BY Numbering DEF Deliver, Queued, Inv
<1>2. TypeOK'
  BY <1>1 DEF Inv, TypeOK, Outstanding, Queued
<1>3. Shapes' /\ RunningInv' /\ MessagesInv'
  BY <1>1 DEF Inv, Shapes, RunningInv, Current, MessagesInv, MessageInv
<1>4. EndedInv'
  <2>1. Grows
    BY <1>1 DEF Grows
  <2> QED BY <1>1, <2>1, GrowsKeeps DEF EndedInv
<1>5. ClosingInv'
  BY <1>1 DEF Inv, ClosingInv, CloseLeavesNothing, Outstanding, Queued
<1> QED BY <1>2, <1>3, <1>4, <1>5 DEF Inv

-----------------------------------------------------------------------------
(* close() *)

\* Steps of the clock and of close() touch neither calls nor messages.
LEMMA QuietInv ==
  ASSUME Inv, UNCHANGED <<calls, ended, state, topic, reports, errors>>,
         phase' \in {"idle", "flushing", "closing", "draining", "closed"},
         phase' = "flushing" <=> phase = "flushing",
         left' \in 0..FlushTime, consumers' \in 0..MaxConsumers, clean' \in BOOLEAN,
         ClosingInv'
  PROVE  Inv'
<1>1. TypeOK'
  BY DEF Inv, TypeOK, Outstanding, Queued
<1>2. Shapes' /\ RunningInv' /\ MessagesInv'
  BY DEF Inv, Shapes, RunningInv, Current, MessagesInv, MessageInv
<1>3. EndedInv'
  <2>1. Grows
    BY DEF Grows
  <2> QED BY <2>1, GrowsKeeps DEF EndedInv
<1> QED BY <1>1, <1>2, <1>3 DEF Inv

\* The agent starts with nothing sent.
LEMMA InitInv == Init => Inv
<1> SUFFICES ASSUME Init PROVE Inv
  OBVIOUS
<1>1. Outstanding = {}
  BY DEF Init, Outstanding, Queued
<1>2. TypeOK
  BY <1>1, FS_EmptySet DEF Init, TypeOK
<1> QED BY <1>1, <1>2 DEF Init, Inv, Shapes, RunningInv, MessagesInv, EndedInv, ClosingInv,
                          CloseLeavesNothing

\* Every step keeps the invariant.
LEMMA NextInv == Inv /\ [Next]_vars => Inv'
<1> SUFFICES ASSUME Inv, [Next]_vars PROVE Inv'
  OBVIOUS
<1>0. left \in 0..FlushTime /\ consumers \in 0..MaxConsumers /\ clean \in BOOLEAN
  BY DEF Inv, TypeOK
<1>1. ASSUME NEW flush \in BOOLEAN, ProduceInvalid(flush) PROVE Inv'
  BY <1>1, RefusedInv DEF ProduceInvalid
<1>2. ASSUME NEW flush \in BOOLEAN, ProduceFull(flush) PROVE Inv'
  BY <1>2, RefusedInv DEF ProduceFull
<1>3. ASSUME NEW flush \in BOOLEAN, Produce(flush) PROVE Inv'
  BY <1>3, ProduceInv
<1>4. CASE Close
  BY <1>0, <1>4, QuietInv DEF Close, ClosingInv, CloseLeavesNothing
<1>5. ASSUME NEW i \in reports, Serve(i) PROVE Inv'
  BY <1>5, ServeInv
<1>6. CASE Tick
  <2>1. left' \in 0..FlushTime /\ phase \in {"flushing", "draining"} /\ phase' = phase
    BY <1>0, <1>6 DEF Tick, Flushing
  <2>2. ClosingInv'
    BY <1>6, <2>1 DEF Tick, Inv, ClosingInv, CloseLeavesNothing
  <2> QED BY <1>0, <1>6, <2>1, <2>2, QuietInv DEF Tick
<1>7. CASE FlushEnds
  BY <1>7, FlushEndsInv
<1>8. CASE CloseConsumer
  <2>1. consumers' \in 0..MaxConsumers
    BY <1>0, <1>8 DEF CloseConsumer
  <2> QED BY <1>0, <1>8, <2>1, QuietInv DEF CloseConsumer, ClosingInv, CloseLeavesNothing
<1>9. CASE CloseConsumerRaises
  BY <1>0, <1>9, QuietInv DEF CloseConsumerRaises, ClosingInv, CloseLeavesNothing
<1>10. CASE CloseProducer
  <2>1. calls = <<>> => Outstanding' = {}
    <3>1. calls = <<>> => DOMAIN state = {}
      BY Numbering
    <3> QED BY <1>10, <3>1 DEF CloseProducer, Inv, TypeOK, Outstanding, Queued
  <2>2. ClosingInv'
    BY <1>10, <2>1 DEF CloseProducer, ClosingInv, CloseLeavesNothing
  <2> QED BY <1>0, <1>10, <2>2, QuietInv DEF CloseProducer
<1>11. CASE DrainEnds
  <2>1. ClosingInv'
    BY <1>0, <1>11 DEF DrainEnds, Flushed, Inv, ClosingInv, CloseLeavesNothing, Outstanding, Queued
  <2> QED BY <1>0, <1>11, <2>1, QuietInv DEF DrainEnds
<1>12. ASSUME NEW i \in Queued, Deliver(i) PROVE Inv'
  BY <1>12, DeliverInv
<1>13. ASSUME NEW i \in Queued, Acknowledge(i) PROVE Inv'
  BY <1>13, SettleInv DEF Acknowledge
<1>14. ASSUME NEW i \in Queued, Fail(i) PROVE Inv'
  BY <1>14, SettleInv DEF Fail
<1>15. CASE UNCHANGED vars
  <2>1. ClosingInv' /\ phase' = phase
    BY <1>15 DEF vars, Inv, ClosingInv, CloseLeavesNothing, Outstanding, Queued
  <2> QED BY <1>0, <1>15, <2>1, QuietInv DEF vars, Inv, TypeOK
<1> QED BY <1>1, <1>2, <1>3, <1>4, <1>5, <1>6, <1>7, <1>8, <1>9, <1>10, <1>11, <1>12, <1>13,
           <1>14, <1>15 DEF Next, Agent

\* Every reachable state satisfies the inductive invariant.
THEOREM Invariance == Spec => []Inv
  BY InitInv, NextInv, PTL DEF Spec

\* Types, and a queue that never holds more than its limit, reports included.
THEOREM TypeCorrect == Spec => []TypeOK
<1>1. Inv => TypeOK
  BY DEF Inv
<1> QED BY <1>1, Invariance, PTL

\* A delivery error is raised by the call whose message failed, whichever call's
\* flush served the callback.
THEOREM ErrorsAreOnesOwn == Spec => []ErrorsStayWithTheirCall
<1>1. Inv => ErrorsStayWithTheirCall
  BY DEF Inv, EndedInv, EndedCall, ErrorsStayWithTheirCall
<1> QED BY <1>1, Invariance, PTL

\* A flush that returned in time has settled its message and all before it.
THEOREM FlushSettles == Spec => []FlushedMeansSettled
<1>1. Inv => FlushedMeansSettled
  <2> SUFFICES ASSUME Inv, NEW i \in DOMAIN ended, calls[i].flush,
                      ended[i].outcome = "returned", InTime(i)
               PROVE  /\ state[i] = "delivered" /\ i \in topic
                      /\ \A j \in 1..(i - 1) : state[j] # "queued" /\ j \notin reports
    BY DEF FlushedMeansSettled
  <2>1. \A j \in 1..(i - 1) : j \in 1..i
    BY Numbering
  <2> QED BY <2>1 DEF Inv, EndedInv, EndedCall
<1> QED BY <1>1, Invariance, PTL

\* A BufferError needs a queue full of messages nobody waited for to the end.
THEOREM FullIsUnawaited == Spec => []FullOnlyWithoutFlush
<1>1. Inv => FullOnlyWithoutFlush
  BY DEF Inv, EndedInv, FullCall, Unawaited, FullOnlyWithoutFlush
<1> QED BY <1>1, Invariance, PTL

\* A close() that neither raised nor timed out has left nothing.
THEOREM CloseIsComplete == Spec => []CloseLeavesNothing
<1>1. Inv => CloseLeavesNothing
  BY DEF Inv, ClosingInv
<1> QED BY <1>1, Invariance, PTL
=============================================================================
