---------------------------- MODULE PerfRunProofs ----------------------------
(***************************************************************************)
(* Safety of PerfRun for any locustfile, any SLOs and any number of        *)
(* requests: whatever happens to Locust, the call ends as the run did, and *)
(* the verdict of meets_slo is that of the requests in the file.           *)
(***************************************************************************)
EXTENDS PerfRun, FiniteSetTheorems, SequenceTheorems, TLAPS

N == Len(Endpoints)

-----------------------------------------------------------------------------
(* Rows and files *)

\* An element of a sequence.
LEMMA ElementFact ==
  ASSUME NEW S, NEW s \in Seq(S), NEW i \in DOMAIN s
  PROVE  s[i] \in S
OBVIOUS

Bad(hits, of) == {k \in of : ~hits[k].ok}

\* What a row and the statistics parsed from it say of the requests at some places.
Counts(r, name, hits, of) ==
  /\ r.name = name
  /\ r.requests = Cardinality(of) /\ Cardinality(of) \in 0..Len(hits)
  /\ r.failures = Cardinality(Bad(hits, of))
  /\ Cardinality(Bad(hits, of)) \in 0..Cardinality(of)
Slowest(r, hits, of) == \A ms \in Nat : r.p95 > ms <=> \E k \in of : hits[k].ms > ms

\* A row counts the requests at its places, and its percentile is that of the slowest.
LEMMA RowFacts ==
  ASSUME NEW hits \in Seq(Hit), NEW of \in SUBSET DOMAIN hits, NEW name,
         NEW r, r = Row(name, hits, of)
  PROVE  /\ Counts(r, name, hits, of)
         /\ r.p95 \in Times \cup {NA} /\ (r.p95 = NA <=> of = {})
         /\ of # {} => Slowest(r, hits, of)
<1> DEFINE bad == Bad(hits, of)
           T == {hits[k].ms : k \in of}
<1>1. Len(hits) \in Nat /\ DOMAIN hits = 1..Len(hits)
  OBVIOUS
<1>2. IsFiniteSet(1..Len(hits)) /\ Cardinality(1..Len(hits)) = Len(hits)
  <2>1. 1 \in Int /\ Len(hits) \in Int /\ Len(hits) \in Nat
    BY <1>1
  <2>2. IsFiniteSet(1..Len(hits))
    BY <2>1, FS_Interval
  <2>3. Cardinality(1..Len(hits)) = IF 1 > Len(hits) THEN 0 ELSE Len(hits) - 1 + 1
    BY <2>1, FS_Interval
  <2> QED BY <2>1, <2>2, <2>3
<1>3. IsFiniteSet(of) /\ Cardinality(of) <= Len(hits)
  BY <1>1, <1>2, FS_Subset
<1>4. IsFiniteSet(bad) /\ Cardinality(bad) <= Cardinality(of)
  <2>1. bad \in SUBSET of
    BY DEF Bad
  <2> QED BY <1>3, <2>1, FS_Subset
<1>5. Cardinality(of) \in 0..Len(hits) /\ Cardinality(bad) \in 0..Cardinality(of)
  <2>1. Cardinality(of) \in Nat /\ Cardinality(bad) \in Nat
    BY <1>3, <1>4, FS_CardinalityType
  <2> HIDE DEF bad
  <2> QED BY <1>1, <1>3, <1>4, <2>1
<1>6. \A k \in of : hits[k].ms \in {1, 2}
  <2>1. \A k \in of : hits[k] \in Hit
    BY ElementFact
  <2>2. \A h \in Hit : h.ms \in {1, 2}
    BY DEF Hit, Times
  <2> QED BY <2>1, <2>2
<1>7. of # {} => Max(T) \in {1, 2} /\ Max(T) \in T /\ \A t \in T : Max(T) >= t
  <2>1. T \subseteq {1, 2} /\ (of # {} => T # {})
    BY <1>6
  <2> HIDE DEF T
  <2>2. T # {} => \E t \in T : \A u \in T : t >= u
    <3>1. CASE 2 \in T
      BY <2>1, <3>1
    <3>2. CASE 2 \notin T
      <4>1. \A t \in T : t = 1
        BY <2>1, <3>2
      <4> QED BY <4>1
    <3> QED BY <3>1, <3>2
  <2>3. T # {} => Max(T) \in T /\ \A u \in T : Max(T) >= u
    BY <2>2 DEF Max
  <2> QED BY <2>1, <2>3
<1>8. /\ r.name = name /\ r.requests = Cardinality(of) /\ r.failures = Cardinality(bad)
      /\ r.p95 = IF of = {} THEN NA ELSE Max(T)
  BY DEF Row, Bad
<1>9. r.p95 \in Times \cup {NA} /\ (r.p95 = NA <=> of = {})
  <2> HIDE DEF T
  <2> QED BY <1>7, <1>8 DEF Times, NA
<1>10. of # {} => Slowest(r, hits, of)
  <2> SUFFICES ASSUME of # {}, NEW ms \in Nat
               PROVE  r.p95 > ms <=> \E k \in of : hits[k].ms > ms
    BY DEF Slowest
  <2>1. r.p95 = Max(T) /\ Max(T) \in T /\ \A t \in T : Max(T) >= t
    BY <1>7, <1>8
  <2>2. \A t \in T : t \in {1, 2}
    BY <1>6
  <2>3. (\E k \in of : hits[k].ms > ms) <=> \E t \in T : t > ms
    OBVIOUS
  <2> HIDE DEF T
  <2> QED BY <2>1, <2>2, <2>3
<1>11. Counts(r, name, hits, of)
  BY <1>5, <1>8 DEF Counts
<1> QED BY <1>9, <1>10, <1>11

\* A written file has a row for each entry and the aggregate after them.
LEMMA StatisticsFacts ==
  ASSUME NEW hits
  PROVE  /\ N \in Nat /\ Len(Statistics(hits)) = N + 1 /\ DOMAIN Statistics(hits) = 1..(N + 1)
         /\ \A i \in 1..N : Statistics(hits)[i] = Row(Endpoints[i].name, hits, Of(i, hits))
         /\ Statistics(hits)[N + 1] = Row("Aggregated", hits, DOMAIN hits)
<1> DEFINE s == [i \in DOMAIN Endpoints |-> Row(Endpoints[i].name, hits, Of(i, hits))]
           a == Row("Aggregated", hits, DOMAIN hits)
           S == {s[i] : i \in 1..N} \cup {a}
<1>1. N \in Nat /\ DOMAIN Endpoints = 1..N
  BY EndpointsAssumption DEF N
<1>2. s \in Seq(S) /\ Len(s) = N
  <2>1. s \in [1..N -> S]
    BY <1>1
  <2> HIDE DEF s, S
  <2> QED BY <1>1, <2>1
<1>3. <<a>> \in Seq(S) /\ Len(<<a>>) = 1 /\ <<a>>[1] = a
  OBVIOUS
<1>4. Statistics(hits) = s \o <<a>>
  BY DEF Statistics
<1>5. \A i \in 1..N : s[i] = Row(Endpoints[i].name, hits, Of(i, hits))
  BY <1>1
<1> HIDE DEF s, a, S
<1>6. /\ Len(s \o <<a>>) = N + 1 /\ DOMAIN (s \o <<a>>) = 1..(N + 1)
      /\ \A i \in 1..N : (s \o <<a>>)[i] = s[i]
      /\ (s \o <<a>>)[N + 1] = a
  BY <1>1, <1>2, <1>3
<1> QED BY <1>1, <1>4, <1>5, <1>6 DEF a

\* Only the last row is the aggregate.
LEMMA AggregateIsLast ==
  ASSUME NEW hits
  PROVE  {k \in DOMAIN Statistics(hits) : IsAggregated(Statistics(hits)[k])} = {N + 1}
<1>1. \A i \in 1..N : ~IsAggregated(Statistics(hits)[i])
  <2> SUFFICES ASSUME NEW i \in 1..N
               PROVE  ~IsAggregated(Statistics(hits)[i])
    OBVIOUS
  <2>1. Statistics(hits)[i].name = Endpoints[i].name
    <3>1. Statistics(hits)[i] = Row(Endpoints[i].name, hits, Of(i, hits))
      BY StatisticsFacts
    <3> QED BY <3>1 DEF Row
  <2>2. Endpoints[i].name \in Names
    BY EndpointsAssumption DEF Names, N
  <2> QED BY <2>1, <2>2, EndpointsAssumption DEF IsAggregated
<1>2. IsAggregated(Statistics(hits)[N + 1])
  <2>1. Statistics(hits)[N + 1] = Row("Aggregated", hits, DOMAIN hits)
    BY StatisticsFacts
  <2> QED BY <2>1 DEF Row, IsAggregated
<1>3. \A k \in 1..(N + 1) : k \in 1..N \/ k = N + 1
  BY StatisticsFacts
<1> QED BY <1>1, <1>2, <1>3, StatisticsFacts

\* Parsing a row keeps its counts and takes a missing percentile for zero.
LEMMA ParsedRow ==
  ASSUME NEW hits \in Seq(Hit), NEW of \in SUBSET DOMAIN hits, NEW name, NEW r,
         r = FromCsvRow(Row(name, hits, of))
  PROVE  Counts(r, name, hits, of) /\ Slowest(r, hits, of) /\ r.p95 \in Times \cup {0}
<1> PICK w : w = Row(name, hits, of)
  OBVIOUS
<1>1. r.name = w.name /\ r.requests = w.requests /\ r.failures = w.failures
  BY DEF FromCsvRow, Row
<1>2. r.p95 = AsFloat(w.p95)
  BY DEF FromCsvRow, Row
<1>3. /\ Counts(w, name, hits, of) /\ w.p95 \in Times \cup {NA} /\ (w.p95 = NA <=> of = {})
      /\ of # {} => Slowest(w, hits, of)
  BY RowFacts
<1>4. r.p95 \in Times \cup {0}
  BY <1>2, <1>3 DEF AsFloat
<1>5. Counts(r, name, hits, of)
  BY <1>1, <1>3 DEF Counts
<1>6. CASE of = {}
  <2>1. r.p95 = 0
    BY <1>2, <1>3, <1>6 DEF AsFloat
  <2> QED BY <1>4, <1>5, <1>6, <2>1 DEF Slowest
<1>7. CASE of # {}
  <2>1. r.p95 = w.p95
    BY <1>2, <1>3, <1>7 DEF AsFloat
  <2> QED BY <1>3, <1>4, <1>5, <1>7, <2>1 DEF Slowest
<1> QED BY <1>6, <1>7

\* A complete file parses to the row of each entry and to the aggregate.
LEMMA ParsedFile ==
  ASSUME NEW hits, NEW r, r = FromCsv(Statistics(hits))
  PROVE  /\ DOMAIN r.endpoints = 1..N
         /\ \A i \in 1..N : r.endpoints[i] = FromCsvRow(Row(Endpoints[i].name, hits, Of(i, hits)))
         /\ r.aggregate = FromCsvRow(Row("Aggregated", hits, DOMAIN hits))
<1> DEFINE s == Statistics(hits)
           A == {k \in DOMAIN s : IsAggregated(s[k])}
<1>1. A = {N + 1} /\ N \in Nat /\ DOMAIN s = 1..(N + 1)
  BY AggregateIsLast, StatisticsFacts
<1>2. Min(A) = N + 1
  BY <1>1 DEF Min
<1>3. DOMAIN s \ A = 1..N
  BY <1>1
<1>4. /\ r.endpoints = [k \in DOMAIN s \ A |-> FromCsvRow(s[k])]
      /\ r.aggregate = FromCsvRow(s[Min(A)])
  BY DEF FromCsv
<1>5. /\ \A i \in 1..N : s[i] = Row(Endpoints[i].name, hits, Of(i, hits))
      /\ s[N + 1] = Row("Aggregated", hits, DOMAIN hits)
  BY StatisticsFacts
<1> HIDE DEF s, A
<1> QED BY <1>2, <1>3, <1>4, <1>5

\* The first n rows of a file are the file or hold no aggregate.
LEMMA FirstRows ==
  ASSUME NEW hits, NEW n \in 0..(N + 1), NEW rows, rows = SubSeq(Statistics(hits), 1, n)
  PROVE  /\ Len(rows) = n /\ DOMAIN rows = 1..n
         /\ n = N + 1 => rows = Statistics(hits)
         /\ n # N + 1 => \A k \in 1..n : ~IsAggregated(rows[k])
<1> DEFINE s == Statistics(hits)
           S == {s[i] : i \in 1..(N + 1)}
<1>1. N \in Nat /\ Len(s) = N + 1 /\ DOMAIN s = 1..(N + 1)
  BY StatisticsFacts
<1>2. s \in Seq(S)
  <2>1. s \in [1..(N + 1) -> S]
    <3>1. s = [i \in DOMAIN s |-> s[i]]
      BY DEF Statistics
    <3> HIDE DEF s
    <3> QED BY <1>1, <3>1
  <2> HIDE DEF s, S
  <2> QED BY <1>1, <2>1
<1>3. {k \in DOMAIN s : IsAggregated(s[k])} = {N + 1}
  BY AggregateIsLast
<1> HIDE DEF s, S
<1>4. rows \in Seq(S) /\ Len(rows) = n /\ \A k \in 1..n : rows[k] = s[k]
  BY <1>1, <1>2 DEF s
<1>5. DOMAIN rows = 1..n
  BY <1>4
<1>6. n = N + 1 => rows = s
  BY <1>1, <1>2, <1>4, SeqEqual
<1>7. n # N + 1 => \A k \in 1..n : ~IsAggregated(rows[k])
  <2>1. n # N + 1 => \A k \in 1..n : k \in 1..(N + 1) /\ k # N + 1
    BY <1>1
  <2> QED BY <1>1, <1>3, <1>4, <2>1
<1> QED BY <1>4, <1>5, <1>6, <1>7 DEF s

\* A request more keeps a prefix one.
LEMMA PrefixAppend ==
  ASSUME NEW s \in Seq(Hit), NEW t \in Seq(Hit), IsPrefix(s, t), NEW h \in Hit
  PROVE  IsPrefix(s, Append(t, h))
<1>1. /\ Append(t, h) \in Seq(Hit) /\ Len(Append(t, h)) = Len(t) + 1
      /\ Len(s) \in Nat /\ Len(t) \in Nat
      /\ \A i \in 1..Len(t) : Append(t, h)[i] = t[i]
  OBVIOUS
<1>2. Len(s) <= Len(t) /\ SubSeq(s, 1, Len(s)) = SubSeq(t, 1, Len(s))
  BY DEF IsPrefix
<1>3. SubSeq(Append(t, h), 1, Len(s)) = SubSeq(t, 1, Len(s))
  <2>1. /\ SubSeq(Append(t, h), 1, Len(s)) \in Seq(Hit) /\ SubSeq(t, 1, Len(s)) \in Seq(Hit)
        /\ Len(SubSeq(Append(t, h), 1, Len(s))) = Len(s) /\ Len(SubSeq(t, 1, Len(s))) = Len(s)
        /\ \A i \in 1..Len(s) : SubSeq(Append(t, h), 1, Len(s))[i] = Append(t, h)[i]
                                /\ SubSeq(t, 1, Len(s))[i] = t[i]
    BY <1>1, <1>2
  <2>2. \A i \in 1..Len(s) : SubSeq(Append(t, h), 1, Len(s))[i] = SubSeq(t, 1, Len(s))[i]
    BY <1>1, <1>2, <2>1
  <2> QED BY <2>1, <2>2, SeqEqual
<1> QED BY <1>1, <1>2, <1>3 DEF IsPrefix

-----------------------------------------------------------------------------
(* The run *)

Gone == {"unable", "completed", "killed"}

\* Requests are only added, and the file was written from some of them.
TrafficInv ==
  /\ traffic \in Seq(Hit) /\ Len(traffic) <= MaxHits
  /\ saved \in Seq(Hit) /\ IsPrefix(saved, traffic)

\* The file is absent, complete, or cut off before the aggregate.
Whole == file = [exists |-> TRUE, rows |-> Statistics(saved)]
CutOff ==
  /\ file = [exists |-> TRUE, rows |-> file.rows]
  /\ Len(file.rows) \in 0..N /\ DOMAIN file.rows = 1..Len(file.rows)
  /\ \A k \in DOMAIN file.rows : ~IsAggregated(file.rows[k])
FileInv == file = Absent \/ Whole \/ CutOff

\* What the process has done so far, and what the call makes of it.
ProcessInv ==
  /\ locust \in Processes /\ phase \in Phases
  /\ locust \in {"none", "starting", "unable"} => file = Absent /\ traffic = <<>>
  /\ locust = "running" => file # Absent
  /\ phase = "idle" <=> locust = "none"
  /\ phase \in Ended => locust \in Gone
  /\ phase = "waiting" /\ locust = "completed" => Whole
  /\ phase = "waiting" /\ file = Absent => traffic = <<>>
CallInv ==
  /\ phase = "PerfRunError" => traffic = <<>> /\ locust # "completed"
  /\ phase = "StopIteration" => locust = "killed"
  /\ phase = "returned" => locust # "unable" /\ result = FromCsv(Statistics(saved))
  /\ \/ verdict = NoVerdict
     \/ /\ phase = "returned" /\ verdict.slo \in Slos
        /\ verdict.outcome = MeetsSlo(result, verdict.slo)

Inv == TrafficInv /\ FileInv /\ ProcessInv /\ CallInv

\* A file says whether it exists, and only a complete one has an aggregate.
LEMMA FileFacts ==
  ASSUME Inv
  PROVE  /\ file.exists \in BOOLEAN /\ (file.exists <=> file # Absent)
         /\ (\E row \in Range(file.rows) : IsAggregated(row)) => Whole
         /\ Whole => \E row \in Range(file.rows) : IsAggregated(row)
         /\ Len(file.rows) = N + 1 => Whole
<1>1. N \in Nat
  BY EndpointsAssumption DEF N
<1>2. CASE file = Absent
  <2>1. file.exists = FALSE /\ file.rows = <<>>
    BY <1>2 DEF Absent
  <2>2. Range(<<>>) = {} /\ Len(<<>>) = 0
    BY DEF Range
  <2>3. ~Whole
    BY <2>1 DEF Whole
  <2>4. ~ \E row \in Range(file.rows) : IsAggregated(row)
    BY <2>1, <2>2
  <2>5. Len(file.rows) # N + 1
    BY <1>1, <2>1, <2>2
  <2>6. file.exists \in BOOLEAN /\ (file.exists <=> file # Absent)
    BY <1>2, <2>1
  <2> QED BY <2>3, <2>4, <2>5, <2>6
<1>3. CASE Whole
  <2>1. file.exists = TRUE /\ file.rows = Statistics(saved)
    BY <1>3 DEF Whole
  <2>2. N + 1 \in DOMAIN file.rows /\ IsAggregated(file.rows[N + 1])
    BY <2>1, AggregateIsLast
  <2>3. \E row \in Range(file.rows) : IsAggregated(row)
    BY <2>2 DEF Range
  <2>4. file # Absent
    BY <2>1 DEF Absent
  <2> QED BY <1>3, <2>1, <2>3, <2>4
<1>4. CASE CutOff
  <2>1. file.exists = TRUE /\ file # Absent
    BY <1>4 DEF CutOff, Absent
  <2>2. ~ \E row \in Range(file.rows) : IsAggregated(row)
    BY <1>4 DEF CutOff, Range
  <2>3. Len(file.rows) # N + 1
    BY <1>1, <1>4 DEF CutOff
  <2>4. Whole => \E row \in Range(file.rows) : IsAggregated(row)
    BY <1>3
  <2> QED BY <2>1, <2>2, <2>3, <2>4
<1> QED BY <1>2, <1>3, <1>4 DEF Inv, FileInv

\* The call is made and Locust starts, or ends without a file being touched.
LEMMA ProcessSteps ==
  ASSUME Inv, Run \/ CannotRun \/ Complete \/ Kill
  PROVE  Inv'
<1>1. UNCHANGED <<traffic, file, saved, result, verdict>>
  BY DEF Run, CannotRun, Complete, Kill
<1>2. TrafficInv' /\ FileInv' /\ (Whole' <=> Whole)
  BY <1>1 DEF Inv, TrafficInv, FileInv, Whole, CutOff
<1>3. CASE Run
  BY <1>1, <1>2, <1>3 DEF Run, Inv, ProcessInv, CallInv, Processes, Phases, Ended, Gone
<1>4. CASE CannotRun
  BY <1>1, <1>2, <1>4 DEF CannotRun, Inv, ProcessInv, CallInv, Processes, Phases, Ended, Gone
<1>5. CASE Complete
  <2>1. Whole
    BY <1>5, FileFacts DEF Complete, N
  <2> QED BY <1>1, <1>2, <1>5, <2>1
          DEF Complete, Inv, ProcessInv, CallInv, Processes, Phases, Ended, Gone
<1>6. CASE Kill
  BY <1>1, <1>2, <1>6 DEF Kill, Inv, ProcessInv, CallInv, Processes, Phases, Ended, Gone
<1> QED BY <1>3, <1>4, <1>5, <1>6

\* Locust opens its file.
LEMMA OpenInv ==
  ASSUME Inv, OpenStatistics
  PROVE  Inv'
<1>1. /\ locust = "starting" /\ locust' = "running"
      /\ file' = [exists |-> TRUE, rows |-> <<>>]
      /\ UNCHANGED <<traffic, saved, phase, result, verdict>>
  BY DEF OpenStatistics
<1>2. CutOff' /\ file' # Absent
  <2>1. N \in Nat /\ Len(<<>>) = 0 /\ DOMAIN <<>> = 1..0 /\ 1..0 = {}
    BY EndpointsAssumption DEF N
  <2> QED BY <1>1, <2>1 DEF CutOff, Absent
<1>3. TrafficInv' /\ FileInv'
  BY <1>1, <1>2 DEF Inv, TrafficInv, FileInv
<1>4. ProcessInv' /\ CallInv'
  BY <1>1, <1>2 DEF Inv, ProcessInv, CallInv, Processes, Phases, Ended, Gone
<1> QED BY <1>3, <1>4 DEF Inv

\* Locust sends a request.
LEMMA SendInv ==
  ASSUME Inv, NEW h \in Hit, SendRequest(h)
  PROVE  Inv'
<1>1. /\ locust = "running" /\ Len(traffic) < MaxHits /\ traffic' = Append(traffic, h)
      /\ UNCHANGED <<locust, file, saved, phase, result, verdict>>
  BY DEF SendRequest
<1>2. TrafficInv'
  <2>1. Append(traffic, h) \in Seq(Hit) /\ Len(Append(traffic, h)) = Len(traffic) + 1
        /\ Len(traffic) \in Nat
    BY DEF Inv, TrafficInv
  <2>2. IsPrefix(saved, Append(traffic, h))
    BY PrefixAppend DEF Inv, TrafficInv
  <2> QED BY <1>1, <2>1, <2>2, BoundAssumption DEF Inv, TrafficInv
<1>3. FileInv' /\ (Whole' <=> Whole)
  BY <1>1 DEF Inv, FileInv, Whole, CutOff
<1>4. phase = "waiting" /\ file # Absent
  BY <1>1 DEF Inv, ProcessInv, Phases, Ended, Gone
<1>5. ProcessInv' /\ CallInv'
  BY <1>1, <1>3, <1>4 DEF Inv, ProcessInv, CallInv, Ended
<1> QED BY <1>2, <1>3, <1>5 DEF Inv

\* Writing rows to an existing file.
LEMMA RowsReplaced ==
  ASSUME NEW old, NEW rows, NEW f, f = [exists |-> TRUE, rows |-> old]
  PROVE  [f EXCEPT !.rows = rows] = [exists |-> TRUE, rows |-> rows]
<1> DEFINE F == [exists : BOOLEAN, rows : {old, rows}]
<1>1. f \in F /\ f.exists = TRUE
  OBVIOUS
<1> PICK g : g = [f EXCEPT !.rows = rows]
  OBVIOUS
<1>2. g \in F /\ g.exists = TRUE /\ g.rows = rows
  BY <1>1
<1>3. g = [exists |-> g.exists, rows |-> g.rows]
  BY <1>2
<1> QED BY <1>2, <1>3

\* Locust writes its file, or the first rows of it.
LEMMA WriteInv ==
  ASSUME Inv, NEW n \in 0..(Len(Endpoints) + 1), WriteStatistics(n)
  PROVE  Inv'
<1> DEFINE rows == SubSeq(Statistics(traffic), 1, n)
<1>1. /\ locust = "running" /\ file' = [file EXCEPT !.rows = rows]
      /\ saved' = IF n = N + 1 THEN traffic ELSE saved
      /\ UNCHANGED <<locust, traffic, phase, result, verdict>>
  BY DEF WriteStatistics, N
<1>2. phase = "waiting" /\ file # Absent
  BY <1>1 DEF Inv, ProcessInv, Phases, Ended, Gone
<1>3. file' = [exists |-> TRUE, rows |-> rows]
  <2>1. PICK old : file = [exists |-> TRUE, rows |-> old]
    BY <1>2 DEF Inv, FileInv, Whole, CutOff
  <2> HIDE DEF rows
  <2>2. [file EXCEPT !.rows = rows] = [exists |-> TRUE, rows |-> rows]
    BY <2>1, RowsReplaced
  <2> QED BY <1>1, <2>2
<1>4. /\ Len(rows) = n /\ DOMAIN rows = 1..n /\ N \in Nat
      /\ n = N + 1 => rows = Statistics(traffic)
      /\ n # N + 1 => \A k \in 1..n : ~IsAggregated(rows[k])
  BY FirstRows, EndpointsAssumption DEF N
<1> HIDE DEF rows
<1>5. CASE n = N + 1
  <2>1. saved' = traffic /\ Whole'
    BY <1>1, <1>3, <1>4, <1>5 DEF Whole
  <2>2. IsPrefix(traffic, traffic)
    BY DEF IsPrefix, Inv, TrafficInv
  <2>3. TrafficInv' /\ FileInv'
    BY <1>1, <2>1, <2>2 DEF Inv, TrafficInv, FileInv
  <2>4. file' # Absent
    BY <1>3 DEF Absent
  <2>5. ProcessInv' /\ CallInv'
    BY <1>1, <1>2, <2>4 DEF Inv, ProcessInv, CallInv, Ended
  <2> QED BY <2>3, <2>5 DEF Inv
<1>6. CASE n # N + 1
  <2>1. saved' = saved /\ n \in 0..N
    BY <1>1, <1>4, <1>6 DEF N
  <2>2. CutOff'
    BY <1>3, <1>4, <1>6, <2>1 DEF CutOff
  <2>3. TrafficInv' /\ FileInv'
    BY <1>1, <2>1, <2>2 DEF Inv, TrafficInv, FileInv
  <2>4. file' # Absent
    BY <1>3 DEF Absent
  <2>5. ProcessInv' /\ CallInv'
    BY <1>1, <1>2, <2>4 DEF Inv, ProcessInv, CallInv, Ended
  <2> QED BY <2>3, <2>5 DEF Inv
<1> QED BY <1>5, <1>6

\* The call ends.
LEMMA FinishInv ==
  ASSUME Inv, Finish
  PROVE  Inv'
<1>1. /\ phase = "waiting" /\ locust \in Gone /\ UNCHANGED <<locust, traffic, saved, verdict>>
      /\ phase' \in Ended
  BY DEF Finish, RaisePerfRunError, ReturnResult, RaiseStopIteration, Reaped, Gone, Ended
<1>2. TrafficInv' /\ verdict = NoVerdict
  BY <1>1 DEF Inv, TrafficInv, CallInv
<1>3. CASE RaisePerfRunError
  <2>1. file = Absent /\ file' = file /\ phase' = "PerfRunError" /\ result' = result
    BY <1>3, FileFacts DEF RaisePerfRunError
  <2>2. traffic = <<>> /\ ~Whole
    BY <1>1, <2>1 DEF Inv, ProcessInv, Whole, Absent
  <2>3. FileInv' /\ ProcessInv'
    BY <1>1, <2>1, <2>2 DEF Inv, FileInv, ProcessInv, Ended, Phases, Gone
  <2>4. CallInv'
    BY <1>1, <1>2, <2>1, <2>2 DEF CallInv, Inv, ProcessInv, Ended
  <2> QED BY <1>2, <2>3, <2>4 DEF Inv
<1>4. CASE ReturnResult
  <2>1. /\ Whole /\ file' = Absent /\ phase' = "returned" /\ result' = FromCsv(file.rows)
    BY <1>4, FileFacts DEF ReturnResult
  <2>2. file.rows = Statistics(saved) /\ file # Absent
    BY <2>1 DEF Whole, Absent
  <2>3. FileInv' /\ ProcessInv'
    BY <1>1, <2>1, <2>2 DEF Inv, FileInv, ProcessInv, Ended, Phases, Gone
  <2>4. CallInv'
    BY <1>1, <1>2, <2>1, <2>2 DEF CallInv, Inv, ProcessInv, Ended
  <2> QED BY <1>2, <2>3, <2>4 DEF Inv
<1>5. CASE RaiseStopIteration
  <2>1. /\ ~Whole /\ file # Absent /\ file' = Absent /\ phase' = "StopIteration"
        /\ result' = result
    BY <1>5, FileFacts DEF RaiseStopIteration
  <2>2. FileInv' /\ ProcessInv'
    BY <1>1, <2>1 DEF Inv, FileInv, ProcessInv, Ended, Phases, Gone
  <2>3. CallInv'
    BY <1>1, <1>2, <2>1 DEF CallInv, Inv, ProcessInv, Ended, Gone
  <2> QED BY <1>2, <2>2, <2>3 DEF Inv
<1> QED BY <1>3, <1>4, <1>5 DEF Finish

\* The gate is asked once, of a result.
LEMMA GateInv ==
  ASSUME Inv, NEW slo \in Slos, Gate(slo)
  PROVE  Inv'
<1>1. /\ phase = "returned" /\ verdict' = [outcome |-> MeetsSlo(result, slo), slo |-> slo]
      /\ UNCHANGED <<locust, traffic, file, saved, phase, result>>
  BY DEF Gate
<1>2. TrafficInv' /\ FileInv' /\ ProcessInv'
  BY <1>1 DEF Inv, TrafficInv, FileInv, ProcessInv, Whole, CutOff
<1>3. verdict'.slo = slo /\ verdict'.outcome = MeetsSlo(result, slo)
  BY <1>1
<1>4. MeetsSlo(result, slo)' = MeetsSlo(result, slo)
  BY <1>1 DEF MeetsSlo, Named, Subject
<1>5. CallInv'
  BY <1>1, <1>3 DEF CallInv, Inv
<1> QED BY <1>2, <1>5 DEF Inv

\* Before the call there is nothing.
LEMMA InitInv ==
  ASSUME Init
  PROVE  Inv
<1>1. TrafficInv
  <2>1. <<>> \in Seq(Hit) /\ Len(<<>>) = 0 /\ IsPrefix(<<>>, <<>>)
    BY DEF IsPrefix
  <2> QED BY <2>1, BoundAssumption DEF Init, TrafficInv
<1>2. FileInv /\ ProcessInv /\ CallInv
  BY DEF Init, FileInv, ProcessInv, CallInv, Processes, Phases, Ended
<1> QED BY <1>1, <1>2 DEF Inv

\* Every step keeps the invariant.
LEMMA NextInv ==
  ASSUME Inv, [Next]_vars
  PROVE  Inv'
<1>1. CASE Run \/ CannotRun \/ Complete \/ Kill
  BY <1>1, ProcessSteps
<1>2. CASE Finish
  BY <1>2, FinishInv
<1>3. CASE \E slo \in Slos : Gate(slo)
  BY <1>3, GateInv
<1>4. CASE OpenStatistics
  BY <1>4, OpenInv
<1>5. CASE \E h \in Hit : SendRequest(h)
  BY <1>5, SendInv
<1>6. CASE \E n \in 0..(Len(Endpoints) + 1) : WriteStatistics(n)
  BY <1>6, WriteInv
<1>7. CASE UNCHANGED vars
  BY <1>7 DEF vars, Inv, TrafficInv, FileInv, ProcessInv, CallInv, Whole, CutOff
<1> QED BY <1>1, <1>2, <1>3, <1>4, <1>5, <1>6, <1>7 DEF Next

\* The invariant holds of every run.
THEOREM Invariance == Spec => []Inv
<1>1. Init => Inv
  BY InitInv
<1>2. Inv /\ [Next]_vars => Inv'
  BY NextInv
<1> QED BY <1>1, <1>2, PTL DEF Spec

-----------------------------------------------------------------------------
(* What the call and the gate say *)

\* The positions of an entry's requests, and those an SLO is about, are places of
\* the traffic that was saved.
LEMMA PlacesTyped ==
  ASSUME NEW hits \in Seq(Hit)
  PROVE  /\ Len(hits) \in Nat /\ DOMAIN hits = 1..Len(hits)
         /\ \A i : Of(i, hits) \in SUBSET DOMAIN hits
         /\ \A k \in DOMAIN hits : hits[k].endpoint \in 1..N
<1>1. \A k \in DOMAIN hits : hits[k] \in Hit
  BY ElementFact
<1>2. DOMAIN Endpoints = 1..N
  BY EndpointsAssumption DEF N
<1> QED BY <1>1, <1>2 DEF Of, Hit

\* The statistics of a result count the requests that were saved.
LEMMA ResultFacts ==
  ASSUME Inv, phase = "returned"
  PROVE  /\ DOMAIN result.endpoints = 1..N
         /\ \A i \in 1..N : LET r == result.endpoints[i] IN
              /\ Counts(r, Endpoints[i].name, saved, Of(i, saved))
              /\ Slowest(r, saved, Of(i, saved)) /\ r.p95 \in Times \cup {0}
         /\ Counts(result.aggregate, "Aggregated", saved, DOMAIN saved)
         /\ Slowest(result.aggregate, saved, DOMAIN saved)
         /\ result.aggregate.p95 \in Times \cup {0}
<1>1. saved \in Seq(Hit) /\ result = FromCsv(Statistics(saved))
  BY DEF Inv, TrafficInv, CallInv
<1>2. /\ DOMAIN result.endpoints = 1..N
      /\ \A i \in 1..N : result.endpoints[i]
                           = FromCsvRow(Row(Endpoints[i].name, saved, Of(i, saved)))
      /\ result.aggregate = FromCsvRow(Row("Aggregated", saved, DOMAIN saved))
  BY <1>1, ParsedFile
<1>3. ASSUME NEW i \in 1..N
      PROVE  LET r == result.endpoints[i] IN
              /\ Counts(r, Endpoints[i].name, saved, Of(i, saved))
              /\ Slowest(r, saved, Of(i, saved)) /\ r.p95 \in Times \cup {0}
  BY <1>1, <1>2, PlacesTyped, ParsedRow
<1>4. /\ Counts(result.aggregate, "Aggregated", saved, DOMAIN saved)
      /\ Slowest(result.aggregate, saved, DOMAIN saved)
      /\ result.aggregate.p95 \in Times \cup {0}
  BY <1>1, <1>2, ParsedRow
<1> QED BY <1>2, <1>3, <1>4

\* Every variable keeps its type, the numbers of a result included.
THEOREM TypeCorrect == Spec => []TypeOK
<1>1. ASSUME Inv
      PROVE  TypeOK
  <2>1. file.exists \in BOOLEAN
    BY <1>1, FileFacts
  <2>2. verdict.outcome \in {"none", "met", "violated", "KeyError"}
    BY <1>1 DEF Inv, CallInv, NoVerdict, MeetsSlo
  <2>3. ASSUME phase = "returned", NEW s \in Range(result.endpoints) \cup {result.aggregate}
        PROVE  s.requests \in 0..MaxHits /\ s.failures \in 0..s.requests
               /\ s.p95 \in Times \cup {0}
    <3>1. Len(saved) \in Nat /\ Len(saved) <= MaxHits
      <4>1. Len(saved) \in Nat /\ Len(traffic) \in Nat /\ Len(traffic) <= MaxHits
        BY <1>1 DEF Inv, TrafficInv
      <4>2. Len(saved) <= Len(traffic)
        BY <1>1 DEF Inv, TrafficInv, IsPrefix
      <4> QED BY <4>1, <4>2, BoundAssumption
    <3>2. \E name, of : Counts(s, name, saved, of) /\ s.p95 \in Times \cup {0}
      <4>1. CASE s \in Range(result.endpoints)
        <5>1. PICK i \in 1..N : s = result.endpoints[i]
          BY <1>1, <2>3, <4>1, ResultFacts DEF Range
        <5> QED BY <1>1, <2>3, <5>1, ResultFacts
      <4>2. CASE s = result.aggregate
        BY <1>1, <2>3, <4>2, ResultFacts
      <4> QED BY <2>3, <4>1, <4>2
    <3>3. PICK name, of : Counts(s, name, saved, of) /\ s.p95 \in Times \cup {0}
      BY <3>2
    <3>4. s.requests \in 0..Len(saved) /\ s.failures \in 0..s.requests
      BY <3>3 DEF Counts
    <3> QED BY <3>1, <3>3, <3>4, BoundAssumption
  <2> QED BY <1>1, <2>1, <2>2, <2>3 DEF Inv, TrafficInv, ProcessInv, TypeOK
<1> QED BY <1>1, Invariance, PTL

\* The call raises, or returns a result that counts the requests saved, as the run of
\* Locust ended.
THEOREM CallEndsAsRun == Spec => []OutcomeMatchesRun
<1>1. ASSUME Inv
      PROVE  OutcomeMatchesRun
  <2>1. /\ phase = "PerfRunError" => traffic = <<>>
        /\ phase = "StopIteration" => locust = "killed"
    BY <1>1 DEF Inv, CallInv
  <2>2. /\ phase \in Ended /\ locust = "completed" => phase = "returned"
        /\ phase \in Ended /\ locust = "unable" => phase = "PerfRunError"
    BY <1>1 DEF Inv, CallInv, Ended
  <2>3. ASSUME phase = "returned"
        PROVE  /\ result.aggregate.requests = Len(saved)
               /\ \A i \in DOMAIN Endpoints :
                    result.endpoints[i].requests = Cardinality(Of(i, saved))
    <3>1. /\ result.aggregate.requests = Cardinality(DOMAIN saved)
          /\ \A i \in 1..N : result.endpoints[i].requests = Cardinality(Of(i, saved))
      BY <1>1, <2>3, ResultFacts DEF Counts
    <3>2. DOMAIN Endpoints = 1..N
      BY EndpointsAssumption DEF N
    <3>3. Cardinality(DOMAIN saved) = Len(saved)
      <4>1. Len(saved) \in Nat /\ DOMAIN saved = 1..Len(saved)
        BY <1>1, PlacesTyped DEF Inv, TrafficInv
      <4>2. 1 \in Int /\ Len(saved) \in Int
        BY <4>1
      <4>3. Cardinality(1..Len(saved)) = IF 1 > Len(saved) THEN 0 ELSE Len(saved) - 1 + 1
        BY <4>2, FS_Interval
      <4> QED BY <4>1, <4>3
    <3> QED BY <3>1, <3>2, <3>3
  <2> QED BY <2>1, <2>2, <2>3 DEF OutcomeMatchesRun
<1> QED BY <1>1, Invariance, PTL

\* The requests that an SLO is about are those of the row it looks at.
LEMMA SubjectFacts ==
  ASSUME Inv, phase = "returned", NEW slo \in Slos, \A name \in slo.endpoint : NamedOnce(name),
         slo.endpoint = {} \/ Named(result, slo) # {}
  PROVE  LET r == Subject(result, slo) IN
         \E name : Counts(r, name, saved, Concerned(slo)) /\ Slowest(r, saved, Concerned(slo))
<1>1. saved \in Seq(Hit)
  BY DEF Inv, TrafficInv
<1>2. CASE slo.endpoint = {}
  <2>1. Concerned(slo) = DOMAIN saved /\ Subject(result, slo) = result.aggregate
    BY <1>2 DEF Concerned, Subject
  <2> QED BY <2>1, ResultFacts
<1>3. CASE slo.endpoint # {}
  <2>1. PICK i \in DOMAIN result.endpoints : result.endpoints[i].name \in slo.endpoint
    BY <1>3 DEF Named
  <2> DEFINE name == Endpoints[i].name
  <2>2. i \in 1..N /\ \A j \in 1..N : result.endpoints[j].name = Endpoints[j].name
    BY <2>1, ResultFacts DEF Counts
  <2>3. slo.endpoint = {name}
    BY <2>1, <2>2, SlosAssumption
  <2>4. DOMAIN Endpoints = 1..N
    BY EndpointsAssumption DEF N
  <2>5. \A j \in 1..N : Endpoints[j].name = name => j = i
    <3> DEFINE E == {j \in DOMAIN Endpoints : Endpoints[j].name = name}
    <3>1. Cardinality(E) = 1
      BY <2>3 DEF NamedOnce
    <3>2. IsFiniteSet(E)
      <4>1. 1 \in Int /\ N \in Int
        BY EndpointsAssumption DEF N
      <4>2. IsFiniteSet(1..N)
        BY <4>1, FS_Interval
      <4>3. E \in SUBSET (1..N)
        BY <2>4
      <4> QED BY <4>2, <4>3, FS_Subset
    <3>3. PICK x : E = {x}
      <4> HIDE DEF E
      <4> QED BY <3>1, <3>2, FS_Singleton
    <3>4. i \in E
      BY <2>2, <2>4
    <3> QED BY <2>4, <3>3, <3>4
  <2>6. Named(result, slo) = {i}
    BY <2>2, <2>3, <2>5, ResultFacts DEF Named
  <2>7. Subject(result, slo) = result.endpoints[i]
    <3>1. Min({i}) = i
      BY <2>2, EndpointsAssumption DEF Min, N
    <3> QED BY <1>3, <2>6, <3>1 DEF Subject
  <2>8. Concerned(slo) = Of(i, saved)
    <3>1. \A k \in DOMAIN saved : saved[k].endpoint \in 1..N
      BY <1>1, PlacesTyped
    <3>2. \A k \in DOMAIN saved :
            Endpoints[saved[k].endpoint].name = name <=> saved[k].endpoint = i
      <4> HIDE DEF name
      <4> QED BY <2>5, <3>1 DEF name
    <3> HIDE DEF name
    <3> QED BY <1>3, <2>3, <3>2 DEF Concerned, Of
  <2> QED BY <2>2, <2>7, <2>8, ResultFacts
<1> QED BY <1>2, <1>3

\* What an SLO of a row comes to.
LEMMA VerdictFacts ==
  ASSUME NEW r, NEW name, NEW of, Counts(r, name, saved, of), Slowest(r, saved, of),
         Len(saved) \in Nat, NEW slo \in Slos
  PROVE  Violations(r, slo) <=>
           \/ \E percent \in slo.ratio : Cardinality(Bad(saved, of)) * 100 > percent * Cardinality(of)
           \/ \E ms \in slo.p95 : \E k \in of : saved[k].ms > ms
<1>1. slo.ratio \subseteq Nat /\ slo.p95 \subseteq Nat
  BY SlosAssumption
<1>2. /\ r.requests = Cardinality(of) /\ r.failures = Cardinality(Bad(saved, of))
      /\ Cardinality(of) \in Nat /\ Cardinality(Bad(saved, of)) \in 0..Cardinality(of)
  BY DEF Counts
<1>3. \A percent \in Nat :
        RatioExceeds(r, percent)
          <=> Cardinality(Bad(saved, of)) * 100 > percent * Cardinality(of)
  <2> SUFFICES ASSUME NEW percent \in Nat
               PROVE  RatioExceeds(r, percent)
                        <=> Cardinality(Bad(saved, of)) * 100 > percent * Cardinality(of)
    OBVIOUS
  <2>1. RatioExceeds(r, percent) <=>
          Cardinality(of) # 0 /\ Cardinality(Bad(saved, of)) * 100 > percent * Cardinality(of)
    BY <1>2 DEF RatioExceeds
  <2>2. ASSUME Cardinality(of) = 0
        PROVE  ~(Cardinality(Bad(saved, of)) * 100 > percent * Cardinality(of))
    <3>1. Cardinality(Bad(saved, of)) = 0
      BY <1>2, <2>2
    <3> QED BY <2>2, <3>1
  <2> QED BY <2>1, <2>2
<1>4. \A ms \in slo.p95 : r.p95 > ms <=> \E k \in of : saved[k].ms > ms
  BY <1>1 DEF Slowest
<1> QED BY <1>1, <1>3, <1>4 DEF Violations

\* An unknown endpoint is an error, and a verdict that of the requests themselves.
THEOREM GateIsRight == Spec => []GateMatchesTraffic
<1>1. ASSUME Inv
      PROVE  GateMatchesTraffic
  <2> DEFINE slo == verdict.slo
             hits == Concerned(slo)
  <2>1. CASE verdict = NoVerdict
    BY <2>1 DEF NoVerdict, GateMatchesTraffic
  <2>2. CASE verdict # NoVerdict
    <3>1. /\ phase = "returned" /\ slo \in Slos /\ verdict.outcome = MeetsSlo(result, slo)
      BY <1>1, <2>2 DEF Inv, CallInv
    <3>2. Named(result, slo) = {} <=> slo.endpoint \cap Names = {}
      <4>1. /\ DOMAIN result.endpoints = 1..N
            /\ \A i \in 1..N : result.endpoints[i].name = Endpoints[i].name
        BY <1>1, <3>1, ResultFacts DEF Counts
      <4>2. DOMAIN Endpoints = 1..N
        BY EndpointsAssumption DEF N
      <4> HIDE DEF slo
      <4> QED BY <4>1, <4>2 DEF Named, Names
    <3>3. slo.endpoint # {} /\ slo.endpoint \cap Names = {} <=> ~(slo.endpoint \subseteq Names)
      BY <3>1, SlosAssumption
    <3>4. /\ verdict.outcome # "none"
          /\ verdict.outcome = "KeyError" <=> ~(slo.endpoint \subseteq Names)
      BY <3>1, <3>2, <3>3 DEF MeetsSlo
    <3>5. ASSUME verdict.outcome \in {"met", "violated"}, \A name \in slo.endpoint : NamedOnce(name)
          PROVE  verdict.outcome = "violated" <=>
            \/ \E percent \in slo.ratio :
                 Cardinality({k \in hits : ~saved[k].ok}) * 100 > percent * Cardinality(hits)
            \/ \E ms \in slo.p95 : \E k \in hits : saved[k].ms > ms
      <4>1. slo.endpoint = {} \/ Named(result, slo) # {}
        BY <3>1, <3>5 DEF MeetsSlo
      <4>2. verdict.outcome = "violated" <=> Violations(Subject(result, slo), slo)
        BY <3>1, <3>5, <4>1 DEF MeetsSlo
      <4>3. PICK name : /\ Counts(Subject(result, slo), name, saved, hits)
                        /\ Slowest(Subject(result, slo), saved, hits)
        BY <1>1, <3>1, <3>5, <4>1, SubjectFacts
      <4>4. Len(saved) \in Nat
        BY <1>1 DEF Inv, TrafficInv
      <4> HIDE DEF slo, hits
      <4>5. Violations(Subject(result, slo), slo) <=>
              \/ \E percent \in slo.ratio :
                   Cardinality(Bad(saved, hits)) * 100 > percent * Cardinality(hits)
              \/ \E ms \in slo.p95 : \E k \in hits : saved[k].ms > ms
        BY <3>1, <4>3, <4>4, VerdictFacts
      <4> QED BY <4>2, <4>5 DEF Bad
    <3> QED BY <3>4, <3>5 DEF GateMatchesTraffic
  <2> QED BY <2>1, <2>2
<1> QED BY <1>1, Invariance, PTL
=============================================================================
