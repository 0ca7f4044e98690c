-------------------------------- MODULE PerfRun --------------------------------
(***************************************************************************)
(* PerfAgent.run (perf/agent.py) and meets_slo (assertions/extensions.py). *)
(* Locust is a subprocess (external): it sends requests, rewrites its      *)
(* statistics file again and again, and ends by itself, is killed at any   *)
(* point, a rewrite included, or never ends.                               *)
(***************************************************************************)
EXTENDS Naturals, FiniteSetsExt, SequencesExt

CONSTANTS Endpoints,  \* the entries of the locustfile, records with a name, as listed
          Slos,       \* what the scenario may ask for: an endpoint, a ratio in
                      \* percent and a time in ms, sets of one value or of none
          MaxHits     \* bound: requests of a run

VARIABLES
  locust,   \* the subprocess: see Processes
  traffic,  \* requests so far: their endpoint, success and response time
  file,     \* the rows of the statistics file, after a header unless "absent"
  saved,    \* history: the traffic a complete file was last written from
  phase,    \* the call: see Phases
  result,   \* the parsed rows: endpoints by their place, and the aggregate apart
  verdict   \* of meets_slo on the result, and the SLO it was asked for

vars == <<locust, traffic, file, saved, phase, result, verdict>>

Processes == {"none", "starting", "running", "unable", "completed", "killed"}
Ended == {"returned", "PerfRunError", "StopIteration"}
Phases == Ended \cup {"idle", "waiting"}

\* Response times in ms; NA is what Locust writes for a row without requests.
Times == 1..2
NA == 99

Hit == [endpoint : DOMAIN Endpoints, ok : BOOLEAN, ms : Times]
Names == {Endpoints[i].name : i \in DOMAIN Endpoints}

\* No entry takes the name of the aggregate, which the parser could not tell apart.
ASSUME EndpointsAssumption ==
  Len(Endpoints) \in Nat /\ DOMAIN Endpoints = 1..Len(Endpoints) /\ "Aggregated" \notin Names
ASSUME SlosAssumption ==
  \A slo \in Slos : /\ slo.ratio \subseteq Nat /\ slo.p95 \subseteq Nat
                   /\ \A x, y \in slo.endpoint : x = y
ASSUME BoundAssumption == MaxHits \in Nat

NoVerdict == [outcome |-> "none", slo |-> [endpoint |-> {}, ratio |-> {}, p95 |-> {}]]

-----------------------------------------------------------------------------
(* Locust's statistics *)

\* The row of the requests at the places "of".  With fewer than twenty of them the
\* 95th percentile is the slowest.
Row(name, hits, of) ==
  [name |-> name, requests |-> Cardinality(of),
   failures |-> Cardinality({k \in of : ~hits[k].ok}),
   p95 |-> IF of = {} THEN NA ELSE Max({hits[k].ms : k \in of})]

Of(i, hits) == {k \in DOMAIN hits : hits[k].endpoint = i}

Statistics(hits) ==
  [i \in DOMAIN Endpoints |-> Row(Endpoints[i].name, hits, Of(i, hits))]
    \o <<Row("Aggregated", hits, DOMAIN hits)>>

-----------------------------------------------------------------------------
(* PerfEndpointStats, PerfResult, meets_slo *)

\* Mutant: float("N/A") is not caught.
AsFloatUnguarded(v) == v

AsFloat(v) == IF v = NA THEN 0 ELSE v

FromCsvRow(row) == [row EXCEPT !.p95 = AsFloat(@)]

IsAggregated(row) == row.name = "Aggregated"

\* Mutant: the first row is the aggregate.
FromCsvFirstRow(rows) ==
  [endpoints |-> [k \in DOMAIN rows |-> FromCsvRow(rows[k])], aggregate |-> FromCsvRow(Head(rows))]

\* next() takes the first aggregate.
FromCsv(rows) ==
  LET aggregates == {k \in DOMAIN rows : IsAggregated(rows[k])} IN
  [endpoints |-> [k \in DOMAIN rows \ aggregates |-> FromCsvRow(rows[k])],
   aggregate |-> FromCsvRow(rows[Min(aggregates)])]

NoResult == [endpoints |-> <<>>, aggregate |-> Row("Aggregated", <<>>, {})]

\* failure_ratio, 0 without requests, against a bound in percent.
RatioExceeds(stats, percent) ==
  stats.requests # 0 /\ stats.failures * 100 > percent * stats.requests

Violations(stats, slo) ==
  \/ \E percent \in slo.ratio : RatioExceeds(stats, percent)
  \/ \E ms \in slo.p95 : stats.p95 > ms

\* PerfResult.endpoint takes the first row of the name, or raises KeyError.
Named(r, slo) == {k \in DOMAIN r.endpoints : r.endpoints[k].name \in slo.endpoint}
Subject(r, slo) ==
  IF slo.endpoint = {} THEN r.aggregate ELSE r.endpoints[Min(Named(r, slo))]

MeetsSlo(r, slo) ==
  IF slo.endpoint # {} /\ Named(r, slo) = {} THEN "KeyError"
  ELSE IF Violations(Subject(r, slo), slo) THEN "violated" ELSE "met"

-----------------------------------------------------------------------------
TypeOK ==
  /\ locust \in Processes /\ phase \in Phases
  /\ traffic \in Seq(Hit) /\ Len(traffic) <= MaxHits
  /\ saved \in Seq(Hit) /\ IsPrefix(saved, traffic)
  /\ file.exists \in BOOLEAN
  /\ phase = "returned" =>
       \A s \in Range(result.endpoints) \cup {result.aggregate} :
         s.requests \in 0..MaxHits /\ s.failures \in 0..s.requests /\ s.p95 \in Times \cup {0}
  /\ verdict.outcome \in {"none", "met", "violated", "KeyError"}

Absent == [exists |-> FALSE, rows |-> <<>>]

Init ==
  /\ locust = "none" /\ phase = "idle" /\ traffic = <<>> /\ saved = <<>>
  /\ file = Absent /\ result = NoResult /\ verdict = NoVerdict

\* PerfAgent.run up to subprocess.run.
Run ==
  /\ phase = "idle"
  /\ phase' = "waiting" /\ locust' = "starting"
  /\ UNCHANGED <<traffic, file, saved, result, verdict>>

\* Mutant: the call waits for a Locust that succeeds.
ReapOnSuccess == phase = "waiting" /\ locust = "completed"

\* subprocess.run returned: the exit code is not looked at, and the temporary
\* directory is removed on every way out.
Reaped == phase = "waiting" /\ locust \in {"unable", "completed", "killed"}

RaisePerfRunError ==
  /\ Reaped /\ ~file.exists
  /\ phase' = "PerfRunError"
  /\ UNCHANGED <<locust, traffic, file, saved, result, verdict>>

\* Mutant: check=True, so that Locust's exit code for failed requests raises.
ReturnResultChecked ==
  /\ Reaped /\ \E row \in Range(file.rows) : IsAggregated(row)
  /\ IF \E k \in DOMAIN traffic : ~traffic[k].ok
     THEN phase' = "PerfRunError" /\ result' = result
     ELSE phase' = "returned" /\ result' = FromCsv(file.rows)
  /\ file' = Absent
  /\ UNCHANGED <<locust, traffic, saved, verdict>>

ReturnResult ==
  /\ Reaped /\ \E row \in Range(file.rows) : IsAggregated(row)
  /\ phase' = "returned" /\ result' = FromCsv(file.rows)
  /\ file' = Absent
  /\ UNCHANGED <<locust, traffic, saved, verdict>>

\* next() over the rows finds no aggregate.
RaiseStopIteration ==
  /\ Reaped /\ file.exists /\ ~ \E row \in Range(file.rows) : IsAggregated(row)
  /\ phase' = "StopIteration" /\ file' = Absent
  /\ UNCHANGED <<locust, traffic, saved, result, verdict>>

\* assert_that(result).meets_slo(...)
Gate(slo) ==
  /\ phase = "returned" /\ verdict.outcome = "none"
  /\ verdict' = [outcome |-> MeetsSlo(result, slo), slo |-> slo]
  /\ UNCHANGED <<locust, traffic, file, saved, phase, result>>

-----------------------------------------------------------------------------
(* Locust (external) *)

\* A bad path, a syntax error, no Locust: it exits before the file is opened.
CannotRun ==
  /\ locust = "starting" /\ locust' = "unable"
  /\ UNCHANGED <<traffic, file, saved, phase, result, verdict>>

OpenStatistics ==
  /\ locust = "starting" /\ locust' = "running"
  /\ file' = [exists |-> TRUE, rows |-> <<>>]
  /\ UNCHANGED <<traffic, saved, phase, result, verdict>>

SendRequest(h) ==
  /\ locust = "running" /\ Len(traffic) < MaxHits
  /\ traffic' = Append(traffic, h)
  /\ UNCHANGED <<locust, file, saved, phase, result, verdict>>

\* The first n rows reach the file, all of them in the end.
WriteStatistics(n) ==
  /\ locust = "running"
  /\ file' = [file EXCEPT !.rows = SubSeq(Statistics(traffic), 1, n)]
  /\ saved' = IF n = Len(Endpoints) + 1 THEN traffic ELSE saved
  /\ UNCHANGED <<locust, traffic, phase, result, verdict>>

\* It ends after --run-time, with a complete file.
Complete ==
  /\ locust = "running" /\ Len(file.rows) = Len(Endpoints) + 1
  /\ locust' = "completed"
  /\ UNCHANGED <<traffic, file, saved, phase, result, verdict>>

Kill ==
  /\ locust \in {"starting", "running"} /\ locust' = "killed"
  /\ UNCHANGED <<traffic, file, saved, phase, result, verdict>>

Finish == RaisePerfRunError \/ ReturnResult \/ RaiseStopIteration

Next ==
  \/ Run \/ Finish
  \/ \E slo \in Slos : Gate(slo)
  \/ CannotRun \/ OpenStatistics \/ Complete \/ Kill
  \/ \E h \in Hit : SendRequest(h)
  \/ \E n \in 0..(Len(Endpoints) + 1) : WriteStatistics(n)

Spec == Init /\ [][Next]_vars

\* subprocess.run returns once the process is gone.  Locust owes nothing: the
\* call has no timeout.
FairSpec == Spec /\ WF_vars(Finish)
-----------------------------------------------------------------------------
(* Properties *)

\* PerfRunError means that nothing was sent; a Locust that ran to its end, with
\* failed requests or not, gives a result that counts each request written to
\* the file, at its entry and in the aggregate; only one that was killed while writing ends in StopIteration.
OutcomeMatchesRun ==
  /\ phase = "PerfRunError" => traffic = <<>>
  /\ phase \in Ended /\ locust = "completed" => phase = "returned"
  /\ phase \in Ended /\ locust = "unable" => phase = "PerfRunError"
  /\ phase = "StopIteration" => locust = "killed"
  /\ phase = "returned" =>
       /\ result.aggregate.requests = Len(saved)
       /\ \A i \in DOMAIN Endpoints : result.endpoints[i].requests = Cardinality(Of(i, saved))

\* A name that two methods share selects the first of them only.
NamedOnce(name) == Cardinality({i \in DOMAIN Endpoints : Endpoints[i].name = name}) = 1

\* The requests an SLO is about, by their place.
Concerned(slo) ==
  {k \in DOMAIN saved :
     slo.endpoint = {} \/ Endpoints[saved[k].endpoint].name \in slo.endpoint}

\* The verdict is that of the requests themselves: an SLO is violated exactly if
\* more of them failed than allowed, or one in twenty was too slow; without any
\* request it is met.  An unknown endpoint is an error and not a pass.
GateMatchesTraffic ==
  LET slo == verdict.slo
      hits == Concerned(slo)
      failed == {k \in hits : ~saved[k].ok} IN
  /\ verdict.outcome = "KeyError" <=> verdict.outcome # "none" /\ ~ (slo.endpoint \subseteq Names)
  /\ verdict.outcome \in {"met", "violated"} /\ (\A name \in slo.endpoint : NamedOnce(name)) =>
       (verdict.outcome = "violated" <=>
          \/ \E percent \in slo.ratio : Cardinality(failed) * 100 > percent * Cardinality(hits)
          \/ \E ms \in slo.p95 : \E k \in hits : saved[k].ms > ms)

\* The call ends as soon as Locust does, however that was.
CallEndsWithLocust ==
  (phase = "waiting" /\ locust \in {"unable", "completed", "killed"}) ~> (phase \in Ended)
=============================================================================
