---------------------------- MODULE RemoteCalls ----------------------------
(***************************************************************************)
(* What the author of a scenario may assume of a synchronous call to a     *)
(* remote service, whatever the network does.  Calls are made one after    *)
(* the other.  A call marked "once" takes effect at most once, and never   *)
(* again after it has returned; any other call takes effect at most        *)
(* MaxTries times.  A call returns only after an effect; a call that       *)
(* raises says nothing: its effect may be missing, past or still to come.  *)
(***************************************************************************)
EXTENDS Naturals, Sequences

CONSTANTS MaxCalls,  \* calls of a scenario
          MaxTries   \* effects a call that is not "once" may have

VARIABLES once,     \* once[i]: the i-th call has at most one effect
          results,  \* results of the ended calls: "ok" or "raised"
          effects   \* <<i, k>>: the k-th try of call i took effect

vars == <<once, results, effects>>

Ended(i) == i <= Len(results)
Effects(i) == {e \in effects : e[1] = i}

Init == once = <<>> /\ results = <<>> /\ effects = {}

Begin(o) ==
  /\ Len(once) = Len(results)
  /\ Len(once) < MaxCalls
  /\ once' = Append(once, o)
  /\ UNCHANGED <<results, effects>>

TakeEffect(i, k) ==
  /\ <<i, k>> \notin effects
  /\ once[i] => Effects(i) = {} /\ ~(Ended(i) /\ results[i] = "ok")
  /\ effects' = effects \cup {<<i, k>>}
  /\ UNCHANGED <<once, results>>

Return ==
  /\ Len(results) < Len(once)
  /\ Effects(Len(once)) # {}
  /\ results' = Append(results, "ok")
  /\ UNCHANGED <<once, effects>>

Raise ==
  /\ Len(results) < Len(once)
  /\ results' = Append(results, "raised")
  /\ UNCHANGED <<once, effects>>

Next ==
  \/ \E o \in BOOLEAN : Begin(o)
  \/ \E i \in 1..Len(once), k \in 1..MaxTries : TakeEffect(i, k)
  \/ Return
  \/ Raise

Spec == Init /\ [][Next]_vars
=============================================================================
