----------------------------- MODULE Reconcile -----------------------------
(***************************************************************************)
(* reconciliation/agent.py: reconcile() compares two datasets by key.  A   *)
(* dataset is a set of rows told apart by their position, so that two rows *)
(* may have the same key or the same cells.  The operators follow the      *)
(* polars expressions: a full outer join in which null keys never meet, a  *)
(* match expression per common column in three-valued (Kleene) logic, and  *)
(* filters that keep a row only when their condition is true.              *)
(***************************************************************************)
EXTENDS Integers, FiniteSets

CONSTANTS Keys,        \* key values, Null among them if the datasets have such
          Columns,     \* the columns beside the key
          Cells,       \* Cells[c]: the values column c may hold, numbers or Null
          OptionSets,  \* the arguments compare() is called with
          MaxRows,     \* bound: rows of a dataset
          Null         \* the missing value

Sides == {"left", "right"}

\* columns: of each dataset; ignore, compare: the column lists of the call
\* (compare_columns=None is Columns); tolerance: of each column, Null if it has
\* none; nocase: the case-insensitive ones; keysOk: the key columns are in both
\* datasets with equal types.
Options == [columns : [Sides -> SUBSET Columns], ignore : SUBSET Columns,
            compare : SUBSET Columns, tolerance : [Columns -> Nat \cup {Null}],
            nocase : SUBSET Columns, keysOk : BOOLEAN]

ASSUME OptionsAssumption == OptionSets \subseteq Options
ASSUME BoundsAssumption == MaxRows \in Nat
ASSUME NullAssumption == Null \notin Int
ASSUME CellsAssumption == \A c \in Columns : Cells[c] \subseteq Int \cup {Null}

Row == [pos : 1..MaxRows, key : Keys, cell : [Columns -> UNION {Cells[c] : c \in Columns}]]

VARIABLES
  data,    \* data[s]: the rows loaded for side s
  opts,    \* the arguments of the call
  outcome, \* "pending" before the call, then "raised" or "returned"
  result   \* the ReconciliationResult returned

vars == <<data, opts, outcome, result>>

-----------------------------------------------------------------------------
(* Kleene logic; "null" is polars' missing Boolean. *)

Truth == {"true", "false", "null"}
Decide(b) == IF b THEN "true" ELSE "false"
KleeneOr(a, b) ==
  IF "true" \in {a, b} THEN "true" ELSE IF "null" \in {a, b} THEN "null" ELSE "false"
KleeneAll(S) ==
  IF "false" \in S THEN "false" ELSE IF "null" \in S THEN "null" ELSE "true"

-----------------------------------------------------------------------------
(* reconcile() *)

\* str.to_lowercase: 2n and 2n + 1 stand for a word in lower and in upper case.
Lower(x) == IF x = Null THEN Null ELSE x - (x % 2)

Toleranced(o) == {c \in Columns : o.tolerance[c] # Null}

CommonColumns(o) ==
  ((o.columns["left"] \cap o.columns["right"]) \ o.ignore) \cap o.compare

\* |l - r| <= tol, missing when an operand is.
\* Mutants: no absolute value; a strict bound.
WithinTolOneSided(l, r, tol) == IF Null \in {l, r} THEN "null" ELSE Decide(l - r <= tol)
WithinTolStrict(l, r, tol) ==
  IF Null \in {l, r} THEN "null"
  ELSE Decide((IF l < r THEN r - l ELSE l - r) < tol)
WithinTol(l, r, tol) ==
  IF Null \in {l, r} THEN "null"
  ELSE Decide((IF l < r THEN r - l ELSE l - r) <= tol)

\* The match expression of column c.  eq_missing takes two nulls for equal.
Match(o, c, l, r) ==
  IF c \in Toleranced(o)
  THEN KleeneOr(Decide(l = Null /\ r = Null), WithinTol(l, r, o.tolerance[c]))
  ELSE IF c \in o.nocase THEN Decide(Lower(l) = Lower(r))
  ELSE Decide(l = r)

\* Mutant: a join on which null keys meet.
JoinedNullsEqual(d) == {p \in d["left"] \X d["right"] : p[1].key = p[2].key}

\* The rows of the full join that have both sides.
Joined(d) == {p \in d["left"] \X d["right"] : p[1].key = p[2].key /\ p[1].key # Null}

\* The match of all common columns of a joined pair.
PairMatch(o, p) == KleeneAll({Match(o, c, p[1].cell[c], p[2].cell[c]) : c \in CommonColumns(o)})

\* Mutant: rows without a partner taken from one side only.
UnpairedLeftOnly(d, s) ==
  IF s = "left" THEN {x \in d["left"] : \A p \in Joined(d) : x # p[1]} ELSE {}

\* only_in_left and only_in_right.
Unpaired(d, s) ==
  {x \in d[s] : \A p \in Joined(d) : x # (IF s = "left" THEN p[1] ELSE p[2])}

\* Mutant: a difference looked for between any two rows.
MismatchesAnyRows(o, d) ==
  {m \in [pair : (d["left"] \cup d["right"]) \X d["right"], column : CommonColumns(o)] :
     Match(o, m.column, m.pair[1].cell[m.column], m.pair[2].cell[m.column]) = "false"}

\* The long-format frame: one entry per mismatched row and differing column.
Mismatches(o, d) ==
  {m \in [pair : {p \in Joined(d) : PairMatch(o, p) = "false"}, column : CommonColumns(o)] :
     Match(o, m.column, m.pair[1].cell[m.column], m.pair[2].cell[m.column]) = "false"}

Reconciliation(o, d) ==
  [matched     |-> {p \in Joined(d) : PairMatch(o, p) = "true"},
   onlyInLeft  |-> Unpaired(d, "left"),
   onlyInRight |-> Unpaired(d, "right"),
   mismatches  |-> Mismatches(o, d)]

NoResult == [matched |-> {}, onlyInLeft |-> {}, onlyInRight |-> {}, mismatches |-> {}]

IsReconciled(res) == res.onlyInLeft = {} /\ res.onlyInRight = {} /\ res.mismatches = {}

\* Mutant: every differing field counts as a row.
MismatchedFields(res) == res.mismatches

\* mismatched_row_count: the distinct keys of the mismatches frame.
MismatchedKeys(res) == {m.pair[1].key : m \in res.mismatches}

\* match_rate: matched over total, or 1 if total is 0.
Total(res) == Cardinality(res.matched) + Cardinality(MismatchedKeys(res))
                + Cardinality(res.onlyInLeft) + Cardinality(res.onlyInRight)

-----------------------------------------------------------------------------
Init ==
  /\ data = [s \in Sides |-> {}]
  /\ opts \in OptionSets
  /\ outcome = "pending"
  /\ result = NoResult

\* The loaders (reconciliation/loaders.py) hand over rows of any source.
Load(s, key, cell) ==
  /\ outcome = "pending" /\ Cardinality(data[s]) < MaxRows
  /\ data' = [data EXCEPT ![s] =
       @ \cup {[pos |-> Cardinality(@) + 1, key |-> key, cell |-> cell]}]
  /\ UNCHANGED <<opts, outcome, result>>

Compare ==
  /\ outcome = "pending"
  /\ IF opts.keysOk
     THEN outcome' = "returned" /\ result' = Reconciliation(opts, data)
     ELSE outcome' = "raised" /\ UNCHANGED result
  /\ UNCHANGED <<data, opts>>

LoadAny ==
  \E s \in Sides, key \in Keys :
    \E cell \in {f \in [Columns -> UNION {Cells[c] : c \in Columns}] :
                   \A c \in Columns : f[c] \in Cells[c]} : Load(s, key, cell)

Next == LoadAny \/ Compare

Spec == Init /\ [][Next]_vars

-----------------------------------------------------------------------------
(* Properties *)

Done == outcome = "returned"

TypeOK ==
  /\ data \in [Sides -> SUBSET Row]
  /\ opts \in OptionSets
  /\ outcome \in {"pending", "raised", "returned"}
  /\ result.matched \subseteq data["left"] \X data["right"]
  /\ result.onlyInLeft \subseteq data["left"] /\ result.onlyInRight \subseteq data["right"]
  /\ result.mismatches \subseteq [pair : data["left"] \X data["right"], column : Columns]

\* The reference: what two cells must satisfy to agree under the options.
Agree(c, l, r) ==
  \/ l = r
  \/ /\ Null \notin {l, r}
     /\ \/ c \in Toleranced(opts) /\ l - r \in -opts.tolerance[c]..opts.tolerance[c]
        \/ c \notin Toleranced(opts) /\ c \in opts.nocase /\ Lower(l) = Lower(r)

SameKey(l, r) == l.key = r.key /\ l.key # Null
Partners(s, x) == {y \in data[s] : SameKey(x, y)}

\* Nothing is reported wrongly: a matched pair agrees in every column compared,
\* a reported difference is one, and a row is called unpaired only when no row
\* of the other side has its key, nulls never counting as equal keys.
ReportsAreTrue ==
  Done =>
    /\ \A p \in result.matched :
         SameKey(p[1], p[2]) /\
         \A c \in CommonColumns(opts) : Agree(c, p[1].cell[c], p[2].cell[c])
    /\ \A m \in result.mismatches :
         SameKey(m.pair[1], m.pair[2]) /\
         ~Agree(m.column, m.pair[1].cell[m.column], m.pair[2].cell[m.column])
    /\ \A x \in data["left"] : x \in result.onlyInLeft <=> Partners("right", x) = {}
    /\ \A x \in data["right"] : x \in result.onlyInRight <=> Partners("left", x) = {}

\* A null on exactly one side of a column compared within a tolerance.
OneSidedNull(p) ==
  \E c \in CommonColumns(opts) \cap Toleranced(opts) :
    (p[1].cell[c] = Null) # (p[2].cell[c] = Null)

UniqueKeys == \A s \in Sides : \A x, y \in data[s] : x.key = y.key => x = y

\* Rows of side s that ended up in the buckets "matched" and "mismatches".
InMatched(s) == {IF s = "left" THEN p[1] ELSE p[2] : p \in result.matched}
InMismatches(s) ==
  {IF s = "left" THEN m.pair[1] ELSE m.pair[2] : m \in result.mismatches}
InOnly(s) == IF s = "left" THEN result.onlyInLeft ELSE result.onlyInRight

ClassifiedOnce(s, x) ==
  Cardinality({b \in {"matched", "mismatches", "only"} :
    x \in CASE b = "matched" -> InMatched(s)
            [] b = "mismatches" -> InMismatches(s)
            [] OTHER -> InOnly(s)}) = 1

\* With unique keys every row lands in exactly one bucket, whatever the columns,
\* provided no joined pair has a null on one side of a toleranced column.
ClassifiedUnlessOneSidedNull ==
  Done /\ UniqueKeys /\ (\A p \in Joined(data) : ~OneSidedNull(p)) =>
    \A s \in Sides : \A x \in data[s] : ClassifiedOnce(s, x)

\* With unique keys and the same proviso, match_rate is a share of the rows of the
\* full join: a row with several differences counts once, no row is left out.
RateCountsRows ==
  Done /\ UniqueKeys /\ (\A p \in Joined(data) : ~OneSidedNull(p)) =>
    Total(result) = Cardinality(data["left"]) + Cardinality(data["right"]) - Cardinality(Joined(data))

\* Swapping the datasets swaps the report: no option treats left and right
\* differently.
Mirror(res) ==
  [matched     |-> {<<p[2], p[1]>> : p \in res.matched},
   onlyInLeft  |-> res.onlyInRight,
   onlyInRight |-> res.onlyInLeft,
   mismatches  |-> {[pair |-> <<m.pair[2], m.pair[1]>>, column |-> m.column] : m \in res.mismatches}]
Symmetric ==
  Done => result = Mirror(Reconciliation(opts, [data EXCEPT !["left"] = data["right"],
                                                            !["right"] = data["left"]]))

\* is_reconciled is FALSE whenever two joined rows differ in a column compared,
\* or a row has no partner: the verdict cannot hide a difference, with the same
\* proviso for nulls, even when keys repeat.
VerdictHidesNothing ==
  Done /\ IsReconciled(result) /\ (\A p \in Joined(data) : ~OneSidedNull(p)) =>
    /\ \A s \in Sides : \A x \in data[s] : Partners(IF s = "left" THEN "right" ELSE "left", x) # {}
    /\ \A p \in Joined(data), c \in CommonColumns(opts) : Agree(c, p[1].cell[c], p[2].cell[c])

\* "Classifies every row into exactly one of matched / only_in_left /
\* only_in_right / mismatches" (module docstring), for unique keys.
EveryRowClassified ==
  Done /\ UniqueKeys => \A s \in Sides : \A x \in data[s] : ClassifiedOnce(s, x)
=============================================================================
