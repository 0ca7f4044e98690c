--------------------------- MODULE ReconcileProofs ---------------------------
(***************************************************************************)
(* The reports of Reconcile are right for datasets of any size, any keys,  *)
(* columns and options.  The invariant says little more than that a result *)
(* is the reconciliation of the data; the work is in what that operator    *)
(* means, which the lemmas say of a pair of cells, a pair of rows and the  *)
(* buckets in turn.                                                        *)
(***************************************************************************)
EXTENDS Reconcile, FiniteSetTheorems, TLAPS

Value == Int \cup {Null}

\* The data keep their type and are finite; the result is that of the call.
DataInv == data \in [Sides -> SUBSET Row] /\ \A s \in Sides : IsFiniteSet(data[s])
ResultInv ==
  /\ outcome \in {"pending", "raised", "returned"}
  /\ result = IF Done THEN Reconciliation(opts, data) ELSE NoResult

Inv == DataInv /\ opts \in OptionSets /\ ResultInv

-----------------------------------------------------------------------------
(* A pair of cells *)

\* An option record has a tolerance in Nat where it has one.
LEMMA ToleranceTyped ==
  ASSUME NEW o \in OptionSets
  PROVE  /\ o \in Options /\ \A c \in Toleranced(o) : o.tolerance[c] \in Nat
         /\ Toleranced(o) \subseteq Columns /\ CommonColumns(o) \subseteq Columns
<1>1. o \in Options
  BY OptionsAssumption
<1>2. o.tolerance \in [Columns -> Nat \cup {Null}] /\ o.compare \subseteq Columns
  BY <1>1 DEF Options
<1> QED BY <1>1, <1>2 DEF Toleranced, CommonColumns

\* The distance of two numbers is within a bound on both sides at once.
LEMMA Distance ==
  ASSUME NEW l \in Int, NEW r \in Int, NEW tol \in Nat
  PROVE  /\ WithinTol(l, r, tol) = Decide(l - r \in -tol..tol)
         /\ l = r => l - r \in -tol..tol
<1>1. Null \notin {l, r}
  BY NullAssumption
<1>2. ((IF l < r THEN r - l ELSE l - r) <= tol) <=> l - r \in -tol..tol
  OBVIOUS
<1>3. l = r => l - r \in -tol..tol
  OBVIOUS
<1>4. WithinTol(l, r, tol) = Decide((IF l < r THEN r - l ELSE l - r) <= tol)
  BY <1>1 DEF WithinTol
<1>5. WithinTol(l, r, tol) = Decide(l - r \in -tol..tol)
  BY <1>2, <1>4 DEF Decide
<1> QED BY <1>3, <1>5

\* Lowering a number gives a number, so a null has no case.
LEMMA LowerTyped ==
  /\ \A x \in Int : Lower(x) \in Int
  /\ Lower(Null) = Null
<1>1. \A x \in Int : x - (x % 2) \in Int
  OBVIOUS
<1> QED BY <1>1, NullAssumption DEF Lower

\* The match of two cells is missing exactly if they are compared within a tolerance
\* and one of them is null; otherwise it says whether they agree.
LEMMA MatchMeaning ==
  ASSUME opts \in OptionSets, NEW c \in Columns, NEW l \in Value, NEW r \in Value
  PROVE  /\ Match(opts, c, l, r) \in Truth
         /\ Match(opts, c, l, r) = "null" <=>
              c \in Toleranced(opts) /\ (l = Null) # (r = Null)
         /\ Match(opts, c, l, r) = "true" => Agree(c, l, r)
         /\ Match(opts, c, l, r) = "false" => ~Agree(c, l, r)
<1> DEFINE m == Match(opts, c, l, r)
<1>1. CASE c \in Toleranced(opts)
  <2> DEFINE tol == opts.tolerance[c]
  <2>1. tol \in Nat
    BY <1>1, ToleranceTyped
  <2>2. m = KleeneOr(Decide(l = Null /\ r = Null), WithinTol(l, r, tol))
    BY <1>1 DEF Match
  <2>3. Agree(c, l, r) <=> l = r \/ (Null \notin {l, r} /\ l - r \in -tol..tol)
    BY <1>1 DEF Agree
  <2>4. CASE l = Null /\ r = Null
    <3>1. m = "true"
      BY <2>2, <2>4 DEF KleeneOr, Decide
    <3> QED BY <2>3, <2>4, <3>1 DEF Truth
  <2>5. CASE (l = Null) # (r = Null)
    <3>1. WithinTol(l, r, tol) = "null" /\ Decide(l = Null /\ r = Null) = "false"
      BY <2>5 DEF WithinTol, Decide
    <3>2. m = "null"
      BY <2>2, <3>1 DEF KleeneOr
    <3> QED BY <1>1, <2>5, <3>2 DEF Truth
  <2>6. CASE l # Null /\ r # Null
    <3>1. l \in Int /\ r \in Int
      BY <2>6 DEF Value
    <3>2. m = KleeneOr("false", Decide(l - r \in -tol..tol))
      BY <2>1, <2>2, <2>6, <3>1, Distance DEF Decide
    <3>3. m = Decide(l - r \in -tol..tol)
      BY <3>2 DEF KleeneOr, Decide
    <3>4. l = r => l - r \in -tol..tol
      BY <2>1, <3>1, Distance
    <3>5. m \in {"true", "false"} /\ (m = "true" <=> l - r \in -tol..tol)
      BY <3>3 DEF Decide
    <3> QED BY <2>3, <2>6, <3>4, <3>5 DEF Truth
  <2> QED BY <2>4, <2>5, <2>6
<1>2. CASE c \notin Toleranced(opts)
  <2>1. m = IF c \in opts.nocase THEN Decide(Lower(l) = Lower(r)) ELSE Decide(l = r)
    BY <1>2 DEF Match
  <2>2. m \in {"true", "false"}
    BY <2>1 DEF Decide
  <2>3. m = "true" <=> IF c \in opts.nocase THEN Lower(l) = Lower(r) ELSE l = r
    BY <2>1 DEF Decide
  <2>4. Agree(c, l, r) <=> l = r \/ (Null \notin {l, r} /\ c \in opts.nocase /\ Lower(l) = Lower(r))
    BY <1>2 DEF Agree
  <2>5. Lower(l) = Lower(r) => l = r \/ Null \notin {l, r}
    BY LowerTyped, NullAssumption DEF Value
  <2> QED BY <1>2, <2>2, <2>3, <2>4, <2>5 DEF Truth
<1> QED BY <1>1, <1>2

\* No cell is treated as the left or the right one.
LEMMA MatchSymmetric ==
  ASSUME NEW o \in OptionSets, NEW c \in Columns, NEW l \in Value, NEW r \in Value
  PROVE  Match(o, c, l, r) = Match(o, c, r, l)
<1>1. CASE c \in Toleranced(o)
  <2> DEFINE tol == o.tolerance[c]
  <2>1. tol \in Nat
    BY <1>1, ToleranceTyped
  <2>2. WithinTol(l, r, tol) = WithinTol(r, l, tol)
    <3>1. CASE Null \in {l, r}
      BY <3>1 DEF WithinTol
    <3>2. CASE Null \notin {l, r}
      <4>1. l \in Int /\ r \in Int
        BY <3>2 DEF Value
      <4>2. l - r \in -tol..tol <=> r - l \in -tol..tol
        BY <2>1, <4>1
      <4> HIDE DEF tol
      <4>3. WithinTol(l, r, tol) = Decide(l - r \in -tol..tol)
        BY <2>1, <4>1, Distance
      <4>4. WithinTol(r, l, tol) = Decide(r - l \in -tol..tol)
        BY <2>1, <4>1, Distance
      <4> QED BY <4>2, <4>3, <4>4 DEF Decide
    <3> QED BY <3>1, <3>2
  <2>3. Decide(l = Null /\ r = Null) = Decide(r = Null /\ l = Null)
    BY DEF Decide
  <2> QED BY <1>1, <2>2, <2>3 DEF Match
<1>2. CASE c \notin Toleranced(o)
  BY <1>2 DEF Match, Decide
<1> QED BY <1>1, <1>2

-----------------------------------------------------------------------------
(* A pair of rows *)

\* The cells of a row are values.
LEMMA CellTyped ==
  ASSUME NEW x \in Row, NEW c \in Columns
  PROVE  x.cell[c] \in Value
<1>1. UNION {Cells[d] : d \in Columns} \subseteq Value
  BY CellsAssumption DEF Value
<1>2. x.cell \in [Columns -> UNION {Cells[d] : d \in Columns}]
  BY DEF Row
<1> QED BY <1>1, <1>2

\* What a pair of the join is.
LEMMA JoinedMeaning ==
  ASSUME DataInv
  PROVE  /\ \A p \in Joined(data) : /\ p[1] \in data["left"] /\ p[2] \in data["right"]
                                    /\ p = <<p[1], p[2]>> /\ SameKey(p[1], p[2])
                                    /\ p[1] \in Row /\ p[2] \in Row
         /\ \A x \in data["left"], y \in data["right"] :
              SameKey(x, y) => <<x, y>> \in Joined(data)
<1>1. data["left"] \subseteq Row /\ data["right"] \subseteq Row
  BY DEF DataInv, Sides
<1> QED BY <1>1 DEF Joined, SameKey

\* A set of truths has a missing one, a false one, or is true throughout.
LEMMA AllMeaning ==
  ASSUME NEW S \in SUBSET Truth
  PROVE  /\ KleeneAll(S) \in Truth
         /\ KleeneAll(S) = "false" <=> "false" \in S
         /\ KleeneAll(S) = "true" <=> S \subseteq {"true"}
         /\ KleeneAll(S) = "null" => "null" \in S
BY DEF KleeneAll, Truth

\* A joined pair matches if its cells agree, differs if some do not, and escapes both
\* only with a null on one side of a column compared within a tolerance.
LEMMA PairMeaning ==
  ASSUME DataInv, opts \in OptionSets, NEW p \in Joined(data)
  PROVE  /\ PairMatch(opts, p) \in Truth
         /\ PairMatch(opts, p) = "true" =>
              \A c \in CommonColumns(opts) : Agree(c, p[1].cell[c], p[2].cell[c])
         /\ PairMatch(opts, p) = "false" <=>
              \E c \in CommonColumns(opts) : Match(opts, c, p[1].cell[c], p[2].cell[c]) = "false"
         /\ PairMatch(opts, p) = "null" => OneSidedNull(p)
<1> DEFINE M(c) == Match(opts, c, p[1].cell[c], p[2].cell[c])
           S == {M(c) : c \in CommonColumns(opts)}
<1>1. CommonColumns(opts) \subseteq Columns
  BY ToleranceTyped
<1>2. \A c \in CommonColumns(opts) : p[1].cell[c] \in Value /\ p[2].cell[c] \in Value
  BY <1>1, JoinedMeaning, CellTyped
<1>3. \A c \in CommonColumns(opts) :
        /\ M(c) \in Truth
        /\ M(c) = "null" => c \in Toleranced(opts) /\ (p[1].cell[c] = Null) # (p[2].cell[c] = Null)
        /\ M(c) = "true" => Agree(c, p[1].cell[c], p[2].cell[c])
  BY <1>1, <1>2, MatchMeaning
<1>4. S \in SUBSET Truth /\ PairMatch(opts, p) = KleeneAll(S)
  BY <1>3 DEF PairMatch
<1>5. PairMatch(opts, p) \in Truth
  BY <1>4, AllMeaning
<1>6. PairMatch(opts, p) = "true" =>
        \A c \in CommonColumns(opts) : Agree(c, p[1].cell[c], p[2].cell[c])
  <2>1. PairMatch(opts, p) = "true" => \A c \in CommonColumns(opts) : M(c) = "true"
    BY <1>4, AllMeaning
  <2> HIDE DEF M
  <2> QED BY <1>3, <2>1
<1>7. PairMatch(opts, p) = "false" <=> \E c \in CommonColumns(opts) : M(c) = "false"
  <2>1. "false" \in S <=> \E c \in CommonColumns(opts) : M(c) = "false"
    OBVIOUS
  <2> QED BY <1>4, <2>1, AllMeaning
<1>8. PairMatch(opts, p) = "null" => OneSidedNull(p)
  <2>1. PairMatch(opts, p) = "null" => \E c \in CommonColumns(opts) : M(c) = "null"
    BY <1>4, AllMeaning
  <2> HIDE DEF M
  <2> QED BY <1>3, <2>1 DEF OneSidedNull
<1> QED BY <1>5, <1>6, <1>7, <1>8

-----------------------------------------------------------------------------
(* The result *)

\* What each bucket of a result holds.
LEMMA ResultMeaning ==
  ASSUME Inv, Done
  PROVE  /\ result.matched = {p \in Joined(data) : PairMatch(opts, p) = "true"}
         /\ result.onlyInLeft = {x \in data["left"] : Partners("right", x) = {}}
         /\ result.onlyInRight = {x \in data["right"] : Partners("left", x) = {}}
         /\ result.mismatches = Mismatches(opts, data)
<1>1. result = Reconciliation(opts, data)
  BY DEF Inv, ResultInv
<1>2. Unpaired(data, "left") = {x \in data["left"] : Partners("right", x) = {}}
  <2>1. \A x \in data["left"] : Partners("right", x) = {} <=> \A p \in Joined(data) : x # p[1]
    BY JoinedMeaning DEF Partners, Inv
  <2> QED BY <2>1 DEF Unpaired
<1>3. Unpaired(data, "right") = {x \in data["right"] : Partners("left", x) = {}}
  <2>1. \A x, y : SameKey(x, y) <=> SameKey(y, x)
    BY DEF SameKey
  <2>2. \A x \in data["right"] : Partners("left", x) = {} <=> \A p \in Joined(data) : x # p[2]
    BY <2>1, JoinedMeaning DEF Partners, Inv
  <2> QED BY <2>2 DEF Unpaired
<1> QED BY <1>1, <1>2, <1>3 DEF Reconciliation

\* A mismatch is a joined pair and a column in which it differs.
LEMMA MismatchMeaning ==
  ASSUME DataInv, opts \in OptionSets
  PROVE  /\ \A m \in Mismatches(opts, data) :
              /\ m.pair \in Joined(data) /\ m.column \in CommonColumns(opts)
              /\ PairMatch(opts, m.pair) = "false"
              /\ ~Agree(m.column, m.pair[1].cell[m.column], m.pair[2].cell[m.column])
         /\ \A p \in Joined(data) : PairMatch(opts, p) = "false" =>
              \E m \in Mismatches(opts, data) : m.pair = p
<1>1. ASSUME NEW m \in Mismatches(opts, data)
      PROVE  /\ m.pair \in Joined(data) /\ m.column \in CommonColumns(opts)
             /\ PairMatch(opts, m.pair) = "false"
             /\ ~Agree(m.column, m.pair[1].cell[m.column], m.pair[2].cell[m.column])
  <2>1. /\ m.pair \in Joined(data) /\ m.column \in CommonColumns(opts)
        /\ PairMatch(opts, m.pair) = "false"
        /\ Match(opts, m.column, m.pair[1].cell[m.column], m.pair[2].cell[m.column]) = "false"
    BY DEF Mismatches
  <2>2. m.column \in Columns
    BY <2>1, ToleranceTyped
  <2>3. m.pair[1].cell[m.column] \in Value /\ m.pair[2].cell[m.column] \in Value
    BY <2>1, <2>2, JoinedMeaning, CellTyped
  <2> QED BY <2>1, <2>2, <2>3, MatchMeaning
<1>2. ASSUME NEW p \in Joined(data), PairMatch(opts, p) = "false"
      PROVE  \E m \in Mismatches(opts, data) : m.pair = p
  <2>1. PICK c \in CommonColumns(opts) : Match(opts, c, p[1].cell[c], p[2].cell[c]) = "false"
    BY <1>2, PairMeaning
  <2>2. [pair |-> p, column |-> c] \in Mismatches(opts, data)
    BY <1>2, <2>1 DEF Mismatches
  <2> QED BY <2>2
<1> QED BY <1>1, <1>2

-----------------------------------------------------------------------------
(* The call *)

\* Before the call there are no rows.
LEMMA InitInv ==
  ASSUME Init
  PROVE  Inv
<1>1. DataInv
  BY FS_EmptySet DEF Init, DataInv
<1> QED BY <1>1 DEF Init, Inv, ResultInv, Done

\* A row more.
LEMMA LoadInv ==
  ASSUME Inv, LoadAny
  PROVE  Inv'
<1>1. PICK s \in Sides, key \in Keys :
        \E cell \in {f \in [Columns -> UNION {Cells[c] : c \in Columns}] :
                       \A c \in Columns : f[c] \in Cells[c]} : Load(s, key, cell)
  BY DEF LoadAny
<1>2. PICK cell \in [Columns -> UNION {Cells[c] : c \in Columns}] : Load(s, key, cell)
  BY <1>1
<1> DEFINE n == Cardinality(data[s])
           row == [pos |-> n + 1, key |-> key, cell |-> cell]
<1>3. /\ n < MaxRows /\ data' = [data EXCEPT ![s] = data[s] \cup {row}]
      /\ outcome = "pending" /\ UNCHANGED <<opts, outcome, result>>
  BY <1>2 DEF Load
<1>4. n \in Nat
  BY FS_CardinalityType DEF Inv, DataInv
<1>5. row \in Row
  <2>1. n + 1 \in 1..MaxRows
    <3> HIDE DEF n
    <3> QED BY <1>3, <1>4, BoundsAssumption
  <2> QED BY <2>1 DEF Row
<1>6. DataInv'
  <2> HIDE DEF row
  <2>1. data' \in [Sides -> SUBSET Row]
    BY <1>3, <1>5 DEF Inv, DataInv
  <2>2. IsFiniteSet(data[s] \cup {row})
    BY FS_AddElement DEF Inv, DataInv
  <2> QED BY <1>3, <2>1, <2>2 DEF Inv, DataInv
<1>7. ResultInv'
  BY <1>3 DEF Inv, ResultInv, Done
<1> QED BY <1>3, <1>6, <1>7 DEF Inv

\* The comparison.
LEMMA CompareInv ==
  ASSUME Inv, Compare
  PROVE  Inv'
<1>1. ResultInv' /\ UNCHANGED <<data, opts>>
  BY DEF Compare, Inv, ResultInv, Done
<1> QED BY <1>1 DEF Inv, DataInv

\* The invariant holds of every run.
THEOREM Invariance == Spec => []Inv
<1>1. Init => Inv
  BY InitInv
<1>2. Inv /\ [Next]_vars => Inv'
  <2>1. ASSUME Inv, UNCHANGED vars
        PROVE  Inv'
    BY <2>1 DEF vars, Inv, DataInv, ResultInv, Done
  <2> QED BY <2>1, LoadInv, CompareInv DEF Next
<1> QED BY <1>1, <1>2, PTL DEF Spec

\* Every variable keeps its type: the buckets are made of rows that were loaded.
THEOREM TypeCorrect == Spec => []TypeOK
<1>1. ASSUME Inv
      PROVE  TypeOK
  <2>1. /\ result.matched \subseteq data["left"] \X data["right"]
        /\ result.onlyInLeft \subseteq data["left"]
        /\ result.onlyInRight \subseteq data["right"]
        /\ result.mismatches \subseteq [pair : data["left"] \X data["right"], column : Columns]
    <3>1. CASE Done
      <4>1. Joined(data) \subseteq data["left"] \X data["right"]
        BY DEF Joined
      <4>2. Mismatches(opts, data) \subseteq [pair : Joined(data), column : CommonColumns(opts)]
        BY DEF Mismatches
      <4>3. CommonColumns(opts) \subseteq Columns
        BY <1>1, ToleranceTyped DEF Inv
      <4> QED BY <1>1, <3>1, <4>1, <4>2, <4>3, ResultMeaning
    <3>2. CASE ~Done
      <4>1. result = NoResult
        BY <1>1, <3>2 DEF Inv, ResultInv
      <4> QED BY <4>1 DEF NoResult
    <3> QED BY <3>1, <3>2
  <2> QED BY <1>1, <2>1 DEF Inv, DataInv, ResultInv, TypeOK
<1> QED BY <1>1, Invariance, PTL

\* A matched pair agrees in every column compared, a reported difference is one,
\* and a row is unpaired exactly if the other side has none of its key.
THEOREM NoFalseReport == Spec => []ReportsAreTrue
<1>1. ASSUME Inv
      PROVE  ReportsAreTrue
  <2> SUFFICES ASSUME Done
               PROVE  /\ \A p \in result.matched :
                           SameKey(p[1], p[2]) /\
                           \A c \in CommonColumns(opts) : Agree(c, p[1].cell[c], p[2].cell[c])
                      /\ \A m \in result.mismatches :
                           SameKey(m.pair[1], m.pair[2]) /\
                           ~Agree(m.column, m.pair[1].cell[m.column], m.pair[2].cell[m.column])
                      /\ \A x \in data["left"] :
                           x \in result.onlyInLeft <=> Partners("right", x) = {}
                      /\ \A x \in data["right"] :
                           x \in result.onlyInRight <=> Partners("left", x) = {}
    BY DEF ReportsAreTrue
  <2>1. DataInv /\ opts \in OptionSets
    BY <1>1 DEF Inv
  <2>2. ASSUME NEW p \in result.matched
        PROVE  /\ SameKey(p[1], p[2])
               /\ \A c \in CommonColumns(opts) : Agree(c, p[1].cell[c], p[2].cell[c])
    <3>1. p \in Joined(data) /\ PairMatch(opts, p) = "true"
      BY <1>1, <2>2, ResultMeaning
    <3> QED BY <2>1, <3>1, PairMeaning, JoinedMeaning
  <2>3. ASSUME NEW m \in result.mismatches
        PROVE  /\ SameKey(m.pair[1], m.pair[2])
               /\ ~Agree(m.column, m.pair[1].cell[m.column], m.pair[2].cell[m.column])
    <3>1. m \in Mismatches(opts, data)
      BY <1>1, <2>3, ResultMeaning
    <3> QED BY <2>1, <3>1, MismatchMeaning, JoinedMeaning
  <2>4. /\ \A x \in data["left"] : x \in result.onlyInLeft <=> Partners("right", x) = {}
        /\ \A x \in data["right"] : x \in result.onlyInRight <=> Partners("left", x) = {}
    BY <1>1, ResultMeaning
  <2> QED BY <2>2, <2>3, <2>4
<1> QED BY <1>1, Invariance, PTL

\* A verdict of reconciled means that every row has a partner and that joined rows
\* agree, unless a null stands on one side of a toleranced column.
THEOREM NothingHidden == Spec => []VerdictHidesNothing
<1>1. ASSUME Inv
      PROVE  VerdictHidesNothing
  <2> SUFFICES ASSUME Done, IsReconciled(result), \A p \in Joined(data) : ~OneSidedNull(p)
               PROVE  /\ \A x \in data["left"] : Partners("right", x) # {}
                      /\ \A x \in data["right"] : Partners("left", x) # {}
                      /\ \A p \in Joined(data), c \in CommonColumns(opts) :
                           Agree(c, p[1].cell[c], p[2].cell[c])
    BY DEF VerdictHidesNothing, Sides
  <2>1. DataInv /\ opts \in OptionSets
    BY <1>1 DEF Inv
  <2>2. result.onlyInLeft = {} /\ result.onlyInRight = {} /\ result.mismatches = {}
    BY DEF IsReconciled
  <2>3. /\ \A x \in data["left"] : Partners("right", x) # {}
        /\ \A x \in data["right"] : Partners("left", x) # {}
    BY <1>1, <2>2, ResultMeaning
  <2>4. ASSUME NEW p \in Joined(data)
        PROVE  \A c \in CommonColumns(opts) : Agree(c, p[1].cell[c], p[2].cell[c])
    <3>1. PairMatch(opts, p) # "false"
      BY <1>1, <2>1, <2>2, ResultMeaning, MismatchMeaning
    <3>2. PairMatch(opts, p) = "true"
      BY <2>1, <3>1, PairMeaning DEF Truth
    <3> QED BY <2>1, <3>2, PairMeaning
  <2> QED BY <2>3, <2>4
<1> QED BY <1>1, Invariance, PTL

-----------------------------------------------------------------------------
(* Every row in one bucket *)

\* The joined pairs that differ.
Different == {p \in Joined(data) : PairMatch(opts, p) = "false"}

\* The row of side s in a pair.
Of(s, p) == IF s = "left" THEN p[1] ELSE p[2]

\* Without a null on one side of a toleranced column, a joined pair matches or
\* differs and never both.
LEMMA JoinedSplit ==
  ASSUME Inv, Done, \A p \in Joined(data) : ~OneSidedNull(p)
  PROVE  /\ result.matched \cup Different = Joined(data)
         /\ result.matched \cap Different = {}
<1>1. \A p \in Joined(data) : PairMatch(opts, p) \in {"true", "false"}
  BY PairMeaning DEF Inv, Truth
<1>2. result.matched = {p \in Joined(data) : PairMatch(opts, p) = "true"}
  BY ResultMeaning
<1> QED BY <1>1, <1>2 DEF Different

\* With unique keys a row is in one joined pair at most, and a key as well.
LEMMA OnePartner ==
  ASSUME DataInv, UniqueKeys, NEW p \in Joined(data), NEW q \in Joined(data)
  PROVE  /\ \A s \in Sides : Of(s, p) = Of(s, q) => p = q
         /\ p[1].key = q[1].key => p = q
<1>1. p[1].key = p[2].key /\ q[1].key = q[2].key
  BY JoinedMeaning DEF SameKey
<1>2. /\ p[1] \in data["left"] /\ q[1] \in data["left"]
      /\ p[2] \in data["right"] /\ q[2] \in data["right"]
      /\ p = <<p[1], p[2]>> /\ q = <<q[1], q[2]>>
  BY JoinedMeaning
<1>3. p[1].key = q[1].key => p = q
  BY <1>1, <1>2 DEF UniqueKeys, Sides
<1>4. \A s \in Sides : Of(s, p) = Of(s, q) => p[1].key = q[1].key
  BY <1>1 DEF Of, Sides
<1> QED BY <1>3, <1>4

\* The buckets of a side, by the pairs of the join.
LEMMA BucketMeaning ==
  ASSUME Inv, Done, NEW s \in Sides, NEW x \in data[s]
  PROVE  /\ x \in InMatched(s) <=> \E p \in result.matched : Of(s, p) = x
         /\ x \in InMismatches(s) <=> \E p \in Different : Of(s, p) = x
         /\ x \in InOnly(s) <=> \A p \in Joined(data) : Of(s, p) # x
<1>1. x \in InMatched(s) <=> \E p \in result.matched : Of(s, p) = x
  BY DEF InMatched, Of
<1>2. x \in InMismatches(s) <=> \E p \in Different : Of(s, p) = x
  <2>1. InMismatches(s) = {Of(s, m.pair) : m \in result.mismatches}
    BY DEF InMismatches, Of
  <2>2. /\ \A m \in result.mismatches : m.pair \in Different
        /\ \A p \in Different : \E m \in result.mismatches : m.pair = p
    BY ResultMeaning, MismatchMeaning DEF Different, Inv
  <2> QED BY <2>1, <2>2
<1>3. x \in InOnly(s) <=> \A p \in Joined(data) : Of(s, p) # x
  <2>1. x \in InOnly(s) <=> x \in Unpaired(data, s)
    BY DEF InOnly, Inv, ResultInv, Reconciliation, Sides
  <2> QED BY <2>1 DEF Unpaired, Of
<1> QED BY <1>1, <1>2, <1>3

\* A row that is in exactly one of the three buckets is classified once.
LEMMA OnceMeaning ==
  ASSUME NEW s, NEW x,
         x \in InMatched(s) => x \notin InMismatches(s) /\ x \notin InOnly(s),
         x \in InMismatches(s) => x \notin InOnly(s),
         x \in InMatched(s) \/ x \in InMismatches(s) \/ x \in InOnly(s)
  PROVE  ClassifiedOnce(s, x)
<1> DEFINE Bucket(b) == CASE b = "matched" -> InMatched(s)
                          [] b = "mismatches" -> InMismatches(s)
                          [] OTHER -> InOnly(s)
           B == {b \in {"matched", "mismatches", "only"} : x \in Bucket(b)}
<1>1. /\ Bucket("matched") = InMatched(s) /\ Bucket("mismatches") = InMismatches(s)
      /\ Bucket("only") = InOnly(s)
  OBVIOUS
<1>2. \E b : B = {b}
  <2> HIDE DEF Bucket
  <2>1. CASE x \in InMatched(s)
    <3>1. B = {"matched"}
      BY <1>1, <2>1
    <3> QED BY <3>1
  <2>2. CASE x \in InMismatches(s)
    <3>1. B = {"mismatches"}
      BY <1>1, <2>2
    <3> QED BY <3>1
  <2>3. CASE x \in InOnly(s)
    <3>1. B = {"only"}
      BY <1>1, <2>3
    <3> QED BY <3>1
  <2> QED BY <2>1, <2>2, <2>3
<1>3. Cardinality(B) = 1
  BY <1>2, FS_Singleton
<1> QED BY <1>3 DEF ClassifiedOnce

\* With unique keys and no null on one side of a toleranced column, every row lands
\* in exactly one bucket.
THEOREM RowsClassified == Spec => []ClassifiedUnlessOneSidedNull
<1>1. ASSUME Inv
      PROVE  ClassifiedUnlessOneSidedNull
  <2> SUFFICES ASSUME Done, UniqueKeys, \A p \in Joined(data) : ~OneSidedNull(p),
                      NEW s \in Sides, NEW x \in data[s]
               PROVE  ClassifiedOnce(s, x)
    BY DEF ClassifiedUnlessOneSidedNull
  <2>1. /\ result.matched \cup Different = Joined(data)
        /\ result.matched \cap Different = {}
    BY <1>1, JoinedSplit
  <2>2. /\ x \in InMatched(s) <=> \E p \in result.matched : Of(s, p) = x
        /\ x \in InMismatches(s) <=> \E p \in Different : Of(s, p) = x
        /\ x \in InOnly(s) <=> \A p \in Joined(data) : Of(s, p) # x
    BY <1>1, BucketMeaning
  <2>3. \A p, q \in Joined(data) : Of(s, p) = x /\ Of(s, q) = x => p = q
    BY <1>1, OnePartner DEF Inv
  <2>4. x \in InMatched(s) => x \notin InMismatches(s)
    BY <2>1, <2>2, <2>3
  <2>5. x \in InOnly(s) => x \notin InMatched(s) /\ x \notin InMismatches(s)
    BY <2>1, <2>2
  <2>6. x \in InMatched(s) \/ x \in InMismatches(s) \/ x \in InOnly(s)
    BY <2>1, <2>2
  <2> QED BY <2>4, <2>5, <2>6, OnceMeaning
<1> QED BY <1>1, Invariance, PTL

-----------------------------------------------------------------------------
(* The match rate *)

\* An injective image has as many elements.
LEMMA InjectiveImage ==
  ASSUME NEW S, IsFiniteSet(S), NEW T, NEW f \in [S -> T],
         \A x, y \in S : f[x] = f[y] => x = y,
         \A t \in T : \E x \in S : f[x] = t
  PROVE  IsFiniteSet(T) /\ Cardinality(T) = Cardinality(S)
<1>1. f \in Surjection(S, T)
  BY DEF Surjection
<1>2. f \in Injection(S, T)
  BY DEF Injection, IsInjective
<1> QED BY <1>1, <1>2, FS_Surjection

\* With unique keys each pair of the join takes one row of either side.
LEMMA UnpairedCount ==
  ASSUME Inv, Done, UniqueKeys, NEW s \in Sides
  PROVE  /\ IsFiniteSet(Joined(data)) /\ IsFiniteSet(InOnly(s))
         /\ Cardinality(InOnly(s)) = Cardinality(data[s]) - Cardinality(Joined(data))
<1> DEFINE J == Joined(data)
           P == {Of(s, p) : p \in J}
           f == [p \in J |-> Of(s, p)]
<1>1. IsFiniteSet(J)
  <2>1. IsFiniteSet(data["left"] \X data["right"])
    BY FS_Product DEF Inv, DataInv, Sides
  <2>2. J \subseteq data["left"] \X data["right"]
    BY DEF Joined
  <2> QED BY <2>1, <2>2, FS_Subset
<1>2. P \subseteq data[s]
  BY JoinedMeaning DEF Inv, Of, Sides
<1>3. Cardinality(P) = Cardinality(J)
  <2>1. f \in [J -> P] /\ \A t \in P : \E x \in J : f[x] = t
    OBVIOUS
  <2>2. \A x, y \in J : f[x] = f[y] => x = y
    BY OnePartner DEF Inv
  <2> HIDE DEF f, J, P
  <2> QED BY <1>1, <2>1, <2>2, InjectiveImage
<1>4. InOnly(s) = data[s] \ P
  <2>1. InOnly(s) \subseteq data[s]
    BY ResultMeaning DEF InOnly, Sides
  <2>2. \A x \in data[s] : x \in InOnly(s) <=> x \notin P
    BY BucketMeaning
  <2> QED BY <2>1, <2>2
<1>5. IsFiniteSet(data[s]) /\ data[s] \cap P = P
  BY <1>2 DEF Inv, DataInv
<1> HIDE DEF P
<1> QED BY <1>1, <1>3, <1>4, <1>5, FS_Difference

\* With unique keys the keys of the mismatches are as many as the pairs that differ.
LEMMA MismatchedCount ==
  ASSUME Inv, Done, UniqueKeys, IsFiniteSet(Joined(data))
  PROVE  /\ IsFiniteSet(Different)
         /\ Cardinality(MismatchedKeys(result)) = Cardinality(Different)
<1> DEFINE K == MismatchedKeys(result)
           f == [p \in Different |-> p[1].key]
<1>1. IsFiniteSet(Different)
  <2>1. Different \subseteq Joined(data)
    BY DEF Different
  <2> QED BY <2>1, FS_Subset
<1>2. /\ \A m \in result.mismatches : m.pair \in Different
      /\ \A p \in Different : \E m \in result.mismatches : m.pair = p
  BY ResultMeaning, MismatchMeaning DEF Different, Inv
<1>3. K = {p[1].key : p \in Different}
  BY <1>2 DEF MismatchedKeys
<1>4. f \in [Different -> K] /\ \A t \in K : \E x \in Different : f[x] = t
  BY <1>3
<1>5. \A x, y \in Different : f[x] = f[y] => x = y
  BY OnePartner DEF Different, Inv
<1> HIDE DEF f
<1>6. Cardinality(K) = Cardinality(Different)
  BY <1>1, <1>4, <1>5, InjectiveImage
<1> QED BY <1>1, <1>6

\* With unique keys and the same proviso the denominator of the match rate counts
\* every row of the full join once.
THEOREM RateIsOfRows == Spec => []RateCountsRows
<1>1. ASSUME Inv
      PROVE  RateCountsRows
  <2> SUFFICES ASSUME Done, UniqueKeys, \A p \in Joined(data) : ~OneSidedNull(p)
               PROVE  Total(result) = Cardinality(data["left"]) + Cardinality(data["right"])
                                        - Cardinality(Joined(data))
    BY DEF RateCountsRows
  <2> DEFINE j == Cardinality(Joined(data))
             l == Cardinality(data["left"])
             r == Cardinality(data["right"])
  <2>1. /\ IsFiniteSet(Joined(data))
        /\ Cardinality(result.onlyInLeft) = l - j /\ Cardinality(result.onlyInRight) = r - j
    <3>1. result.onlyInLeft = InOnly("left") /\ result.onlyInRight = InOnly("right")
      BY DEF InOnly
    <3> QED BY <1>1, <3>1, UnpairedCount DEF Sides
  <2>2. /\ IsFiniteSet(Different)
        /\ Cardinality(MismatchedKeys(result)) = Cardinality(Different)
    BY <1>1, <2>1, MismatchedCount
  <2>3. /\ result.matched \cup Different = Joined(data)
        /\ result.matched \cap Different = {}
    BY <1>1, JoinedSplit
  <2>4. IsFiniteSet(result.matched)
    BY <2>1, <2>3, FS_Subset
  <2>5. /\ Cardinality(result.matched) \in Nat /\ Cardinality(Different) \in Nat
        /\ j \in Nat /\ l \in Nat /\ r \in Nat
    BY <1>1, <2>1, <2>2, <2>4, FS_CardinalityType DEF Inv, DataInv, Sides
  <2>6. j = Cardinality(result.matched) + Cardinality(Different)
    <3>1. j = Cardinality(result.matched) + Cardinality(Different) - Cardinality({})
      BY <2>2, <2>3, <2>4, FS_Union
    <3> QED BY <2>5, <3>1, FS_EmptySet
  <2> HIDE DEF j, l, r
  <2>7. Total(result) = l + r - j
    BY <2>1, <2>2, <2>5, <2>6 DEF Total
  <2> QED BY <2>7 DEF j, l, r
<1> QED BY <1>1, Invariance, PTL

-----------------------------------------------------------------------------
(* Left and right *)

Flip(p) == <<p[2], p[1]>>
Swapped == [data EXCEPT !["left"] = data["right"], !["right"] = data["left"]]

\* The join of the swapped data has the same pairs, the other way round.
LEMMA JoinSwapped ==
  ASSUME DataInv
  PROVE  /\ Swapped["left"] = data["right"] /\ Swapped["right"] = data["left"]
         /\ \A p \in Joined(data) : Flip(p) \in Joined(Swapped) /\ Flip(Flip(p)) = p
         /\ \A q \in Joined(Swapped) : Flip(q) \in Joined(data) /\ Flip(Flip(q)) = q
<1>1. Swapped["left"] = data["right"] /\ Swapped["right"] = data["left"]
  BY DEF Swapped, DataInv, Sides
<1> QED BY <1>1 DEF Joined, Flip

\* A pair matches as its mirror image does.
LEMMA PairSymmetric ==
  ASSUME DataInv, opts \in OptionSets, NEW p \in Joined(data)
  PROVE  /\ PairMatch(opts, Flip(p)) = PairMatch(opts, p)
         /\ \A c \in CommonColumns(opts) :
              Match(opts, c, Flip(p)[1].cell[c], Flip(p)[2].cell[c])
                = Match(opts, c, p[1].cell[c], p[2].cell[c])
<1>1. CommonColumns(opts) \subseteq Columns
  BY ToleranceTyped
<1>2. \A c \in CommonColumns(opts) : p[1].cell[c] \in Value /\ p[2].cell[c] \in Value
  BY <1>1, JoinedMeaning, CellTyped
<1>3. Flip(p)[1] = p[2] /\ Flip(p)[2] = p[1]
  BY DEF Flip
<1>4. \A c \in CommonColumns(opts) :
        Match(opts, c, Flip(p)[1].cell[c], Flip(p)[2].cell[c])
          = Match(opts, c, p[1].cell[c], p[2].cell[c])
  BY <1>1, <1>2, <1>3, MatchSymmetric
<1>5. PairMatch(opts, Flip(p)) = PairMatch(opts, p)
  BY <1>4 DEF PairMatch
<1> QED BY <1>4, <1>5

\* The mismatches of the swapped data are those of the data, the other way round.
LEMMA MismatchSymmetric ==
  ASSUME DataInv, opts \in OptionSets
  PROVE  {[pair |-> Flip(m.pair), column |-> m.column] : m \in Mismatches(opts, Swapped)}
           = Mismatches(opts, data)
<1> DEFINE turn(m) == [pair |-> Flip(m.pair), column |-> m.column]
           Differ(p, c) == Match(opts, c, p[1].cell[c], p[2].cell[c]) = "false"
           Entry(d, p, c) == /\ p \in Joined(d) /\ PairMatch(opts, p) = "false"
                             /\ c \in CommonColumns(opts) /\ Differ(p, c)
<1>1. \A d : Mismatches(opts, d) = {m \in [pair : Joined(d), column : CommonColumns(opts)] :
                                      Entry(d, m.pair, m.column)}
  BY DEF Mismatches
<1>2. \A d, p, c : Entry(d, p, c) => [pair |-> p, column |-> c] \in Mismatches(opts, d)
  BY <1>1
<1>3. \A p, c : Entry(Swapped, p, c) => Entry(data, Flip(p), c)
  <2> TAKE p, c
  <2> HAVE Entry(Swapped, p, c)
  <2>1. Flip(p) \in Joined(data) /\ Flip(Flip(p)) = p
    BY JoinSwapped
  <2> QED BY <2>1, PairSymmetric
<1>4. \A p, c : Entry(data, p, c) => Entry(Swapped, Flip(p), c) /\ Flip(Flip(p)) = p
  <2> TAKE p, c
  <2> HAVE Entry(data, p, c)
  <2>1. Flip(p) \in Joined(Swapped) /\ Flip(Flip(p)) = p
    BY JoinSwapped
  <2> QED BY <2>1, PairSymmetric
<1>5. ASSUME NEW m \in Mismatches(opts, Swapped)
      PROVE  turn(m) \in Mismatches(opts, data)
  <2>1. Entry(Swapped, m.pair, m.column)
    BY <1>1
  <2> HIDE DEF Entry
  <2> QED BY <1>2, <1>3, <2>1
<1>6. ASSUME NEW m \in Mismatches(opts, data)
      PROVE  \E k \in Mismatches(opts, Swapped) : turn(k) = m
  <2>1. Entry(data, m.pair, m.column) /\ m = [pair |-> m.pair, column |-> m.column]
    BY <1>1
  <2> HIDE DEF Entry
  <2>2. turn(m) \in Mismatches(opts, Swapped)
    BY <1>2, <1>4, <2>1
  <2>3. turn(turn(m)) = m
    BY <1>4, <2>1
  <2> QED BY <2>2, <2>3
<1> QED BY <1>5, <1>6

\* Swapping the datasets swaps the report.
THEOREM SidesAreAlike == Spec => []Symmetric
<1>1. ASSUME Inv
      PROVE  Symmetric
  <2> SUFFICES ASSUME Done
               PROVE  result = Mirror(Reconciliation(opts, Swapped))
    BY DEF Symmetric, Swapped
  <2>1. DataInv /\ opts \in OptionSets
    BY <1>1 DEF Inv
  <2>2. result = [matched     |-> {p \in Joined(data) : PairMatch(opts, p) = "true"},
                  onlyInLeft  |-> Unpaired(data, "left"),
                  onlyInRight |-> Unpaired(data, "right"),
                  mismatches  |-> Mismatches(opts, data)]
    BY <1>1 DEF Inv, ResultInv, Reconciliation
  <2>3. {Flip(q) : q \in {p \in Joined(Swapped) : PairMatch(opts, p) = "true"}}
          = {p \in Joined(data) : PairMatch(opts, p) = "true"}
    <3>1. ASSUME NEW q \in Joined(Swapped), PairMatch(opts, q) = "true"
          PROVE  Flip(q) \in Joined(data) /\ PairMatch(opts, Flip(q)) = "true"
      <4>1. Flip(q) \in Joined(data) /\ Flip(Flip(q)) = q
        BY <2>1, JoinSwapped
      <4> QED BY <2>1, <3>1, <4>1, PairSymmetric
    <3>2. ASSUME NEW p \in Joined(data), PairMatch(opts, p) = "true"
          PROVE  /\ Flip(p) \in Joined(Swapped) /\ PairMatch(opts, Flip(p)) = "true"
                 /\ Flip(Flip(p)) = p
      BY <2>1, <3>2, JoinSwapped, PairSymmetric
    <3> QED BY <3>1, <3>2
  <2>4. /\ Unpaired(Swapped, "left") = Unpaired(data, "right")
        /\ Unpaired(Swapped, "right") = Unpaired(data, "left")
    <3>1. \A p : Flip(p)[1] = p[2] /\ Flip(p)[2] = p[1]
      BY DEF Flip
    <3>2. /\ \A x \in data["right"] :
               (\A p \in Joined(Swapped) : x # p[1]) <=> (\A p \in Joined(data) : x # p[2])
          /\ \A x \in data["left"] :
               (\A p \in Joined(Swapped) : x # p[2]) <=> (\A p \in Joined(data) : x # p[1])
      BY <2>1, <3>1, JoinSwapped
    <3> QED BY <2>1, <3>2, JoinSwapped DEF Unpaired
  <2>5. {[pair |-> Flip(m.pair), column |-> m.column] : m \in Mismatches(opts, Swapped)}
          = Mismatches(opts, data)
    BY <2>1, MismatchSymmetric
  <2>6. Mirror(Reconciliation(opts, Swapped)) =
          [matched     |-> {Flip(q) : q \in {p \in Joined(Swapped) : PairMatch(opts, p) = "true"}},
           onlyInLeft  |-> Unpaired(Swapped, "right"),
           onlyInRight |-> Unpaired(Swapped, "left"),
           mismatches  |-> {[pair |-> Flip(m.pair), column |-> m.column] :
                              m \in Mismatches(opts, Swapped)}]
    BY DEF Mirror, Reconciliation, Flip
  <2> QED BY <2>2, <2>3, <2>4, <2>5, <2>6
<1> QED BY <1>1, Invariance, PTL
=============================================================================
