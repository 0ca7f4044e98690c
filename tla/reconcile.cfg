\* Two rows a side, with a null key, repeated keys, nulls and two cases.
SPECIFICATION Spec
CONSTANTS
  Null = Null
  Keys = {1, Null}
  Columns <- MCColumns
  Cells <- MCCells
  OptionSets <- MCOptions
  MaxRows = 2
INVARIANTS
  TypeOK
  ReportsAreTrue
  ClassifiedUnlessOneSidedNull
  RateCountsRows
  Symmetric
  VerdictHidesNothing
\* A comparison ends the run.
CHECK_DEADLOCK FALSE
