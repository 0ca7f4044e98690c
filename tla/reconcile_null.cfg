\* One row a side, a toleranced column, a null on one side of it.
SPECIFICATION Spec
CONSTANTS
  Null = Null
  Keys = {1}
  Columns <- MCColumns
  Cells <- MCCells
  OptionSets <- TolerantOptions
  MaxRows = 1
INVARIANT EveryRowClassified
CHECK_DEADLOCK FALSE
