SPECIFICATION RowSpec
CONSTANTS
  Null = Null
  NoLoop = NoLoop
  Programs <- RowPrograms
  Inputs <- RowInputs
INVARIANTS
  TypeOK
  RowMeansItsTree
  StartOfRow
  SumIsRunningTotal
  WindowIsSlice
  EndMarksLastRow
  GroupsAreRuns
  StopEndsTheBlock
PROPERTIES
  BlockReturns
