SPECIFICATION Spec
CONSTANTS
  Null = Null
  NoLoop = NoLoop
  Programs <- FaultedElsePrograms
  Inputs <- TreeInputs
INVARIANTS
  RowMeansItsTree
