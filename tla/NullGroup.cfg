SPECIFICATION Spec
CONSTANTS
  Null = Null
  NoLoop = NoLoop
  Programs <- ByPrograms
  Inputs <- NullKeyInputs
INVARIANTS
  FirstByValue
