SPECIFICATION Spec
CONSTANTS
  Null = Null
  NoVar = NoVar
  Blocks <- MCBlocks
INVARIANTS TypeOK ProjectedRows NoInternalLeaves AllTargetsOrNone PlanIsExecutable LabelsFollowColumns
