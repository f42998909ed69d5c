SPECIFICATION Spec
CONSTANTS
  Null = Null
  NoVar = NoVar
  Requests <- MCRequests
INVARIANTS TypeOK CarrierShowsMerge OneCarrier
PROPERTY RefinesMatchMerge
