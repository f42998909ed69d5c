SPECIFICATION Spec
CONSTANTS
  Null = Null
  NoVar = NoVar
  Requests <- MCRequests
INVARIANTS TypeOK InterleavesStreams AutomaticsTell HelpersLookAcross PreparedIsAccepted
