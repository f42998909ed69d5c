SPECIFICATION Spec
CONSTANTS
  ka = ka
  kb = kb
  kc = kc
  kd = kd
  lo = lo
  up = up
  t1 = t1
  t2 = t2
  t3 = t3
  None = None
  Keys = {ka, kb}
  Spellings = {lo}
  Canonical = lo
  Threads <- TwoThreads
  Loaders <- MCLoaders
  LoadNames <- AllLo
  UnloadNames <- AllLo
  Programs <- PlainPrograms
  Modes <- ModeChoices
  MaxVersion = 4
INVARIANTS
  TypeOK
  ListedIsResolvable
  FailedBlockInvisible
  FailedPrefixUnlisted
  SubmissionIsolated
  EarlierBlockVisible
  LookupsAgree
PROPERTIES
  CommitIsPrefix
