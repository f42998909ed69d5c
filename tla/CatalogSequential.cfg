SPECIFICATION FairSpec
CONSTANTS
  ka = ka
  kb = kb
  kc = kc
  kd = kd
  lo = lo
  up = up
  t1 = t1
  t2 = t2
  t3 = t3
  None = None
  Keys = {ka, kb, kc, kd}
  Spellings = {lo, up}
  Canonical = up
  Threads <- OneThread
  Loaders <- MCLoaders
  LoadNames <- LoadedOnly
  UnloadNames <- LoadedOnly
  Programs <- RespellPrograms
  Modes <- DefaultMode
  MaxVersion = 6
INVARIANTS
  LastWriteIsRead
PROPERTIES
  EveryCallReturns
  PublishListsNewestSpelling
