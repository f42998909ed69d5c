SPECIFICATION Spec
CONSTANTS
  ka = ka
  kb = kb
  kc = kc
  kd = kd
  lo = lo
  up = up
  t1 = t1
  t2 = t2
  t3 = t3
  None = None
  Keys = {ka, kb}
  Spellings = {lo, up}
  Canonical = up
  Threads <- OneThread
  Loaders <- MCLoaders
  LoadNames <- LoadAnyCase
  UnloadNames <- LoadedOnly
  Programs <- OverwritePrograms
  Modes <- DefaultMode
  MaxVersion = 6
INVARIANT
  ValidationReadsInput
