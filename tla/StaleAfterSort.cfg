SPECIFICATION Spec
CONSTANTS
  ka = ka
  kb = kb
  kc = kc
  kd = kd
  lo = lo
  up = up
  t1 = t1
  t2 = t2
  t3 = t3
  None = None
  Keys = {ka, kb}
  Spellings = {lo}
  Canonical = up
  Threads <- OneThread
  Loaders <- MCLoaders
  LoadNames <- AllLo
  UnloadNames <- LoadedOnly
  Programs <- PlainPrograms
  Modes <- DefaultMode
  MaxVersion = 6
INVARIANT
  TransformIsRead
