CONSTANTS
  Threads = {t1, t2}
  Addrs = {a1}
  MaxArenas = 3
  MaxUse = 2
  CrossThreadDestroy = FALSE
  NULL = NULL
  NoOwner = NoOwner
SPECIFICATION Spec
INVARIANTS
  TypeOK
  BytesTracked
  UsageWithinBounds
  ResetThenUsageZero
  SlotOwnedByInstance
PROPERTIES
  MutexReleased
