CONSTANTS
  Threads = {t1, t2}
  Addrs = {a1}
  MaxArenas = 3
  MaxUse = 2
  CrossThreadDestroy = TRUE
  NULL = NULL
  NoOwner = NoOwner
SPECIFICATION Spec
SYMMETRY ThreadSymmetry
INVARIANT
  SlotOwnedByInstance
