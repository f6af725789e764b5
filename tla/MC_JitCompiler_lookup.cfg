\* Two host threads: one compiles while the other looks a function up.
SPECIFICATION Spec
CONSTANTS
  Threads = {h1, h2}
  Sources <- MCSources
  FnNames = {"f", "g"}
  ThrowFunc = "throw_size_mismatch_exception"
  MaxSessions = 2
  NoOwner = NoOwner
  NULL = NULL
INVARIANT LookupNeverFaults
