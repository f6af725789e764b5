\* Two host threads share one JitCompiler; three CompileSource calls in all.
SPECIFICATION Spec
CONSTANTS
  Threads = {h1, h2}
  Sources <- MCSources
  FnNames = {"f", "g"}
  ThrowFunc = "throw_size_mismatch_exception"
  MaxSessions = 3
  NoOwner = NoOwner
  NULL = NULL
INVARIANT VerifyNeverFaults
