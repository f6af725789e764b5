CONSTANTS
  ArgLists <- MCArgLists
  NULL = NULL
SPECIFICATION Spec
\* A single call site is compiled once: the final states have no successor.
CHECK_DEADLOCK FALSE
INVARIANTS
  TypeOK
  ByvalMatchesAbi
  CallMatchesDeclaration
  ContextInjected
  ArgsDelivered
