CONSTANTS
  Names = {f, g}
  Returns <- MCReturns
  ArgLists <- MCArgLists
  NULL = NULL
SPECIFICATION Spec
INVARIANT ContextArgUnique
