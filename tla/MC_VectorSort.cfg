CONSTANTS
  Bufs = {b1, b2}
  Vectors <- MCVectors
  NaN = NaN
  MaxOwned = 1
  HostSetsNanFlag = TRUE
SPECIFICATION Spec
INVARIANTS TypeOK
PROPERTIES ReadonlyUnchanged InPlaceContract ArgContract KeyValueContract
