CONSTANTS
  NoImage = NoImage
  Top = 15
  Cached <- MCCached
  Area = 8
  Loader <- MCLoader
  Images <- MCImages
  CardEnvs <- MCCardEnvs
SPECIFICATION Spec
INVARIANTS TypeOK StartsWhole RamdiskReaches StoredCrcRight EnvFromCard
CHECK_DEADLOCK FALSE
