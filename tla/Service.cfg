SPECIFICATION ServiceSpec
CONSTANTS
  Instances = {i1, i2}
  Nobody = Nobody
  Last = 3
  MaxErrors = 2
  MaxCrashes = 1

  Kids = {k1, k2}
  Verifiers = {v1, v2}
  Loop = Loop
  NoKid = NoKid
  MaxStale = 1
  MinRefetch = 1
  Timeout = 1
  MaxRotations = 1

  Fields <- MCFields
  Numbers = {9}
  IntWidth = 3

  Tags <- MCTags
  Files <- MCFiles
  MaxHeader = 3
INVARIANT CleanMeansApplied
INVARIANT EnvironmentWins
INVARIANT NeverRawKey
PROPERTY StartupSucceeds
PROPERTY RotationReachesCache
PROPERTY LookupReturns
PROPERTY WithdrawnKeysExpire
PROPERTY OnDemandThrottled
CHECK_DEADLOCK FALSE
