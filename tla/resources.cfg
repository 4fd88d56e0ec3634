SPECIFICATION FairSpec
CONSTANTS
  Specs <- MCSpecs
  Templates <- MCTemplates
  UserSecrets <- MCUserSecrets
  UserClaims <- MCUserClaims
  Absent = Absent
  MaxEdits = 2
  MaxScales = 1
INVARIANTS
  ResTypeOK
  ActiveMatches
  UserAgrees
  ServiceReachesProxy
PROPERTIES
  ForeignKept
  Idempotent
  Settles
CHECK_DEADLOCK FALSE
