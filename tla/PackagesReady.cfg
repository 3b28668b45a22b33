SPECIFICATION FairSpec
CONSTANTS
  None = None
  Specs <- PackageEdits
  InitSpecs <- FirstSpecs
  HasAdmin = TRUE
  EnvIsCached = TRUE
  MaxSecretEdits = 1
  MaxExternal = 1
  Contents = {"absent", "bad", "good"}
  InitContents = {"absent", "bad", "good"}
  MaxPods = 2
CHECK_DEADLOCK FALSE
INVARIANT TypeOK
INVARIANT TrueIsEarned
INVARIANT FailureIsShown
PROPERTY RecoveryStops
PROPERTY PackagesConverge
