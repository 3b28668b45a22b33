SPECIFICATION FairSpec
CONSTANTS
  None = None
  Specs <- OnlyPublic
  InitSpecs <- OnlyPublic
  HasAdmin = FALSE
  EnvIsCached = FALSE
  MaxSecretEdits = 0
  MaxExternal = 1
  Contents = {"good"}
  InitContents = {"good"}
  MaxPods = 2
CHECK_DEADLOCK FALSE
PROPERTY FetchedIsReported
