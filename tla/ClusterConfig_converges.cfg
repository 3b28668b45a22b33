SPECIFICATION FairSpec
CONSTANTS
  None = None
  k1 = k1
  k2 = k2
  bad = bad
  Inps = {v1}
  Names = {a1}
  Keys = {k1, bad}
  GoodKeys = {k1}
  InitKeys = {bad, k1}
  InpChanges <- AnyEdit
  KeyChanges <- Repair
  AdminChanges <- OneByOne
  InitAdmins <- OneAdmin
  MaxExternal = 2
  SecretMayVanish = TRUE
  PodsLinger = TRUE
  LegacySecret = TRUE
CHECK_DEADLOCK FALSE
PROPERTY ConfigConverges
