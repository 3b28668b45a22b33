SPECIFICATION Spec
CONSTANTS
  None = None
  k1 = k1
  k2 = k2
  bad = bad
  Inps = {v1, v2}
  Names = {a1}
  Keys = {k1, k2, bad}
  GoodKeys = {k1, k2}
  InitKeys = {k1}
  InpChanges <- AnyEdit
  KeyChanges <- Untouched
  AdminChanges <- Untouched
  InitAdmins <- OneAdmin
  MaxExternal = 1
  SecretMayVanish = FALSE
  PodsLinger = TRUE
  LegacySecret = FALSE
CHECK_DEADLOCK FALSE
INVARIANT ConfigMatchesHash
