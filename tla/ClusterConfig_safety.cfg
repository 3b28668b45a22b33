SPECIFICATION Spec
CONSTANTS
  None = None
  k1 = k1
  k2 = k2
  bad = bad
  Inps = {v1, v2}
  Names = {a1, a2}
  Keys = {k1, k2, bad}
  GoodKeys = {k1, k2}
  InitKeys = {k1}
  InpChanges <- AnyEdit
  KeyChanges <- Rotations
  AdminChanges <- OneByOne
  InitAdmins <- OneAdmin
  MaxExternal = 2
  SecretMayVanish = TRUE
  PodsLinger = FALSE
  LegacySecret = FALSE
CHECK_DEADLOCK FALSE
INVARIANT TypeOK
INVARIANT ConfigMatchesHash
INVARIANT CachedJobIsTheJob
INVARIANT RestingStatusIsTrue
PROPERTY ResetIsAnnounced
