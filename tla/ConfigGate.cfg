SPECIFICATION FairGateSpec
CONSTANTS
  None = None
  k1 = k1
  k2 = k2
  a1 = a1
  a2 = a2
  v1 = v1
  v2 = v2
  Inps = {v1, v2}
  Names = {a1}
  Keys = {k1}
  GoodKeys = {k1}
  InitKeys = {k1}
  InpChanges <- ForwardEdits
  KeyChanges <- Untouched
  AdminChanges <- Arrival
  InitAdmins <- SomeAdmin
  MaxExternal = 2
  SecretMayVanish = FALSE
  PodsLinger = FALSE
  LegacySecret = FALSE
CHECK_DEADLOCK FALSE
INVARIANT GateTypeOK
INVARIANT GateHolds
INVARIANT RestingDeploymentIsCurrent
PROPERTY DeploymentFollows
