SPECIFICATION FairSpec
CONSTANTS
  None = None
  m1 = m1
  s1 = s1
  env = env
  n1 = n1
  n2 = n2
  c1 = c1
  c2 = c2
  ghost = ghost
  t1 = t1
  ConfigMaps = {m1}
  Secrets = {s1, env}
  NameOf <- Names
  Clusters = {c1, c2}
  LoggingKey = "log"
  Nodes = {n1, n2}
  Cluster = c1
  Sources = {t1}
  Contents = {"absent", "broken", "v1", "v2"}
  Out = env
  ItemLists <- Lists
  Listings <- Orders
  InitInputs <- Worlds
  Edits <- ResourceEdits
  Marks <- Labelings
  TypeEdits <- Handover
  SourceEdits <- Rotations
  ItemEdits <- ListEdits
  MaxExternal = 2
CHECK_DEADLOCK FALSE
INVARIANT TypeOK
INVARIANT RestIsCurrent
INVARIANT StatusTellsMounts
INVARIANT ReadyKeystoresArePublished
PROPERTY MountsSettle
PROPERTY RolloutsStop
PROPERTY KeystoresArrive
