SPECIFICATION FairSpec
CONSTANTS
  None = None
  c1 = c1
  c2 = c2
  n1 = n1
  n2 = n2
  Clusters = {c1, c2}
  Nodes = {n1}
  Clash <- NoClash
  Home <- OneSettled
  Patient = TRUE
  MaxExternal = 3
CHECK_DEADLOCK FALSE
INVARIANT TypeOK
PROPERTY OnlyUsersDelete
PROPERTY DeletionEnds
