SPECIFICATION FairSpec
CONSTANTS
  None = None
  c1 = c1
  c2 = c2
  n1 = n1
  n2 = n2
  Clusters = {c1, c2}
  Nodes = {n1, n2}
  Clash <- BothAdmins
  Home <- OneSettled
  Patient = FALSE
  MaxExternal = 2
CHECK_DEADLOCK FALSE
INVARIANT RestingCountIsRight
INVARIANT RestingNodeIsSettled
INVARIANT RestingNodesDoNotClash
PROPERTY CountsSettle
PROPERTY WorkloadsSettle
