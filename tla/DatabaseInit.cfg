SPECIFICATION FairSpec
CONSTANTS
  Images = {i1, i2}
  Specs = {s1}
  Secrets = {good, bad, basic}
  GoodSecrets = {good, basic}
  WatchedSecrets = {good, bad}
  None = None
  MaxExternal = 2
  MaxUnread = 3
CHECK_DEADLOCK FALSE
INVARIANT TypeOK
INVARIANT ConditionsAgree
INVARIANT ReadyIsEarned
INVARIANT RecordIsTrue
INVARIANT CachedJobIsTheJob
INVARIANT RestingJobIsCurrent
 
PROPERTY JobFollowsInputs
PROPERTY FailedJobIsRetried
PROPERTY KeepsLedger
