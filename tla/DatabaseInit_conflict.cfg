SPECIFICATION FairSpec
CONSTANTS
  Images = {i1}
  Specs = {s1}
  Secrets = {good}
  GoodSecrets = {good}
  WatchedSecrets = {good}
  None = None
  MaxExternal = 1
  MaxUnread = 2
CHECK_DEADLOCK FALSE
PROPERTY CompletionIsReported
