SPECIFICATION FairSpec
CONSTANTS
  Request = {list, submit}
  OtherTabs = TRUE
  Account = {home}
  None = None
  AccessTTL = 2
  RefreshTTL = 3
  MaxClock = 3
INVARIANTS TypeOK RefreshOnce NoneStranded
PROPERTIES RetryIsFresh EveryRequestSettles
