SPECIFICATION Spec
CONSTANTS
  Request = {list, submit}
  OtherTabs = FALSE
  Account = {home, team}
  None = None
  AccessTTL = 2
  RefreshTTL = 3
  MaxClock = 3
INVARIANTS ShownIsCharged
