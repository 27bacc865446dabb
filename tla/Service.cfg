SPECIFICATION FairSpec
CONSTANTS
  team = team
  guest = guest
  large = large
  small = small
  spare = spare
  visit = visit
  NoTask = NoTask
  Account = {team}
  Founding = {team}
  Hard <- MCHard
  Task = {large, small, spare}
  AccountOf <- MCAccountOf
  Slo <- MCSlo
  Request <- MCRequest
  MaxRequest = 2
  Jupyter = {spare}
  Deletable = {}
  MaxDay = 1
  MaxEvents = 1
  Budget <- NoFaults
INVARIANTS ClusterWithinQuota
PROPERTIES BestEffortServed FittingServed
