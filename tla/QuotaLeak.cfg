SPECIFICATION Spec
CONSTANTS
  team = team
  guest = guest
  large = large
  small = small
  spare = spare
  visit = visit
  NoTask = NoTask
  Account = {team}
  Founding = {team}
  Hard <- MCHard
  Task = {large}
  AccountOf <- MCAccountOf
  Slo <- MCSlo
  Request <- MCRequest
  MaxRequest = 2
  Jupyter = {}
  Deletable = {}
  MaxDay = 1
  MaxEvents = 1
  Budget <- NoFaults
INVARIANTS EndedHoldsNoQuota
