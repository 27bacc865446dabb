SPECIFICATION Spec
CONSTANTS
  team = team
  guest = guest
  large = large
  small = small
  spare = spare
  visit = visit
  NoTask = NoTask
  Account = {team}
  Founding = {team}
  Hard <- MCHard
  Task = {large, small}
  AccountOf <- MCAccountOf
  Slo <- MCSlo
  Request <- MCRequest
  MaxRequest = 2
  Jupyter = {}
  Deletable = {large}
  MaxDay = 2
  MaxEvents = 1
  Budget <- Refusals
INVARIANTS OneLiveJob
