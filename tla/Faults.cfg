SPECIFICATION Spec
CONSTANTS
  team = team
  guest = guest
  large = large
  small = small
  spare = spare
  visit = visit
  NoTask = NoTask
  Account = {team, guest}
  Founding = {team}
  Hard <- MCHard
  Task = {large, visit}
  AccountOf <- MCAccountOf
  Slo <- MCSlo
  Request <- MCRequest
  MaxRequest = 2
  Jupyter = {large}
  Deletable = {large, visit}
  MaxDay = 1
  MaxEvents = 1
  Budget <- Errors
INVARIANTS TypeOK UsageAccounted QueuedXorReserved
