SPECIFICATION Spec
CONSTANTS
  longTime = longTime
  lowUsage = lowUsage
  seeded = seeded
  edited = edited
  Job = {longTime, lowUsage}
  Conf = {seeded, edited}
  Valid <- MCValid
  Seed <- MCSeed
  MaxEntry = 4
  Budget <- AllFaults
INVARIANTS TypeOK ActiveIsScheduled
PROPERTIES OthersStayScheduled FailedWriteLeavesNoTrace
