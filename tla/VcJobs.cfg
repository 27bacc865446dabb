SPECIFICATION Spec
CONSTANTS
  None = None
  Job = {job}
  Request = {stop}
  Sweeper = {nightly, hourly}
  MaxRestarts = 1
  MaxFaults = 1
INVARIANTS TypeOK HiddenNeverRuns MailedOnce GoneIsPursued
PROPERTIES EndedIsKept RemovedStaysRemoved EveryRecordEnds
\* when the only job is gone and its record has ended, nothing is left to do
CHECK_DEADLOCK FALSE
