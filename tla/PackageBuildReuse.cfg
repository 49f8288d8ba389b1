\* Reuse of a work directory whose first run did not finish.
SPECIFICATION Spec
CONSTANTS
  None = None
  Modes <- MCWorkDir
  Splits = 1
  OutOfSource = TRUE
  Privileges = {FALSE}
  MaxRuns = 2
  MaxFaults = 1
  MaxKills = 1
INVARIANTS
  ReuseBuildsPatched
CHECK_DEADLOCK FALSE
