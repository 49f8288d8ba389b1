\* Runs of one builder in each kind of work directory, with two split outputs:
\* one run more than the failures before it.
SPECIFICATION FairSpec
CONSTANTS
  None = None
  Modes <- MCModes
  Privileges = {TRUE, FALSE}
  Splits = 2
  OutOfSource = TRUE
  MaxRuns = 5
  MaxFaults = 2
  MaxKills = 2
INVARIANTS
  PublishedWhole
  OutputsOfOneRun
  SuccessPublishesAll
  FreshBuildsPatched
PROPERTIES
  RetriesBuild
\* A builder with no run left stops.
CHECK_DEADLOCK FALSE
