\* The claim SavedResultsLoad, against kills between two writes.
CONSTANTS
  ScoredTasks = {1, 2}
  Suites = {FALSE}
  GreenfieldDiscovery = {1}
  EvolutionDiscovery = {1}
  Temperatures = {1, 2}
  Scores = {0, 1}
  Configs <- OneConfig
  Calibrations = {1}
  MaxAttempts = 2
SPECIFICATION SafeSpec
INVARIANT SavedResultsLoad
CHECK_DEADLOCK FALSE
