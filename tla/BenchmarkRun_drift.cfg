\* The same run, but every attempt picks its own YAML.
CONSTANTS
  ScoredTasks = {1, 2}
  Suites = {FALSE}
  GreenfieldDiscovery = {1}
  EvolutionDiscovery = {1}
  Temperatures = {1, 2}
  Scores = {0, 1}
  Configs <- DriftingConfigs
  Calibrations = {1}
  MaxAttempts = 3
SPECIFICATION SafeSpec
INVARIANTS
  DoneBacked
PROPERTIES
  SelectionFinal
CHECK_DEADLOCK FALSE
