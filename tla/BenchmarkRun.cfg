\* A run of either suite: three scored tasks; two of them are the discovery tasks
\* of greenfield, evolution has one of its own.  Two candidate temperatures;
\* started once and resumed up to twice with the same YAML.
CONSTANTS
  ScoredTasks = {1, 2, 3}
  Suites = {FALSE, TRUE}
  GreenfieldDiscovery = {1, 2}
  EvolutionDiscovery = {4}
  Temperatures = {1, 2}
  Scores = {0, 1}
  Configs <- ProbingConfig
  Calibrations = {1, 2}
  MaxAttempts = 3
SPECIFICATION Spec
INVARIANTS
  SelectionJustified
  FullNeedsSelection
  SummaryBacked
  CalibrationKept
PROPERTIES
  SavedResultsFinal
  AttemptEnds
CHECK_DEADLOCK FALSE
