\* Two overlapping sessions, one retry, an interval of two clock ticks.
CONSTANTS
  Sessions = {s1, s2}
  Configs <- MCConfigs
  Interval = 2
SPECIFICATION Spec
INVARIANTS
  AloneInWorkspace
  HomeOutlivesContainer
  NothingLeft
  InstalledOnce
  Spaced
PROPERTY SessionsEnd
CHECK_DEADLOCK FALSE
