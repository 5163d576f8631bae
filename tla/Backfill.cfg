\* Four run directories, two servers, one kill or change of a library.
CONSTANTS
  s1 = s1
  s2 = s2
  N = 4
  Servers = {s1, s2}
  Server <- MCServer
  Live <- MCLive
  Sizes = {1, 2}
  Libraries <- MCLibraries
  Options <- MCOptions
  MaxFaults = 1
SPECIFICATION Spec
INVARIANTS
  OnlyKillsDamage
  SizesGenuine
PROPERTIES
  ReportTruthful
  Converges
