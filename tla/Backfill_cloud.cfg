\* The size script called with --base-url, over a run of a cloud provider.
CONSTANTS
  s1 = s1
  s2 = s2
  N = 4
  Servers = {s1, s2}
  Server <- MCServer
  Live <- MCLive
  Sizes = {1, 2}
  Libraries <- MCLibraries
  Options <- OneServer
  MaxFaults = 0
SPECIFICATION SafeSpec
INVARIANT CloudRunsUntouched
