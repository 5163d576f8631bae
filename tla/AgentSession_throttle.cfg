\* A retry of one session, and another session at the limiter.
CONSTANTS
  Sessions = {s1, s2}
  Configs <- PlainConfigs
  Interval = 2
SPECIFICATION SafeSpec
PROPERTY StartsThrottled
CHECK_DEADLOCK FALSE
