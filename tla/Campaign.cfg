\* Two pairs or one, two speeds a calibration can measure, two configurations
\* the user may start and resume with, one of them without calibration; four
\* process starts.
CONSTANTS
  greenfield_pi = greenfield_pi
  evolution_pi = evolution_pi
  Pair = {greenfield_pi, evolution_pi}
  Orders <- MCOrders
  Protocols = {original, changed}
  Calibrated = {original}
  Measurements <- TwoSpeeds
  MaxAttempts = 4
SPECIFICATION Spec
CHECK_DEADLOCK FALSE
INVARIANTS
  CompletedIsBacked
  OneCalibration
  OutcomesRecorded
PROPERTIES
  CompletedIsFinal
  ZeroMeansComplete
