\* Two concurrent evaluations, one per suite, against one cancellation.
CONSTANTS
  g1 = g1
  e1 = e1
  Evaluations <- MCEvaluations
  Evolution <- MCEvolution
  Groups = 2
SPECIFICATION Spec
INVARIANTS
  ContainersRegistered
  CancelIsEffective
  NothingLeft
PROPERTIES
  VerdictFromContainer
  EvaluationsEnd
CHECK_DEADLOCK FALSE
