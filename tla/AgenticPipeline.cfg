\* The prepare-ahead queue: three pairs through two LLM slots and one evaluation
\* slot, so that the look-ahead fills, evaluations queue up and a batch can hold
\* a failure together with finished work; two pairs may leave something behind.
CONSTANTS
  N = 3
  GenerationWorkers = 2
  EvaluationWorkers = 1
  Precreate = TRUE
  MaxLeft = 2
SPECIFICATION Spec
INVARIANTS
  NoPairLostOrDuplicated
  WithinLimits
  WorkConserving
  RecordedGenuine
  CleanFinish
PROPERTIES
  LiveSessionKeepsContainer
  ImplementsLedger
  Terminates
