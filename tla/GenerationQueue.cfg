\* Four pairs through two LLM slots and one evaluation slot.
CONSTANTS
  N = 4
  GenerationWorkers = 2
  EvaluationWorkers = 1
SPECIFICATION Spec
INVARIANTS
  SlotsBusy
PROPERTIES
  NothingStartsAfterCancel
  ImplementsLedger
  Terminates
