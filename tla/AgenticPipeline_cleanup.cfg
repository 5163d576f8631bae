\* The claim of the comment at cli.py:1562, on the smallest instance.
CONSTANTS
  N = 2
  GenerationWorkers = 2
  EvaluationWorkers = 1
  Precreate = TRUE
  MaxLeft = 0
SPECIFICATION SafeSpec
PROPERTY FinishedPreparesCleanedUp
