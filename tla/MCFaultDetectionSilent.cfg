SPECIFICATION Spec
CONSTANTS
  Evaluators = {tick}
  Persistence = 2
  Clear = 0
  MaxTime = 4
  None = None
INVARIANTS
  NotSilentlyCleared
