SPECIFICATION Spec
CONSTANTS
  Evaluators = {tick, api}
  Persistence = 2
  Clear = 1
  MaxTime = 4
  None = None
INVARIANTS
  TypeOK
  TimersMeasureStreak
  EventsChain
  AlarmOpenIffActivated
PROPERTIES
  ActivationEarned
  ClearEarned
