SPECIFICATION Spec
CONSTANTS
  r1 = r1
  r2 = r2
  t1 = t1
  t2 = t2
  manual = manual
  output = output
  behaved = behaved
  Runs = {r1}
  Tests = {t2}
  Points = {behaved}
  TestPoints <- MCTestPoints
  Commandable = {}
  Manual = {}
  MaxSteps = 2
  Faults = {}
INVARIANTS
  NeverLeavesModified
