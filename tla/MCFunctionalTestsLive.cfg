SPECIFICATION FairSpec
CONSTANTS
  r1 = r1
  r2 = r2
  t1 = t1
  t2 = t2
  manual = manual
  output = output
  behaved = behaved
  Runs = {r1}
  Tests = {t2}
  Points = {output, behaved}
  TestPoints <- MCTestPoints
  Commandable = {output}
  Manual = {}
  MaxSteps = 3
  Faults = {"crash", "database", "edit", "pause"}
PROPERTIES
  CancelEnds
  RunsEnd
