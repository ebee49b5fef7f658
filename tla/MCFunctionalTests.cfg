SPECIFICATION Spec
CONSTANTS
  r1 = r1
  r2 = r2
  t1 = t1
  t2 = t2
  manual = manual
  output = output
  behaved = behaved
  Runs = {r1, r2}
  Tests = {t1, t2}
  Points = {manual, output}
  TestPoints <- MCTestPoints
  Commandable = {output}
  Manual = {manual}
  MaxSteps = 2
  Faults = {"crash", "database", "edit"}
SYMMETRY RunSymmetry
INVARIANTS
  TypeOK
  MarksAreOwed
  GivesBack
  RowsTrackTasks
  OneActiveUnlessRaced
