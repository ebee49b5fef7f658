SPECIFICATION PointValuesSpec
CONSTANTS
  Numbers = {0, 2}
  States = 2
  PointWriters = {w1, w2}
  Commanded = 8
  Least = 16
  Unset = Unset
  MaxPointEdits = 2
  MaxPointTicks = 2
INVARIANT OverrideIsServed
CHECK_DEADLOCK FALSE
