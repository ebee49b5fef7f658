SPECIFICATION Spec
CONSTANTS
  d1 = d1
  p1 = p1
  p2 = p2
  r1 = r1
  r2 = r2
  w1 = w1
  Devices = {d1}
  Points = {p1, p2}
  DeviceOf <- MCDeviceOf
  InitialRows = {p1}
  Owned = {p1}
  Reloads = {r1, r2}
  Writes = {}
  MaxEdits = 2
SYMMETRY ReloadSymmetry
INVARIANTS
  RestoresLiveValues
