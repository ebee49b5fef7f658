SPECIFICATION FairSpec
CONSTANTS
  Models = {m1, m2}
  Types = {k1, k2}
  Points = {p1}
  MaxFailures = 1
  None = None
  Offered <- MCOffered
  m1 = m1
  m2 = m2
  k1 = k1
  k2 = k2
  p1 = p1
INVARIANTS OwnershipAgrees RegisteredIsConfigured ConflictMeansDrift
PROPERTIES Heals
