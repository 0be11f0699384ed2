CONSTANTS
  p1 = p1  p2 = p2  d1 = d1  r1 = r1  a1 = a1  a2 = a2
  Projects = {p1, p2}
  Datasets = {d1}
  Runs = {r1}
  DatasetOf <- MCDatasetOf
  Admins = {a1, a2}
  Files <- MCFiles
  Null = Null
  MaxFaults = 1
SPECIFICATION FairSpec
INVARIANTS
  TypeOK RecordTruthful ArchivedAtConsistent
PROPERTIES
  PolicyHolds EndedStays OwnersKept RunEnds
