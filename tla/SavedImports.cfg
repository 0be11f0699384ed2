CONSTANTS
  r1 = r1  r2 = r2  t1 = t1  t2 = t2
  d1 = d1  d2 = d2  s1 = s1
  Requests = {r1, r2}
  Ticks = {t1, t2}
  Defs = {d1}
  Sources = {s1}
  Rare = {}
  Null = Null
  MaxFaults = 1
SYMMETRY MCSymmetry
SPECIFICATION Spec
INVARIANTS
  TypeOK NoOverlappingRuns LocksAccounted EnabledHasNext TicksGuarded
