CONSTANTS
  r1 = r1  r2 = r2  t1 = t1  t2 = t2
  d1 = d1  d2 = d2  s1 = s1
  Requests = {r1}
  Ticks = {t1}
  Defs = {d1, d2}
  Sources = {}
  Rare = {d1}
  Null = Null
  MaxFaults = 0
SPECIFICATION FairSpec
PROPERTIES
  DueIsAttended
