CONSTANTS
  q1 = q1  q2 = q2  q3 = q3
  e1 = e1  e2 = e2  e3 = e3  e4 = e4  e5 = e5
  a1 = a1  a2 = a2  b1 = b1  n1 = n1
  Requests = {q1, q2}
  Ids = {e1, e2}
  Data = {a1, b1}
  KeyOf <- MCKeyOf
  NoKey = NoKey
  SafeField = TRUE
  States <- MCStates
  Active = "active"
  Keep = Keep
  Batches <- MCBatches
  Absent = Absent
  Versions = {1, 2}
  Unset = Unset
SPECIFICATION Spec
\* every request is answered once: the system stops when none is left
CHECK_DEADLOCK FALSE
PROPERTY ImportKeepsVersionOrder
