SPECIFICATION Spec
CONSTANTS
  t1 = t1  t2 = t2  t3 = t3  t4 = t4  t5 = t5
  A = A  B = B  k1 = k1  k2 = k2  v1 = v1  v2 = v2  r1 = r1  r2 = r2
  None = None
  Placeholder = pending
  Tenants = {A}
  Keys = {k1, k2}
  Ids <- AllIds
  Tasks <- ThreeTasks
  Requests <- ChangedMind
  Attempts = 2
  MaxInFlight = 1
  MaxFaults = 0
INVARIANTS DecisionOnRecord
