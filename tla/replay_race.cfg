SPECIFICATION Spec
CONSTANTS
  t1 = t1  t2 = t2  t3 = t3  t4 = t4
  k1 = k1  k2 = k2
  o1 = o1  o2 = o2  o3 = o3  o4 = o4
  None = None
  Tasks <- ThreeTasks
  Keys = {k1, k2}
  Operations = {o1, o2, o3, o4}
  Requests <- TwoKeys
  MaxInFlight = 3
  MaxFaults = 1
SYMMETRY TaskSymmetry
INVARIANTS TypeOK AuditedBeforeStarted TrailIsTrue

