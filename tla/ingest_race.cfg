SPECIFICATION FairSpec
CONSTANTS
  t1 = t1  t2 = t2  t3 = t3  t4 = t4
  A = A  B = B  k1 = k1  k2 = k2  k3 = k3  k4 = k4
  s1 = s1  s2 = s2  r1 = r1  r2 = r2  v1 = v1  v2 = v2
  None = None
  Placeholder = pending
  Tenants = {A}
  Keys = {k1, k2, k3, k4}
  Ids <- AllIds
  Tasks <- ThreeTasks
  Requests <- RacingRequests
  Backend = "data_fabric"
  TTL = 1
  MaxTime = 0
  MaxInFlight = 3
  MaxFaults = 0
  MaxCrashes = 0
INVARIANTS IndexIsTight
PROPERTIES EveryRequestAnswered StepsRunDown
