CONSTANTS
  r1 = r1
  r2 = r2
  k1 = k1
  prj1 = prj1
  p1 = p1
  s1 = s1
  None = None
  Runs = {r1, r2}
  Keys = {k1}
  Projects = {prj1}
  Plans = {p1}
  Syncers = {s1}
  Limit <- LimitTwo
  Adapter = "mock"
  MaxFaults = 1
  MaxCancels = 0
SPECIFICATION Spec
INVARIANT OneJobPerKey
