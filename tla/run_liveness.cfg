CONSTANTS
  r1 = r1
  r2 = r2
  k1 = k1
  prj1 = prj1
  p1 = p1
  s1 = s1
  s2 = s2
  None = None
  Runs = {r1, r2}
  Keys = {k1}
  Projects = {prj1}
  Plans = {p1}
  Syncers = {s1, s2}
  Limit <- LimitOne
  Adapter = "mock"
  MaxFaults = 0
  MaxCancels = 0
SPECIFICATION FairSpec
PROPERTIES FinishSticks RequestsEnd
