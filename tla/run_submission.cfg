CONSTANTS
  r1 = r1
  r2 = r2
  r3 = r3
  k1 = k1
  prj1 = prj1
  prj2 = prj2
  p1 = p1
  s1 = s1
  None = None
  Runs = {r1, r2, r3}
  Keys = {k1}
  Projects = {prj1, prj2}
  Plans = {p1}
  Syncers = {s1}
  Limit <- LimitOne
  Adapter = "mock"
  MaxFaults = 0
  MaxCancels = 0
SPECIFICATION Spec
SYMMETRY RunSymmetry
INVARIANTS TypeOK LimitRespected LiveJobsWithinLimit OneJobPerKey ReplaysAreFaithful
