CONSTANTS
  r1 = r1
  k1 = k1
  prj1 = prj1
  p1 = p1
  s1 = s1
  None = None
  Runs = {r1}
  Keys = {k1}
  Projects = {prj1}
  Plans = {p1}
  Syncers = {s1}
  Limit <- LimitOne
  Adapter = "slurm"
  MaxFaults = 0
  MaxCancels = 0
SPECIFICATION Spec
INVARIANT SilentEndWasAsked
