CONSTANTS
  r1 = r1
  r2 = r2
  k1 = k1
  prj1 = prj1
  p1 = p1
  s1 = s1
  s2 = s2
  None = None
  Runs = {r1, r2}
  Keys = {k1}
  Projects = {prj1}
  Plans = {p1}
  Syncers = {s1, s2}
  Limit <- LimitTwo
  Adapter = "mock"
  MaxFaults = 1
  MaxCancels = 1
SPECIFICATION Spec
SYMMETRY RunAndSyncerSymmetry
INVARIANTS NoFalseSuccess FinishedIsNotLive CancelledWasAsked OneCollector
PROPERTIES LostJobKeepsStatus CancelForestallsSuccess OutcomeEndsUnfinished
