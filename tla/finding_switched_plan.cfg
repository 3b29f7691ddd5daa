CONSTANTS
  cpu = cpu
  gpu = gpu
  r1 = r1
  r2 = r2
  None = None
  Preparers = {r1, r2}
  Plans = {cpu, gpu}
  Limit = 1
  Variables = {}
  Secrets = {}
  MaxEvents = 3
SPECIFICATION PreparationSpec
CHECK_DEADLOCK FALSE
INVARIANT PlanLimitHolds
