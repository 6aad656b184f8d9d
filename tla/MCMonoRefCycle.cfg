CONSTANTS
  a = a
  b = b
  u = u
  v = v
  m1 = m1
  m2 = m2
  e1 = e1
  e2 = e2
  None = None
  Components = {a, b}
  Messages = {m1, m2}
  Refs = {"r1", "r2"}
  Executors = {e1, e2}
  Owner <- CycleOwner
  Msg <- CycleMsg
  Provides <- CycleProvides
  DefaultExecutor <- CycleDefault
  Override <- CycleOverride
  Filtered = {}
  MaxFilters = 0
SPECIFICATION Spec
PROPERTIES
  DroppedAreDestroyed
\* every component may end unpublished, dropped and destroyed
CHECK_DEADLOCK FALSE
