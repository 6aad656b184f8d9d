CONSTANTS
  a = a
  b = b
  u = u
  v = v
  m1 = m1
  m2 = m2
  e1 = e1
  e2 = e2
  None = None
  Components = {a, u, v}
  Messages = {m1}
  Refs = {"r1", "r2"}
  Executors = {e1, e2}
  Owner <- SharedOwner
  Msg <- SharedMsg
  Provides <- SharedProvides
  DefaultExecutor <- SharedDefault
  Override <- SharedOverride
  Filtered = {a}
  MaxFilters = 1
SPECIFICATION SafeSpec
PROPERTIES
  LookupFindsReceiver
\* every component may end unpublished, dropped and destroyed
CHECK_DEADLOCK FALSE
