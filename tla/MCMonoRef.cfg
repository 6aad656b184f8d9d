CONSTANTS
  a = a
  b = b
  u = u
  v = v
  m1 = m1
  m2 = m2
  e1 = e1
  e2 = e2
  None = None
  Components = {a, b}
  Messages = {m1, m2}
  Refs = {"r1", "r2"}
  Executors = {e1, e2}
  Owner <- RivalsOwner
  Msg <- RivalsMsg
  Provides <- RivalsProvides
  DefaultExecutor <- RivalsDefault
  Override <- RivalsOverride
  Filtered = {a}
  MaxFilters = 1
SPECIFICATION SafeSpec
INVARIANTS
  TypeOK
  CacheIsCurrent
  HandlerKeptAlive
  ListedWhilePublished
PROPERTIES
  FailsOnlyOnReplacedList
\* every component may end unpublished, dropped and destroyed
CHECK_DEADLOCK FALSE
