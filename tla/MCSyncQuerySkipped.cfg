CONSTANTS
  x = x
  y = y
  z = z
  w = w
  e1 = e1
  e2 = e2
  e3 = e3
  t1 = t1
  t2 = t2
  t3 = t3
  None = None
  Components = {x, y, z, w}
  Executors = {e1, e2, e3}
  Threads = {t1, t2, t3}
  DefaultExecutor <- Home
  Thread <- MCThread
  Active = {w, y}
  Queries <- Skipped
  References <- Skipped
  MaxDepth = 3
SPECIFICATION Spec
INVARIANTS
  SkippedLockIsHarmless
