CONSTANTS
  a = a
  b = b
  t1 = t1
  t2 = t2
  o = o
  None = None
  Receivers = {a, b}
  Threads = {t1, t2}
  Thread <- MCThread
  Main = t1
  Others = {o}
  MaxEvents = 2
SPECIFICATION Spec
INVARIANTS
  TypeOK
  ListMatchesLife
  NotAfterUnpublish
PROPERTIES
  ReachesSubscribers
  CallsReturn
  DroppedAreDestroyed
\* the application may stop
CHECK_DEADLOCK FALSE
