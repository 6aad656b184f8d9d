CONSTANTS
  Producers = {p1, p2}
  Worker = w
  NoThread = NoThread
  Blank = Blank
  MaxTasks = 2
SPECIFICATION Spec
INVARIANTS
  TypeOK
  LockDiscipline
  NoHalfBuiltTask
  ExactlyOnceInOrder
PROPERTIES
  ImplementsWorkQueue
  EveryTaskRuns
