CONSTANTS
  s = s
  r = r
  w = w
  e1 = e1
  e2 = e2
  e3 = e3
  t1 = t1
  t2 = t2
  None = None
  Components = {s, r, w}
  Threads = {t1, t2}
  Executors = {e1, e2, e3}
  Calls = {"c1", "c2", "c3"}
  Lifetimes = {"l1", "l2"}
  Sender <- MCSender
  Receiver <- MCReceiver
  Lifetime <- MCLifetime
  Holder <- MCHolder
  DefaultExecutor <- MCDefault
  Override <- MCOverride
  Thread <- MCThread
  Destroyable = {r}
  MaxReplies <- MCReplies
  MaxResets <- MCResets
SPECIFICATION SafeSpec
INVARIANTS
  AnswerTouchesNoDeadSender
\* undefined behaviour may end the program
CHECK_DEADLOCK FALSE
