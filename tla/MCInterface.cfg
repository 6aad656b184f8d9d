CONSTANTS
  p = p
  o = o
  far = far
  t1 = t1
  t2 = t2
  iface = iface
  None = None
  Components = {p, o}
  Messages = {iface}
  Interface = iface
  Threads = {t1, t2}
  HomeThread <- MCHomeThread
  Refs = {far}
  RefThread <- MCRefThread
  Queries = {"get", "view"}
  Kind <- MCKind
  Override <- MCOverride
  allow_direct_call_async <- MCDirect
  MaxFilters <- MCFilters
  MaxRequests = 1
SPECIFICATION Spec
INVARIANTS
  TypeOK
  ProxyKeptAlive
  NoFilterLost
  HandledWhereItShould
PROPERTIES
  CallsGoThroughFilters
  EmptyOnlyMeanwhile
  UsesEnd
\* the application may stop
CHECK_DEADLOCK FALSE
