CONSTANTS
  None = None
  Anys = {"a", "b", "c"}
  storage_ <- MCStorage
  Length = 96
  max_align_t = 16
  Types = {"pointer", "wide", "block", "bytes"}
  sizeof <- MCSizeof
  alignof <- MCAlignof
  Values = {v1, v2, v3}
  v1 = v1
  v2 = v2
  v3 = v3
  Heap = {h1, h2, h3}
SPECIFICATION Spec
INVARIANTS
  TypeOK
  OneOwner
  InStorage
PROPERTIES
  ImplementsBox
\* a program may abort
CHECK_DEADLOCK FALSE
