SPECIFICATION Spec
CONSTANTS
  d1 = d1
  d2 = d2
  a = a
  b = b
  DBs = {d1, d2}
  DefaultDB = d1
  Keys = {1, 2}
  Chunks = {a}
  Absent = Absent
  NoDb = NoDb
  NoKey = NoKey
  MaxLen = 1
  KeyLists <- ListsOfTwo
  EngineFaults = FALSE
INVARIANT HealthyStore
PROPERTY NotFoundIsTrue
PROPERTY KVImplemented
