SPECIFICATION RestSpec
CONSTANTS
  d1 = d1
  d2 = d2
  a = a
  b = b
  DBs = {d1}
  DefaultDB = d1
  Keys = {1, 2}
  Chunks = {a, b}
  Absent = Absent
  NoDb = NoDb
  NoKey = NoKey
  MaxLen = 2
  KeyLists <- ListsOfTwo
  EngineFaults = TRUE
INVARIANT TypeOK
INVARIANT ReportedErrorIsReset
PROPERTY KVImplemented
