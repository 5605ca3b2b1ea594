SPECIFICATION BatchSpec
CONSTANTS
  d1 = d1
  d2 = d2
  a = a
  b1 = b1
  DBs = {d1, d2}
  DefaultDB = d1
  Keys = {1}
  Chunks = {a}
  Absent = Absent
  NoDb = NoDb
  NoKey = NoKey
  NoBatch = NoBatch
  MaxLen = 1
  KeyLists <- OneKeyTwice
  EngineFaults = TRUE
  BatchIds = {b1}
INVARIANT BatchTypeOK
PROPERTY CommitTakesBatch
PROPERTY KVImplemented
