SPECIFICATION CursorSpec
CONSTANTS
  d1 = d1
  d2 = d2
  a = a
  i1 = i1
  s1 = s1
  DBs = {d1}
  DefaultDB = d1
  Keys = {1, 2}
  Chunks = {a}
  Absent = Absent
  NoDb = NoDb
  NoKey = NoKey
  None = None
  Off = Off
  Lost = Lost
  MaxLen = 1
  MaxVersions = 3
  StepCounts = {0, 2}
  KeyLists <- NoLists
  EngineFaults = TRUE
  IterIds = {i1}
  SnapIds = {s1}
VIEW WithoutAnswers
INVARIANT CursorTypeOK
INVARIANT ViewIsFrozen
INVARIANT StandsOnAPair
INVARIANT ScanSeesAll
PROPERTY AnswersAreFrozen
