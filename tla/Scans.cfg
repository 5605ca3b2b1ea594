SPECIFICATION ScanSpec
CONSTANTS
  d1 = d1
  s1 = s1
  DBs = {d1}
  DefaultDB = d1
  Keys = {1, 2}
  Chunks = {"0", "1"}
  Absent = Absent
  NoDb = NoDb
  NoKey = NoKey
  None = None
  Off = Off
  Lost = Lost
  MaxLen = 1
  MaxVersions = 3
  StepCounts = {}
  KeyLists <- NoLists
  EngineFaults = TRUE
  IterIds = {}
  SnapIds = {s1}
  Digits <- TwoDigits
  Minus = "-"
  Space = " "
  MaxLL = 7
  MaxUInt = 3
  KeyText <- KeyTexts
  ValuePatterns <- SomePatterns
  Samples <- SomeTexts
  Distances <- SomeDistances
VIEW WithoutAnswers
PROPERTY ScansAreFrozen
PROPERTY RangeShowsWhatRemoveTakes
