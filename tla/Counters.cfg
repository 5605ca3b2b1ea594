SPECIFICATION CounterSpec
CONSTANTS
  d1 = d1
  DBs = {d1}
  DefaultDB = d1
  Keys = {1}
  Chunks = {"0", "1", "2", "-", " ", "x"}
  Absent = Absent
  NoDb = NoDb
  NoKey = NoKey
  MaxLen = 1
  KeyLists <- NoLists
  EngineFaults = TRUE
  Digits <- ThreeDigits
  Minus = "-"
  Space = " "
  MaxLL = 3
  MaxUInt = 1
  Inputs <- SomeInputs
  StepTexts <- SomeSteps
  NumberBuf = 5
PROPERTY CountsOnce
PROPERTY CountsAgain
