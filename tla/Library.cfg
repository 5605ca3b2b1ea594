CONSTANTS
  Names = {1, 2, 3, 4, 5, 6, 7, 8}
  Nil = Nil
  SplayKeys = {1, 2, 3, 4, 5, 6}
  Empty = Empty
  Values <- SomeValues
  Wides <- SomeWides
  MaxLen = 4
  MaxSize = 15
  Junk = 200
  NoString = NoString
  Wishes <- SomeWishes
  MaxLong = 63
  MaxUInt = 31
  Leaves <- SomeLeaves
  MemberNames <- SomeNames
  ConfigFiles <- PlainFiles
  TextMembers <- SomeTextMembers
  NumberMembers <- SomeNumberMembers
  RpcPorts <- ThePorts
  MaxPorts = 2
  la = la
  lb = lb
  Servers = {s1, s2, s3}
  Symbols = {la, lb}
  Wildcard = Wildcard
  HostNames <- SomeHostNames
  MaxText = 3
  MaxTable = 2
SPECIFICATION LibrarySpec
INVARIANT TreesAreSound
INVARIANT TextsReadBack
PROPERTY LookupsAreRight
PROPERTY StringsImplemented
CONSTRAINT NarrowText
VIEW WithoutAnswers
CHECK_DEADLOCK FALSE
