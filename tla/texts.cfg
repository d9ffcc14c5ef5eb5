\* Every text the program reads and every command line it writes.
SPECIFICATION Spec
CONSTANTS
  ByteLen <- SomeByteLen
  Ordinary <- SomeOrdinary
  NumMax = 99
  Names <- SomeNames
  Isos <- SomeIsos
  Kvms <- SomeKvms
  FirmwareSets <- SomeFirmware
  DataHomes <- SomeDataHomes
  Homes <- SomeHomes
  RuntimeDirs <- SomeRuntimeDirs
  NamePieces <- SomePieces
  MaxPieces = 4
  CpuLines <- SomeCpuLines
  GroupLines <- SomeGroupLines
  MemLines <- SomeMemLines
  OsAssignments <- SomeAssignments
  Versions <- SomeVersions
  PlainWords <- SomePlainWords
  PathEntries <- SomeEntries
  MaxLines = 4
  MaxAssignments = 3
CHECK_DEADLOCK FALSE
INVARIANTS
  PathsReadBack
  Wired
  NoSharedWrites
  SecureBootAgrees
  SameSocket
  NamesStayInside
  SocketsFitRuntimeDir
  CpuFound
  GroupFound
  VersionReadBack
  OsReadBack
  MediumOnlyAdds
  AnswersStick
