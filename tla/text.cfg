CONSTANTS
  Char <- MCChar
  LineBuf = 4
  MaxBuf = 3
  NoText = NoText
  NameMax = 2
  MaxText = 7
  MaxMessage = 3
  Texts <- MCTexts
  Categories <- MCCategories
  Messages <- MCMessages
  Sizes = {2, 3, 4, 6, 8, 12}
  Codes = {"ready"}
  Times <- MCTimes
  ArgLists <- MCArgLists
  Processes <- MCProcesses

SPECIFICATION Spec

INVARIANTS
  ReadsAsWritten
  TerminatorInside
  RecordIsWhole
  OneRecordPerCall
  MilestonesInOrder
  AppliedAsMeant
