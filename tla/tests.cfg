INIT TestInit
NEXT TestNext
CONSTANTS
  Category <- MCCategory
  Ancestry <- MCAncestry
  RdkModules <- MCRdkModules
  RdkRoot = "LOG.RDK"
  DefaultCategory = "LOG.RDK.DEFAULT"
  Files <- MCFiles
  EarlyCalls = TRUE
  BackendMayFail = FALSE
  Modules = {}
  Adjustable = {}
  RuntimeLevels = {}
  EnableFlags = {}
  MessageLevels = {}
  Char <- MCChar
  LineBuf = 256
  NameMax = 64
  MaxBuf = 1024
  NoText = NoText
INVARIANT Expectations
