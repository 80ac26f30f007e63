SPECIFICATION Spec
CONSTANTS
  Category = {"root", "LOG.RDK", "LOG.RDK.DEFAULT", "LOG.RDK.A", "LOG.RDK.B"}
  Ancestry <- MCAncestry
  RdkModules = {"LOG.RDK.DEFAULT", "LOG.RDK.A", "LOG.RDK.B"}
  RdkRoot = "LOG.RDK"
  DefaultCategory = "LOG.RDK.DEFAULT"
  Files <- FlatFiles
  EarlyCalls = FALSE
  BackendMayFail = FALSE
  Modules = {"LOG.RDK.A", "LOG.RDK.B"}
  Adjustable = {"LOG.RDK.A", "LOG.RDK.B"}
  RuntimeLevels = {7}
  EnableFlags = {TRUE}
  MessageLevels = {0, 1, 2, 3, 4, 5, 6, 7}
INVARIANT NoneSilences
