SPECIFICATION Spec
CONSTANTS
  Category = {"root", "LOG.RDK", "LOG.RDK.DEFAULT", "LOG.RDK.A", "LOG.RDK.A.B", "OTHER"}
  Ancestry <- MCAncestry
  RdkModules = {"LOG.RDK.DEFAULT", "LOG.RDK.A", "LOG.RDK.A.B"}
  RdkRoot = "LOG.RDK"
  DefaultCategory = "LOG.RDK.DEFAULT"
  Files <- NestedFiles
  EarlyCalls = TRUE
  BackendMayFail = TRUE
  Modules = {"LOG.RDK", "LOG.RDK.A", "LOG.RDK.A.B", "OTHER", "", "NULL"}
  Adjustable = {"LOG.RDK", "LOG.RDK.A", "LOG.RDK.A.B", "", "NULL"}
  RuntimeLevels = {1, 5}
  EnableFlags = {TRUE, FALSE}
  MessageLevels = {1, 4}
INVARIANTS ConfigWins FallbackIsRoot ReportedIsEnforced NamelessLikeUnset WarnUntilInit OneAppender
VIEW BarAnswer
