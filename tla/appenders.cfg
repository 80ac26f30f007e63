SPECIFICATION Spec
CONSTANTS
  Category = {"root", "LOG.RDK", "LOG.RDK.A", "LOG.RDK.A.B"}
  Ancestry <- MCAncestry
  RdkRoot = "LOG.RDK"
  FileName <- MCFileName
  PrintName <- MCPrintName
  Configurable = {"LOG.RDK.A"}
  Outputs = {"CONSOLE", "SYSLOG", "FILE"}
  Formats = {"WITH_TS"}
  Targets = {t1, t2}
  Block = {b1, b2}
  NULL = NULL
  Stdout = Stdout
INVARIANTS TypeOK DataFitsType HeldOnce PolicyIsBound
PROPERTY ImplementsRouting
SYMMETRY Interchangeable
VIEW BarSent
