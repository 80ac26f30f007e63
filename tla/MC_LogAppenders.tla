-------------------------- MODULE MC_LogAppenders --------------------------
(***************************************************************************)
(* An instance of LogAppenders: "LOG.RDK.A.B" is nested below "LOG.RDK.A". *)
(***************************************************************************)
EXTENDS LogAppenders, TLC

MCAncestry ==
  [c \in Category |->
     CASE c = "root"        -> << "root" >>
       [] c = "LOG.RDK"     -> << c, "root" >>
       [] c = "LOG.RDK.A.B" -> << c, "LOG.RDK.A", "LOG.RDK", "root" >>
       [] OTHER             -> << c, "LOG.RDK", "root" >>]

MCFileName ==
  [c \in Category |->
     CASE c = "root"        -> "root.file"
       [] c = "LOG.RDK"     -> "LOG.RDK.file"
       [] c = "LOG.RDK.A"   -> "LOG.RDK.A.file"
       [] OTHER             -> "LOG.RDK.A.B.file"]

MCPrintName ==
  [c \in Category |->
     CASE c = "root"        -> "root.print"
       [] c = "LOG.RDK"     -> "LOG.RDK.print"
       [] c = "LOG.RDK.A"   -> "LOG.RDK.A.print"
       [] OTHER             -> "LOG.RDK.A.B.print"]

Interchangeable == Permutations(Block) \cup Permutations(Targets)

(* sent is written by every step and read by none. *)
BarSent == << appender, routed, additive, heap, bound >>

=============================================================================
