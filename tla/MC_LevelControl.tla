--------------------------- MODULE MC_LevelControl ---------------------------
(***************************************************************************)
(* Instances of LevelControl.  "LOG.RDK.A.B" is nested below "LOG.RDK.A";  *)
(* "OTHER" lies outside LOG.RDK.                                           *)
(***************************************************************************)
EXTENDS LevelControl

MCAncestry ==
  [c \in Category |->
     CASE c = "root"            -> << "root" >>
       [] c = "LOG.RDK"         -> << c, "root" >>
       [] c = "LOG.RDK.A.B"     -> << c, "LOG.RDK.A", "LOG.RDK", "root" >>
       [] c = "OTHER"           -> << c, "root" >>
       [] OTHER                 -> << c, "LOG.RDK", "root" >>]

Set(name, value) == [name |-> name, value |-> value]

Default(value) == Set("LOG.RDK.DEFAULT", value)
A(value)       == Set("LOG.RDK.A", value)
B(value)       == Set("LOG.RDK.B", value)
AB(value)      == Set("LOG.RDK.A.B", value)

(* Flat files: no default, defaults before and after the modules, repeated   *)
(* lines, NONE and unrecognised values for both, and lines for other names.  *)
FlatFiles ==
  { << >>,
    << Default(INFO) >>,
    << A(DEBUG), Default(INFO) >>,
    << Default(DEBUG), A(ERROR), B(TRACE) >>,
    << Default(NONE), A(INFO) >>,
    << Default(Unrecognised), B(Unrecognised) >>,
    << Default(INFO), Default(Unrecognised), Default(ERROR), A(NONE), A(WARN) >>,
    << Set("LOG.RDK", TRACE), Default(INFO), Default(NONE), B(INFO) >> }

NestedFiles ==
  { << >>,
    << A(DEBUG), Default(INFO) >>,
    << Default(ERROR), AB(DEBUG), A(INFO) >>,
    << Set("OTHER", DEBUG), Default(NONE), A(INFO), A(ERROR) >> }

(* The answers only matter to ImplementsPolicy: where it is not checked,     *)
(* states that differ in the last answer are one.                            *)
BarAnswer ==
  << priority, appending, additive, backendReady, gRootCat, gRootPriority,
     isLogInited, step, file, line, adjusted >>

=============================================================================
