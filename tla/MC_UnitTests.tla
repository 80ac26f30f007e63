---------------------------- MODULE MC_UnitTests ----------------------------
(***************************************************************************)
(* The tests in processes of their own: all categories any of them names.  *)
(***************************************************************************)
EXTENDS UnitTests

Flat ==
  { SampleLines[i][1] : i \in DOMAIN SampleLines }
    \cup { "LOG.RDK." \o LevelName[i] : i \in DOMAIN LevelName }
    \cup { "LOG.RDK.TEST", "LOG.RDK.WARNING", "LOG.RDK.MODULE0",
           "LOG.RDK.MODULE999", "LOG.RDK.VERY_LONG_MODULE_NAME",
           "LOG.RDK.TEST_WITH_UNDERSCORES", "LOG.RDK.TEST-WITH-DASHES",
           "LOG.RDK.PERFORMANCE", "LOG.RDK.STRESS", "LOG.RDK.ROTATION",
           "LOG.RDK.FOO", "LOG.RDK.TESTMOD", "LOG.RDK.A_64", "LOG.RDK.MEDIUM002",
           "LOG.RDK.RTMESSAGE", "LOG.RDK.GET_LEVEL" }

Nested == "LOG.RDK.TEST.WITH.DOTS"

MCRdkModules == Flat \cup {Nested, "LOG.RDK.TEST.WITH"}

MCCategory == MCRdkModules \cup {"root", "LOG.RDK", "AAAA", " "}

MCAncestry ==
  [c \in Category |->
     CASE c = "root"              -> << c >>
       [] c = Nested              -> << c, "LOG.RDK.TEST.WITH", "LOG.RDK.TEST",
                                        "LOG.RDK", "root" >>
       [] c = "LOG.RDK.TEST.WITH" -> << c, "LOG.RDK.TEST", "LOG.RDK", "root" >>
       [] c \in Flat              -> << c, "LOG.RDK", "root" >>
       [] OTHER                   -> << c, "root" >>]

MCFiles == { << >> \o Parsed(text) : text \in Inis }

MCChar == UNION { { text[i] : i \in DOMAIN text } : text \in Inis }

=============================================================================
