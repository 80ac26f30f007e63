----------------------------- MODULE LogRouting -----------------------------
(***************************************************************************)
(* What rdk_logger_ext_init promises (include/rdk_logger.h:226-300): every *)
(* module has a destination and a format, its own or those of the nearest  *)
(* module that encloses it, and only a call that names it changes them.    *)
(***************************************************************************)
EXTENDS Sequences, Integers

CONSTANTS Category, Ancestry, RdkRoot, NULL, Configurable, Outputs, Formats,
          Targets

VARIABLES route, configured, sent

vars == << route, configured, sent >>

Shows(format) ==
  (IF format \in {"WITH_TS", "WITH_TS_TID", "DETAIL_WITH_TS"}
   THEN << "timestamp" >> ELSE << >>)
  \o << "priority" >> \o
  (IF format \in {"DETAIL_WITH_TS", "DETAIL_WITHOUT_TS"}
   THEN << "module" >> ELSE << >>) \o
  (IF format \in {"PLAINTEXT", "WITH_TS"} THEN << >> ELSE << "tid" >>)
  \o << "message" >>

(* The places an output can mean; without memory, a file is none. *)
Places(output, target) ==
  CASE output = "CONSOLE" -> {"stdout"}
    [] output = "SYSLOG"  -> {"syslog"}
    [] output = "JOURNAL" -> {"journal"}
    [] output = "FILE"    -> {target, NULL}

Configure(c, output, target, format) ==
  /\ \E place \in Places(output, target) :
       route' = [route EXCEPT ![c] = [to |-> place, format |-> format]]
  /\ configured' = configured \cup {c}
  /\ sent' = {}

Refuse == sent' = {} /\ UNCHANGED << route, configured >>

(* The nearest configured category at or above c, if there is one. *)
Nearest(c) ==
  LET path == Ancestry[c]
  IN  { path[i] : i \in { i \in 1 .. Len(path) :
          /\ path[i] \in configured
          /\ \A j \in 1 .. (i - 1) : path[j] \notin configured } }

(* A file that cannot be opened loses the message. *)
Log(c) ==
  /\ \/ sent' = { [to |-> route[d].to, fields |-> Shows(route[d].format)] :
                  d \in { d \in Nearest(c) : route[d].to # NULL } }
     \/ /\ \A d \in Nearest(c) : route[d].to \in Targets \cup {NULL}
        /\ sent' = {}
  /\ UNCHANGED << route, configured >>

Init ==
  /\ route = [c \in Category |->
       IF c = RdkRoot THEN [to |-> "stdout", format |-> "DETAIL_WITHOUT_TS"]
       ELSE [to |-> NULL, format |-> "PLAINTEXT"]]
  /\ configured = {RdkRoot}
  /\ sent = {}

Next ==
  \/ \E c \in Configurable \cup {RdkRoot}, output \in Outputs,
        target \in Targets, format \in Formats :
       Configure(c, output, target, format)
  \/ Refuse
  \/ \E c \in Category : Log(c)

Spec == Init /\ [][Next]_vars

=============================================================================
