---------------------------- MODULE ControlRequest ----------------------------
(***************************************************************************)
(* One request of rdklogctrl, from its arguments to the level change in    *)
(* the process it is for (main in rdklogctrl.c; the checks of the          *)
(* receiver in rdk_dynamic_logger.c).  A name is its length, whether it    *)
(* begins with "LOG.RDK.", and which one it is; a datagram's text field is *)
(* the name it holds and whether it is terminated.                         *)
(***************************************************************************)
EXTENDS ConfigText

CONSTANTS
  NameMax    (* RDK_DYNAMIC_LOG_APP_NAME_MAX and .._COMPONENT_NAME_MAX, 64   *)

ASSUME NameMaxAssumption == NameMax \in Nat /\ NameMax > 0

Refused == [sent |-> FALSE]

(* process_name_for_pid: it fails for a process without a command line. *)
Resolves(process) ==
  /\ process.exists
  /\ process.name.length \in 1 .. NameMax

(* validate_loglevel compares the beginnings of words, TRACE's with its      *)
(* terminator, and only in upper case.                                       *)
ValidateLogLevel(word) ==
  IF word.upper /\ word.stem # "" /\ (word.stem = "TRACE" => word.tail = "")
  THEN LevelNamed(word.stem) ELSE -1

(* A field of NameMax + 1 bytes filled by snprintf. *)
Field(name) == [name |-> name, terminated |-> TRUE]

(* main: the arguments are checked in turn before anything is sent. *)
RequestKeepsLongNames(args, process) ==   \* slip: the component's length
  IF /\ args.count = 3
     /\ args.pid = "positive"
     /\ args.module.length > 0
     /\ args.module.prefixed
     /\ ValidateLogLevel(args.word) # -1
     /\ Resolves(process)
  THEN [sent |-> TRUE, signature |-> "COMC",
        app_name |-> Field(process.name),
        component_name |-> Field([args.module EXCEPT
          !.length = IF @ > NameMax THEN NameMax ELSE @]),
        log_level |-> ValidateLogLevel(args.word)]
  ELSE Refused

Request(args, process) ==
  IF /\ args.count = 3
     /\ args.pid = "positive"
     /\ args.module.length \in 1 .. NameMax
     /\ args.module.prefixed
     /\ ValidateLogLevel(args.word) # -1
     /\ Resolves(process)
  THEN [sent |-> TRUE, signature |-> "COMC",
        app_name |-> Field(process.name),
        component_name |-> Field(args.module),
        log_level |-> ValidateLogLevel(args.word)]
  ELSE Refused

(* The receiver: what rdk_dyn_log_process_pending_request throws away, and   *)
(* then what rdk_dyn_log_validate_component_name does.  The change of level  *)
(* it makes, or nothing.                                                     *)
Applied(datagram, progname) ==
  IF /\ datagram.app_name.terminated /\ datagram.component_name.terminated
     /\ datagram.signature = "COMC"
     /\ datagram.app_name.name = progname
     /\ datagram.log_level \in FATAL .. NONE
  THEN << [module |-> datagram.component_name.name,
           level |-> datagram.log_level] >>
  ELSE << >>

=============================================================================
