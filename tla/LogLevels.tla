------------------------------ MODULE LogLevels ------------------------------
(***************************************************************************)
(* The levels of include/rdk_logger.h, the log4c priorities they are       *)
(* turned into, and log4c's rule for deciding whether a category lets a    *)
(* priority through.  No state: every other module builds on these tables. *)
(***************************************************************************)
EXTENDS Integers

(***************************************************************************)
(* rdk_LogLevel, an enum: FATAL = 0 ... TRACE = 6, and NONE = 7, which is  *)
(* a request for silence rather than a level a message can have.           *)
(***************************************************************************)
FATAL  == 0
ERROR  == 1
WARN   == 2
NOTICE == 3
INFO   == 4
DEBUG  == 5
TRACE  == 6
NONE   == 7

Level        == 0 .. 7
MessageLevel == 0 .. 6

(***************************************************************************)
(* log4c priorities: the smaller, the more severe.  A category whose own   *)
(* priority is NOTSET takes its parent's.  SILENT is the library's own     *)
(* LOG4C_PRIORITY_NONE, below every priority a message can have.           *)
(***************************************************************************)
NOTSET  == 900
UNKNOWN == 1000
SILENT  == -1

MessagePriority == {0, 300, 400, 500, 600, 700, 800}
Priority        == MessagePriority \cup {SILENT, NOTSET, UNKNOWN}

(***************************************************************************)
(* The switch of rdk_logLevel_to_log4c_priority: NONE and anything out of  *)
(* range become UNKNOWN, the largest priority there is.                    *)
(***************************************************************************)
LevelToPriority(level) ==
  CASE level = FATAL  -> 0
    [] level = ERROR  -> 300
    [] level = WARN   -> 400
    [] level = NOTICE -> 500
    [] level = INFO   -> 600
    [] level = DEBUG  -> 700
    [] level = TRACE  -> 800
    [] OTHER          -> UNKNOWN

(* And back: a priority that no message level has is reported as NONE. *)
PriorityToLevel(priority) ==
  CASE priority = 0   -> FATAL
    [] priority = 300 -> ERROR
    [] priority = 400 -> WARN
    [] priority = 500 -> NOTICE
    [] priority = 600 -> INFO
    [] priority = 700 -> DEBUG
    [] priority = 800 -> TRACE
    [] OTHER          -> NONE

(***************************************************************************)
(* A value as debug.ini spells it is a level or Unrecognised (what         *)
(* rdk_logger_level_from_string answers NONE to, "ALL" and "!TRACE"        *)
(* included).  The parser silences a module for NONE and for Unrecognised. *)
(***************************************************************************)
Unrecognised == 8
Setting      == Level \cup {Unrecognised}

SettingPriorityByTable(setting) == LevelToPriority(setting)  \* slip

SettingPriority(setting) ==
  IF setting \in MessageLevel THEN LevelToPriority(setting) ELSE SILENT

=============================================================================
