------------------------------ MODULE LogRecord ------------------------------
(***************************************************************************)
(* The text of one record: a message formatted by rdk_format_log into the  *)
(* buffer of log4c's event (rdk_debug_priv.c), an onboarding record        *)
(* (rdk_logger_onboard.c and its command), and the time of a milestone     *)
(* (rdk_logger_milestone.c).  A text is a sequence of characters; "stamp"  *)
(* stands for all that is printed before the module or the message.        *)
(***************************************************************************)
EXTENDS Integers, Sequences

CONSTANTS
  MaxBuf,    (* MAX_BUF_SIZE of the onboarding log, 1024 in the code         *)
  NoText     (* a NULL message or module                                     *)

ASSUME MaxBufAssumption == MaxBuf \in Nat /\ MaxBuf > 1

(* snprintf into a buffer of this size. *)
Printed(text, size) ==
  IF Len(text) < size THEN text ELSE SubSeq(text, 1, size - 1)

-----------------------------------------------------------------------------
(* getModuleName: what follows the last dot of the category.                 *)
ModuleName(category) ==
  LET len  == Len(category)
      dots == { i \in 1 .. len : category[i] = "." }
  IN  IF len = 0 \/ 1 \in dots \/ len \in dots THEN << "UNKNOWN" >>
      ELSE IF dots = {} THEN category
      ELSE SubSeq(category, 1 + (CHOOSE i \in dots : \A j \in dots : i >= j), len)

(* rdk_format_log in a detailed format.  The buffer grows to hold the record *)
(* if its size is not fixed (buf_maxsize = 0) and realloc finds memory, and  *)
(* the record is then printed again.                                         *)
Unformatted(category, message) ==
  << "stamp" >> \o ModuleName(category) \o << "]" >> \o message \o << "\n" >>

BufferSize(n, size, grows) == IF n >= size /\ grows THEN n + 1 ELSE size

FormatLogOnce(category, message, size, grows) ==  \* slip: not printed again
  LET text == Unformatted(category, message)
      n    == Len(text)
      data == Printed(text, size)
  IN  IF n >= 2 /\ n < size /\ data[n] = "\n" /\ data[n - 1] = "\n"
      THEN SubSeq(data, 1, n - 1)
      ELSE data

FormatLog(category, message, size, grows) ==
  LET text == Unformatted(category, message)
      n    == Len(text)
      room == BufferSize(n, size, grows)
      data == Printed(text, room)
  IN  IF n >= 2 /\ n < room /\ data[n] = "\n" /\ data[n - 1] = "\n"
      THEN SubSeq(data, 1, n - 1)
      ELSE data

-----------------------------------------------------------------------------
(* The onboarding log.                                                       *)

Control == {"\n", "\r", "\t", "DEL"}

Sanitized(value) ==
  [i \in DOMAIN value |-> IF value[i] \in Control THEN " " ELSE value[i]]

(* What rdk_logger_log_onboard adds to the log file, or to the console when  *)
(* the file cannot be opened; nothing on a device that is past onboarding    *)
(* (or where it is disabled), or for a NULL message.                         *)
LogOnboardTrustsModule(past, module, message) ==  \* slip: module as it came
  IF past \/ message = NoText THEN << >>
  ELSE << "stamp" >>
         \o (IF module = NoText THEN << >>
             ELSE << "[" >> \o Printed(module, MaxBuf) \o << "]" >>)
         \o Sanitized(Printed(message, MaxBuf)) \o << "\n" >>

LogOnboard(past, module, message) ==
  IF past \/ message = NoText THEN << >>
  ELSE << "stamp" >>
         \o (IF module = NoText THEN << >>
             ELSE << "[" >> \o Sanitized(Printed(module, MaxBuf)) \o << "]" >>)
         \o Sanitized(Printed(message, MaxBuf)) \o << "\n" >>

(* main of the onboarding command: [module] message, with a newline added. *)
OnboardMain(past, args) ==
  CASE Len(args) > 1 -> LogOnboard(past, args[1], args[2] \o << "\n" >>)
    [] Len(args) = 1 -> LogOnboard(past, NoText, args[1] \o << "\n" >>)
    [] OTHER         -> << >>

-----------------------------------------------------------------------------
(* The milestone log.                                                        *)

(* getUptimeMS of a reading of the monotonic clock. *)
UptimeMSCarries(time) == time.sec * 1000 + time.nsec \div 100000  \* slip

UptimeMS(time) == time.sec * 1000 + time.nsec \div 1000000

(* logMilestone and main of its command: one line, if the file opens. *)
LogMilestone(opens, code, time) ==
  IF opens THEN << [code |-> code, at |-> UptimeMS(time)] >> ELSE << >>

MilestoneMain(opens, args, time) ==
  IF Len(args) = 0 THEN << >> ELSE LogMilestone(opens, args[1], time)

=============================================================================
