------------------------------- MODULE LogText -------------------------------
(***************************************************************************)
(* The text the library and its commands read and write, one call at a     *)
(* time: debug.ini, records, onboarding records, milestones and requests   *)
(* of rdklogctrl.  The calls of ConfigText, LogRecord and ControlRequest   *)
(* keep nothing between them; call and result are those of the last one.   *)
(***************************************************************************)
EXTENDS ControlRequest, LogRecord, FiniteSets

CONSTANTS
  Texts,        (* contents of debug.ini                                     *)
  Categories, Messages, Sizes,   (* what is logged, and into what buffers    *)
  Codes, Times, (* milestones, and readings of the clock                     *)
  ArgLists, Processes            (* of rdklogctrl                            *)

(* A reading of the monotonic clock; a second has this many nanoseconds. *)
Second  == 1000000000
Reading == [sec : Nat, nsec : 0 .. (Second - 1)]

(* log4c's buffers are never empty, and a null pointer is no text. *)
ASSUME InputAssumption ==
  /\ Texts \subseteq Seq(Char)
  /\ Categories \subseteq Seq(STRING) /\ Messages \subseteq Seq(STRING)
  /\ NoText \notin Seq(STRING)
  /\ Sizes \subseteq Nat \ {0}
  /\ Times \subseteq Reading
  /\ \A args \in ArgLists : args.word \in Word

(* Known of strings, but not to the provers. *)
ASSUME StringAssumption ==
  {"stamp", "[", "]", "UNKNOWN", " ", "\n"} \subseteq STRING

VARIABLES call, result

vars == << call, result >>

Idle == [of |-> "nothing"]

Called(name, inputs, outcome) ==
  /\ call' = [of |-> name, in |-> inputs]
  /\ result' = outcome

ReadConfig == \E text \in Texts :
  Called("rdk_logger_parse_config", text,
         [settings |-> Settings[Buffers[text]],
          ends |-> { ValueEnd(Buffers[text][i]) : i \in DOMAIN Buffers[text] }])

FormatRecord ==
  \E category \in Categories, message \in Messages, size \in Sizes,
     grows \in BOOLEAN :
    Called("rdk_format_log",
           [category |-> category, message |-> message, size |-> size,
            grows |-> grows],
           FormatLog(category, message, size, grows))

WriteOnboard ==
  \E past \in BOOLEAN, module \in Messages \cup {NoText},
     message \in Messages \cup {NoText} :
    Called("rdk_logger_log_onboard",
           [past |-> past, module |-> module, message |-> message],
           LogOnboard(past, module, message))

RunOnboardMain ==
  \E past \in BOOLEAN, args \in { << >> } \cup { << m >> : m \in Messages }
                                 \cup (Messages \X Messages) :
    Called("rdk_logger_log_onboard",
           [past |-> past, module |-> NoText,
            message |-> IF args = << >> THEN NoText ELSE << >>],
           OnboardMain(past, args))

RunMilestoneMain ==
  \E opens \in BOOLEAN, args \in { << >> } \cup { << c >> : c \in Codes },
     first, later \in Times :
    Called("logMilestone",
           [opens |-> opens, args |-> args, first |-> first, later |-> later],
           MilestoneMain(opens, args, first) \o MilestoneMain(opens, args, later))

RunRdkLogCtrl == \E args \in ArgLists, process \in Processes :
  Called("rdklogctrl", [args |-> args, process |-> process],
         Request(args, process))

Return ==
  /\ call # Idle
  /\ call' = Idle /\ result' = << >>

Init == call = Idle /\ result = << >>

Next ==
  \/ /\ call = Idle
     /\ \/ ReadConfig
        \/ FormatRecord
        \/ WriteOnboard
        \/ RunOnboardMain
        \/ RunMilestoneMain
        \/ RunRdkLogCtrl
  \/ Return

Spec == Init /\ [][Next]_vars

-----------------------------------------------------------------------------
(* The settings are those a reader of debug.ini sees: per line, unless it is *)
(* a comment, what stands before the first "=" and what stands after, without*)
(* the blanks around them, in order; of a line too long for the buffer, what *)
(* the buffer holds (rdk_debug_priv.c:249 cuts it in two).  Only an "=" past *)
(* the end of the buffer is read for something it is not.                    *)
Column(text, i) ==
  i - Greatest({0} \cup { j \in 1 .. (i - 1) : text[j] = "\n" })

NoLateEquals(text) ==
  \A i \in DOMAIN text : text[i] = "=" => Column(text, i) < LineBuf

(* t is text[i..j] without the blanks at either end. *)
Bare(text, i, j, t) ==
  \E k \in i .. (j + 1), l \in (i - 1) .. j :
    /\ t = SubSeq(text, k, l)
    /\ \A n \in i .. j : (n < k \/ n > l) => text[n] \in Blank
    /\ t # << >> => text[k] \notin Blank /\ text[l] \notin Blank
    /\ t = << >> => \A n \in i .. j : text[n] \in Blank

(* The places of the equals signs that make a setting. *)
Settles(text, i) ==
  LET start == i - Column(text, i) + 1
  IN  /\ text[i] = "=" /\ text[start] # "#"
      /\ \A j \in start .. (i - 1) : text[j] # "="

Seen(text, i, setting) ==
  LET start == i - Column(text, i) + 1
      end   == Least({Len(text), start + LineBuf - 2}
                     \cup { j \in i .. Len(text) : text[j] = "\n" })
  IN  /\ Bare(text, start, i - 1, setting.name)
      /\ Bare(text, i + 1, end, setting.value)

ReadsAsWritten ==
  call.of = "rdk_logger_parse_config" /\ NoLateEquals(call.in) =>
    LET places == { i \in DOMAIN call.in : Settles(call.in, i) }
        Rank(i) == Cardinality({ j \in places : j <= i })
    IN  /\ Len(result.settings) = Cardinality(places)
        /\ \A i \in places : Seen(call.in, i, result.settings[Rank(i)])

(* The terminator of a value stays inside its buffer (rdk_debug_priv.c:271   *)
(* counts one more than the value's length), for every line that does not    *)
(* begin with "=" and fill the buffer to the last character.                 *)
BeginsFull(text) ==
  \E i \in DOMAIN Buffers[text] :
    Buffers[text][i][1] = "=" /\ Len(Buffers[text][i]) = LineBuf - 1

TerminatorInside ==
  call.of = "rdk_logger_parse_config" /\ ~ BeginsFull(call.in) =>
    \A end \in result.ends : end < LineBuf

(* A record is one line that names the last part of the category, whatever  *)
(* the size of the buffer and whether or not the message ends in a newline   *)
(* of its own; when the buffer cannot grow, it is cut and still terminated   *)
(* (rdk_debug_priv.c:828-850).                                               *)
LastPart(category, part) ==
  LET Dotted(i) == i \in DOMAIN category /\ category[i] = "."
  IN  IF category = << >> \/ Dotted(1) \/ Dotted(Len(category))
      THEN part = << "UNKNOWN" >>
      ELSE \E n \in 0 .. Len(category) :
             /\ part = SubSeq(category, n + 1, Len(category))
             /\ n = 0 \/ Dotted(n)
             /\ \A i \in (n + 1) .. Len(category) : ~ Dotted(i)

RecordIsWhole ==
  call.of = "rdk_format_log" =>
    LET message == call.in.message
        ended   == message # << >> /\ message[Len(message)] = "\n"
        line    == IF ended THEN message ELSE message \o << "\n" >>
        middle  == Len(result) - Len(line) - 1
    IN  \/ /\ result[1] = "stamp"
           /\ LastPart(call.in.category, SubSeq(result, 2, middle))
           /\ SubSeq(result, middle + 1, Len(result)) = << "]" >> \o line
        \/ ~ call.in.grows /\ Len(result) = call.in.size - 1

(* An onboarding record is one line, whatever characters the message and the *)
(* module are made of and wherever they are cut: no call makes two records   *)
(* (unittests/rdkLoggerUtilityTest.cpp:65-104), and none makes any on a      *)
(* device that is past onboarding.                                           *)
Newlines(text) == { i \in DOMAIN text : text[i] = "\n" }

OneRecordPerCall ==
  call.of = "rdk_logger_log_onboard" =>
    IF call.in.past \/ call.in.message = NoText THEN result = << >>
    ELSE Newlines(result) = {Len(result)}

(* Milestones logged later never show an earlier time, across seconds: the   *)
(* two parts of the clock are added in one unit.                             *)
Earlier(t, u) == t.sec < u.sec \/ (t.sec = u.sec /\ t.nsec <= u.nsec)

MilestonesInOrder ==
  call.of = "logMilestone" /\ Earlier(call.in.first, call.in.later) =>
    \A i, j \in DOMAIN result : i < j => result[i].at <= result[j].at

(* Whatever rdklogctrl reports as sent is a change the process it names will *)
(* make, to the module given and to a level whose name begins the word; and  *)
(* a word that debug.ini knows means the same to both when it is spelled in  *)
(* capitals.                                                                 *)
AppliedAsMeant ==
  call.of = "rdklogctrl" =>
    LET args   == call.in.args
        change == Applied(result, call.in.process.name)
        known  == args.word.upper /\ SettingOf(args.word) # Unrecognised
    IN  /\ result.sent =>
             /\ Len(change) = 1
             /\ change[1].module = args.module
             /\ Begins(args.word, LevelName[change[1].level + 1])
             /\ known => change[1].level = SettingOf(args.word)
        /\ args.count = 3 /\ args.pid = "positive" /\ known
             /\ args.module.prefixed /\ args.module.length \in 1 .. NameMax
             /\ Resolves(call.in.process)
             => result.sent

=============================================================================
