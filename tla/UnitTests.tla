------------------------------ MODULE UnitTests ------------------------------
(***************************************************************************)
(* The repository's own tests, run against the model: each test is the     *)
(* script of the calls its threads make and of the answers it asserts, in  *)
(* a process of its own (as with --gtest_filter).  debug.ini goes through  *)
(* ConfigText, requests through ControlRequest, onboarding records through *)
(* LogRecord, and levels through LevelControl.                             *)
(*                                                                         *)
(* A loop of equal calls is written once or twice; times, sizes of files   *)
(* and the text of messages that no test asserts anything about are left   *)
(* out.  A text's characters are its words.                                *)
(***************************************************************************)
EXTENDS LevelControl, ControlRequest, LogRecord
LOCAL INSTANCE SequencesExt

VARIABLES
  test,      (* the test that runs                                           *)
  stage,     (* the stage it is in: threads are joined at the end of each    *)
  at,        (* the call each thread of the stage has come to                *)
  pending,   (* requests in the process's socket                             *)
  met        (* has every answer so far been one the test accepts?           *)

testVars == << test, stage, at, pending, met >>

-----------------------------------------------------------------------------
(* Contents of debug.ini.                                                    *)

Entry(name, value)  == << name, "=", value, "\n" >>
Spaced(name, value) == << name, " ", "=", " ", value, " ", "\n" >>

SampleLines ==
  << << "LOG.RDK.DEFAULT", "ERROR" >>,      << "LOG.RDK.ONLYFATAL", "FATAL" >>,
     << "LOG.RDK.ONLYERROR", "ERROR" >>,  << "LOG.RDK.ONLYWARNING", "WARNING" >>,
     << "LOG.RDK.ONLYINFO", "INFO" >>,      << "LOG.RDK.ONLYDEBUG", "DEBUG" >>,
     << "LOG.RDK.ONLYNOTICE", "NOTICE" >>,  << "LOG.RDK.ONLYTRACE", "TRACE" >>,
     << "LOG.RDK.ONLYALL", "ALL" >>,        << "LOG.RDK.NODEBUG", "FATAL" >>,
     << "LOG.RDK.NOERROR", "FATAL" >>,      << "LOG.RDK.NOWARNING", "FATAL" >>,
     << "LOG.RDK.NONOTICE", "FATAL" >>,     << "LOG.RDK.NOTRACE", "FATAL" >>,
     << "LOG.RDK.NOFATAL", "WARNING" >>,    << "LOG.RDK.NOALL", "FATAL" >>,
     << "LOG.RDK.ALLLOGLEVELS", "ALL" >> >>

SampleIni ==
  FlattenSeq([i \in DOMAIN SampleLines |->
                Spaced(SampleLines[i][1], SampleLines[i][2])])

ValidIni == Entry("LOG.RDK.DEFAULT", "INFO") \o Entry("LOG.RDK.TEST", "DEBUG")
              \o Entry("LOG.RDK.ERROR", "ERROR")
MalformedIni == Entry("LOG.RDK.DEFAULT", "INFO")
                  \o << "INVALID_LINE_WITHOUT_EQUALS", "\n" >>
                  \o Entry("LOG.RDK.TEST", "DEBUG")
CommentsIni == << "#", " ", "comment", "\n" >>
                 \o Entry("LOG.RDK.DEFAULT", "WARNING")
                 \o << "#", " ", "comment", "\n" >>
                 \o Entry("LOG.RDK.TEST", "DEBUG")
WhitespaceIni == Spaced("LOG.RDK.DEFAULT", "INFO")
                   \o << " " >> \o Spaced("LOG.RDK.TEST", "DEBUG")
                   \o Entry("LOG.RDK.ERROR", "ERROR")
LargeIni == Entry("LOG.RDK.MODULE0", "DEBUG")
              \o Entry("LOG.RDK.MODULE999", "DEBUG")
DuplicateIni == Entry("LOG.RDK.TEST", "DEBUG") \o Entry("LOG.RDK.TEST", "ERROR")
                  \o Entry("LOG.RDK.TEST", "INFO")
InvalidIni == Entry("LOG.RDK.DEFAULT", "INVALID_LEVEL")
                \o Entry("LOG.RDK.TEST", "DEBUG")
                \o Entry("LOG.RDK.ERROR", "UNKNOWN_LEVEL")
LongIni == Entry("LOG.RDK.DEFAULT", "INFO")
             \o Entry("LOG.RDK.VERY_LONG_MODULE_NAME", "DEBUG")
SpecialIni == Entry("LOG.RDK.DEFAULT", "INFO")
                \o Entry("LOG.RDK.TEST_WITH_UNDERSCORES", "DEBUG")
                \o Entry("LOG.RDK.TEST-WITH-DASHES", "ERROR")
                \o Entry("LOG.RDK.TEST.WITH.DOTS", "WARNING")
MixedCaseIni == Entry("LOG.RDK.DEFAULT", "info") \o Entry("LOG.RDK.TEST", "debug")
                  \o Entry("LOG.RDK.ERROR", "ERROR")
                  \o Entry("LOG.RDK.WARNING", "Warning")
ErrorIni == Entry("LOG.RDK.DEFAULT", "INFO") \o Entry("LOG.RDK.TEST", "DEBUG")
PerformanceIni == Entry("LOG.RDK.DEFAULT", "INFO")
                    \o Entry("LOG.RDK.PERFORMANCE", "DEBUG")
                    \o Entry("LOG.RDK.STRESS", "TRACE")

(* What RDK_LOGGER_INIT finds on the device: no test says.  Where a test     *)
(* accepts a failure there may be no file.                                   *)
DeviceInis == { << >>, SampleIni, Entry("LOG.RDK.DEFAULT", "WARN"),
                Entry("LOG.RDK.ROTATION", "NONE") }

(* The word for a level a text spells. *)
WordOf(text) ==
  LET Spells(stem, tail, upper) == [stem |-> stem, tail |-> tail, upper |-> upper]
  IN  CASE \E i \in DOMAIN LevelName : LevelName[i] = text
                                         -> Spells(text, "", TRUE)
        [] text = "WARNING"              -> Spells("WARN", "ING", TRUE)
        [] text = "Warning"              -> Spells("WARN", "ING", FALSE)
        [] text = "info"                 -> Spells("INFO", "", FALSE)
        [] text \in {"debug", "Debug"}   -> Spells("DEBUG", "", FALSE)
        [] OTHER                         -> Spells("", text, TRUE)

(* The settings LevelControl applies for a text. *)
Parsed(text) ==
  LET settings == Settings[Buffers[text]]
  IN  [i \in DOMAIN settings |->
         [name  |-> settings[i].name[1],
          value |-> SettingOf(WordOf(settings[i].value[1]))]]

Inis == { << >>, SampleIni, ValidIni, MalformedIni, CommentsIni, WhitespaceIni,
          LargeIni, DuplicateIni, InvalidIni, LongIni, SpecialIni, MixedCaseIni,
          ErrorIni, PerformanceIni } \cup DeviceInis

-----------------------------------------------------------------------------
(* Calls, with the answers the test accepts.                                 *)

Call(do, of, level, accepted) ==
  [do |-> do, of |-> of, level |-> level, accepted |-> accepted]

InitWith(text)     == Call("init", {Parsed(text)}, NONE, {TRUE})
InitWithoutFile    == Call("init", {}, NONE, {FALSE})
InitOnDevice(told) ==
  Call("init", { Parsed(text) : text \in DeviceInis }, NONE, told)
Deinit             == Call("deinit", NoCategory, NONE, {TRUE})
ExtInits(module, level, told) ==
  << InitOnDevice(told), Call("ext_init", module, level, told) >>

Logs(module, level)            == Call("log", module, level, BOOLEAN)
Prints(module, level)          == Call("log", module, level, {TRUE})
IsEnabled(module, level, told) == Call("enabled", module, level, told)
Sets(module, level, told)      == Call("set", module, level, told)
Gets(module, level)            == Call("get", module, NONE, {level})
FromString(text, level)        == Call("level_from_string", text, NONE, {level})
Onboards(module, message, lines) ==
  Call("onboard", << module, message >>, NONE, lines)
Milestone(code)                == Call("milestone", << code >>, NONE, {1})

(* A command line of rdklogctrl: a module of this length and a level.        *)
Controls(module, length, text, told) ==
  Call("rdklogctrl",
       [count |-> 3, pid |-> "positive", word |-> WordOf(text),
        module |-> [length |-> length, prefixed |-> TRUE, category |-> module]],
       NONE, told)

NULL == NoCategory
Invalid == 999
Alone(calls) == << << calls >> >>

-----------------------------------------------------------------------------
(* The tests, file by file: each a sequence of stages, each of those a       *)
(* sequence of threads, each of those a sequence of calls.                   *)

(* The four files of message tests log at every level to a module of the     *)
(* sample file.  They assert that the file is read, and nothing of what      *)
(* becomes of the messages.                                                  *)
InOrder == << ERROR, FATAL, WARN, NOTICE, DEBUG, INFO, TRACE >>

MessageTests(from, to, order) ==
  [n \in 1 .. (to - from + 1) |->
     Alone(<< InitWith(SampleIni) >> \o
           [k \in DOMAIN order |-> Logs(SampleLines[from + n - 1][1], order[k])])]

MsgPrintfOnly   == MessageTests(2, 9, InOrder)
MsgPrintfNo     == MessageTests(10, 17, InOrder)
MsgVsprintfOnly == MessageTests(2, 2, Tail(InOrder)) \o MessageTests(3, 9, InOrder)
MsgVsprintfNo   == MessageTests(10, 17, InOrder)
MsgRawOnly      == MessageTests(3, 9, InOrder)
MsgRawNo        == MessageTests(10, 17, InOrder)
MsgRaw1Only     == MessageTests(2, 2, Tail(InOrder)) \o MessageTests(3, 9, InOrder)
MsgRaw1No       == MessageTests(10, 17, InOrder)

EnableLogLevelTests ==
  LET fatal == "LOG.RDK.ONLYFATAL"
      get   == "LOG.RDK.GET_LEVEL"
      Raises(module, level) ==
        Alone(<< InitWith(SampleIni), Sets(module, level, {TRUE}),
                 IsEnabled(module, level, {TRUE}), Logs(module, level) >>)
  IN  << Alone(<< InitWith(SampleIni), Sets(NULL, FATAL, {FALSE}) >>),
         Alone(<< InitWith(SampleIni), Sets(fatal, FATAL, {TRUE}),
                  Logs(fatal, FATAL), IsEnabled(fatal, FATAL, BOOLEAN),
                  Logs(fatal, FATAL) >>),
         Raises("LOG.RDK.ONLYERROR", ERROR),
         Raises("LOG.RDK.ONLYWARNING", WARN),
         Raises("LOG.RDK.ONLYINFO", INFO),
         Raises("LOG.RDK.ONLYDEBUG", DEBUG),
         Raises("LOG.RDK.ONLYNOTICE", NOTICE),
         Alone(<< InitWith(SampleIni),
                  Sets(get, INFO, {TRUE}), Gets(get, INFO),
                  Sets(get, NONE, {TRUE}), Gets(get, NONE),
                  Call("get", NULL, NONE, {FALSE}) >>) >>

LevelFromStringTests ==
  LET Asks(text, level) == << InitWith(SampleIni), FromString(text, level) >>
  IN  << Alone(Asks("TEST", NONE)) >>
        \o [level \in 1 .. 7 |-> Alone(Asks(LevelName[level], level - 1))]
        \o << Alone(Asks("NONE", NONE) \o << Deinit >>) >>

InitTests ==
  LET init1 == << InitWith(SampleIni), IsEnabled("LOG.RDK.ONLYERROR", ERROR, {TRUE}) >>
  IN  << Alone(<< InitWithoutFile >>), Alone(init1), Alone(init1 \o init1) >>

ConfigTests ==
  LET test1 == IsEnabled("LOG.RDK.TEST", DEBUG, {TRUE})
      Reads(text, asked) == Alone(<< InitWith(text) >> \o asked \o << Deinit >>)
  IN  << Reads(ValidIni, << test1, IsEnabled("LOG.RDK.ERROR", ERROR, {TRUE}) >>),
         Reads(<< >>, << >>),
         Reads(MalformedIni, << test1 >>),
         Reads(CommentsIni, << test1 >>),
         Reads(WhitespaceIni, << test1 >>),
         Reads(LargeIni, << IsEnabled("LOG.RDK.MODULE0", DEBUG, {TRUE}),
                            IsEnabled("LOG.RDK.MODULE999", DEBUG, {TRUE}) >>),
         Reads(DuplicateIni, << IsEnabled("LOG.RDK.TEST", INFO, {TRUE}) >>),
         Reads(InvalidIni, << test1 >>),
         Reads(LongIni,
               << IsEnabled("LOG.RDK.VERY_LONG_MODULE_NAME", DEBUG, {TRUE}) >>),
         Reads(SpecialIni,
               << IsEnabled("LOG.RDK.TEST_WITH_UNDERSCORES", DEBUG, {TRUE}) >>),
         Reads(MixedCaseIni,
               << test1, IsEnabled("LOG.RDK.WARNING", WARN, {TRUE}) >>) >>

Tries(calls) == Alone(<< InitWith(ErrorIni) >> \o calls \o << Deinit >>)

ErrorInputTests ==
  LET test1  == "LOG.RDK.TEST"
      logged == Logs(test1, INFO)
  IN  << Tries(<< Logs(NULL, INFO), Logs(NULL, INFO), Sets(NULL, INFO, {FALSE}),
                  IsEnabled(NULL, INFO, {FALSE}) >>),
         Tries(<< Logs(" ", INFO), logged, Sets("", INFO, BOOLEAN),
                  IsEnabled("", INFO, BOOLEAN) >>),
         Tries(<< Logs(test1, Invalid), Sets(test1, Invalid, BOOLEAN),
                  IsEnabled(test1, Invalid, BOOLEAN) >>),
         Tries(<< logged >>),                          \* VeryLongMessages
         Tries(<< Logs("AAAA", INFO), Sets("AAAA", INFO, BOOLEAN),
                  IsEnabled("AAAA", INFO, BOOLEAN) >>),
         Tries(<< logged, logged, logged >>),          \* SpecialCharacters
         Tries(<< logged, logged, logged >>),          \* FormatString
         Tries(<< InitWith(ErrorIni), logged >>) >>

ErrorCallTests ==
  LET test1  == "LOG.RDK.TEST"
      logged == Logs(test1, INFO)
      onboarded == << "Test message" >>
  IN  << Alone(<< Deinit, logged, Deinit >>),
         Tries(<< Deinit, logged >>),
         Tries(<< Sets(NULL, INFO, {FALSE}), Sets("", INFO, BOOLEAN),
                  Sets(test1, Invalid, BOOLEAN) >>),
         Tries(<< IsEnabled(NULL, INFO, {FALSE}), IsEnabled("", INFO, BOOLEAN),
                  IsEnabled(test1, Invalid, BOOLEAN) >>),
         Alone(<< FromString("NULL", NONE), FromString("", NONE),
                  FromString("INVALID_LEVEL", NONE), FromString("DEBU", NONE),
                  FromString("debug", DEBUG), FromString("Debug", DEBUG),
                  Deinit >>),
         Tries(<< Onboards(NoText, onboarded, 0 .. 1),
                  Onboards(<< test1 >>, NoText, 0 .. 1),
                  Onboards(<< " " >>, onboarded, 0 .. 1),
                  Onboards(<< test1 >>, << " " >>, 0 .. 1) >>),
         Tries(<< Logs(NULL, INFO), Logs(NULL, INFO), Logs(NULL, INFO),
                  Logs(NULL, INFO) >>),
         Tries(<< Logs("LOG.RDK.MODULE0", INFO), Logs("LOG.RDK.MODULE999", INFO),
                  logged, logged >>) >>

UtilityTests ==
  LET onboard == << "LOG.RDK.ONBOARD" >>
      note    == Onboards(onboard, << "onboard message" >>, 0 .. 1)
      Uses(calls) == Alone(<< InitWith(SampleIni) >> \o calls)
  IN  << Uses(<< note, note, note, Milestone("APPLICATION_READY") >>),
         Uses([i \in 1 .. 7 |-> note]),
         Uses(<< Onboards(onboard \o << "\n", "[FATAL] forged module" >>,
                          << "Onboard message", "\r", "\n",
                             "[FATAL] forged record", "\n" >>, {1}) >>) >>

(* The command runs beside the message that may find its request: the tests  *)
(* only wait for half a second, which orders nothing.                        *)
Sends(module, text) ==
  << << << InitWith(SampleIni) >> >>,
     << << Controls("LOG.RDK." \o module, 12, text, BOOLEAN) >>,
        << Logs("LOG.RDK.TESTMOD", ERROR) >> >> >>

LevelRequestTests == [level \in 1 .. 7 |-> Sends(LevelName[level], LevelName[level])]
NoneRequestTests  == << Sends("NONE", "NONE"), Sends("NONE", "~NONE") >>

ControlTests ==
  LET longest == "LOG.RDK.A_64"
      medium  == "LOG.RDK.MEDIUM002"
      printed == Prints(medium, INFO)
  IN  << Alone(<< InitWith(SampleIni), Sets(longest, NONE, {TRUE}),
                  Controls(longest, 64, "INFO", {TRUE}),
                  Logs("LOG.RDK.TESTMOD", ERROR), Gets(longest, INFO) >>),
         Alone(<< Controls("LOG.RDK.A_65", 65, "INFO", {FALSE}) >>),
         << << << InitWith(SampleIni) >> >>,
            << << Controls(medium, 17, "INFO", {TRUE}) >> >>,
            << << Logs(medium, INFO) >> >>,
            << << printed, printed >>, << printed, printed >> >>,
            << << printed >> >> >>,
         Alone(<< [Controls("LOG.RDK.TEST", 12, "DEBUG", {FALSE})
                     EXCEPT !.of.pid = "out of range"],
                  Controls("LOG.RDK.B_208", 208, "DEBUG", {FALSE}) >>) >>

Measures(calls) ==
  Alone(<< InitWith(PerformanceIni) >> \o calls \o << Deinit >>)

SpeedTests ==
  LET module == "LOG.RDK.PERFORMANCE"
      info   == Logs(module, INFO)
  IN  << Measures(<< info, info >>),                              \* Basic
         Measures([level \in 1 .. 7 |-> Logs(module, level - 1)]),
         Measures(<< Logs("LOG.RDK.MODULE0", INFO),
                     Logs("LOG.RDK.MODULE999", INFO) >>),
         Measures(<< info >>),                                    \* LongMessages
         Measures(<< info >>),                                    \* ComplexFormat
         Measures(<< info, Logs(module, DEBUG), Logs(module, ERROR) >>) >>

ResourceTests ==
  LET module == "LOG.RDK.PERFORMANCE"
      info   == Logs(module, INFO)
  IN  << Measures(<< info >>), Measures(<< info >>),              \* Memory, CPU
         Alone(ExtInits(module, DEBUG, {TRUE}) \o << info, info, Deinit >>),
         Measures(<< info >>) >>                                  \* Signal

ConditionTests ==
  LET module == "LOG.RDK.PERFORMANCE"
      info   == Logs(module, INFO)
  IN  << Measures(<< Logs(NULL, INFO), Logs(NULL, INFO), Logs(module, Invalid),
                     Logs("", INFO), info >>),
         Measures(<< info, Logs("LOG.RDK.STRESS", INFO),
                     Logs(DefaultCategory, INFO) >>),
         Measures(<< info >>),                                    \* FormatString
         Measures(<< Onboards(<< module >>, << "Onboard test" >>, 0 .. 1) >>) >>

(* Its messages are looked for in the file only by the tests of formats.     *)
Rolls(level, calls) ==
  Alone(ExtInits("LOG.RDK.ROTATION", level, {TRUE}) \o calls)
Rolled == Logs("LOG.RDK.ROTATION", INFO)

RotationTests ==
  << Rolls(TRACE, << Rolled >>), Rolls(TRACE, << Rolled, Rolled >>) >>

(* InvalidDirectory, then four limits no file can have or reach. *)
LimitTests ==
  << Alone(ExtInits("LOG.RDK.ROTATION", ERROR, BOOLEAN)) >>
    \o [i \in 1 .. 4 |-> Rolls(INFO, << Rolled, Rolled >>)]

(* Three unusual names of files, and one file at all levels. *)
FileNameTests ==
  [i \in 1 .. 3 |-> Rolls(TRACE, << Rolled, Rolled >>)]
    \o << Rolls(DEBUG, << Rolled, Logs("LOG.RDK.ROTATION", DEBUG),
                          Logs("LOG.RDK.ROTATION", ERROR) >>) >>

FormatTests ==
  [i \in 1 .. 3 |->                           \* TID, TS_TID, DetailWithoutTS
     Rolls(DEBUG, << Prints("LOG.RDK.ROTATION", INFO),
                     Prints("LOG.RDK.ROTATION", INFO) >>)]

ExtInitTests ==
  LET Uses(module, level, first, third) ==
        Alone(ExtInits(module, level, {TRUE})
              \o << Logs("LOG.RDK.RTMESSAGE", first), Logs("LOG.RDK.RTMESSAGE", DEBUG),
                    Logs("LOG.RDK.TEST", third), Logs("LOG.RDK.TEST", INFO) >>)
  IN  << Uses(NULL, TRACE, TRACE, WARN), Uses(RdkRoot, DEBUG, ERROR, INFO),
         Uses(NULL, ERROR, ERROR, INFO) >>

(* The program that measures processor time, outside the suite: it looks at  *)
(* no answer.                                                                *)
CpuTest ==
  LET foo  == "LOG.RDK.FOO"
      once == ExtInits(foo, INFO, BOOLEAN) \o << Logs(foo, DEBUG), Logs(foo, INFO) >>
  IN  << Alone(<< InitOnDevice(BOOLEAN) >> \o once \o once \o once \o once) >>

Tests ==
  FlattenSeq(<< MsgPrintfOnly, MsgPrintfNo, MsgVsprintfOnly, MsgVsprintfNo,
                MsgRawOnly, MsgRawNo, MsgRaw1Only, MsgRaw1No,
                EnableLogLevelTests, LevelFromStringTests, InitTests, ConfigTests,
                ErrorInputTests, ErrorCallTests, UtilityTests,
                LevelRequestTests, NoneRequestTests, ControlTests,
                SpeedTests, ResourceTests, ConditionTests,
                RotationTests, LimitTests, FileNameTests, FormatTests,
                ExtInitTests, CpuTest >>)

-----------------------------------------------------------------------------
(* A step of a thread.                                                       *)

Threads    == DOMAIN test[stage]
Busy(t)    == at[t] <= Len(test[stage][t])
Current(t) == test[stage][t][at[t]]
Calls(t, do) == Busy(t) /\ Current(t).do = do
Given(t)   == Current(t).of # NULL

(* The call has been answered. *)
Advance(t, told) ==
  /\ at' = [at EXCEPT ![t] = @ + 1]
  /\ met' = (met /\ told \in Current(t).accepted)
  /\ UNCHANGED << test, stage >>

(* rdk_logger_init. *)
BeginInit(t) ==
  /\ Calls(t, "init") /\ StartBackend
  /\ UNCHANGED testVars

OpenIni(t) ==
  /\ Calls(t, "init")
  /\ \/ FALSE \in Current(t).accepted /\ step' = "failed"
     \/ step' = "line" /\ file' \in Current(t).of
  /\ OpenConfig
  /\ UNCHANGED testVars

ParseIni ==
  /\ ParseDefault \/ PublishDefault \/ ParseModule \/ SkipLine
  /\ UNCHANGED testVars

EndInit(t) ==
  /\ Calls(t, "init")
  /\ FinishInit \/ FailInit
  /\ Advance(t, isLogInited') /\ UNCHANGED pending

AlreadyInited(t) ==
  /\ Calls(t, "init") /\ isLogInited /\ step = "idle"
  /\ Advance(t, TRUE) /\ UNCHANGED << vars, pending >>

(* The request rdk_dyn_log_process_pending_request finds first.  A message   *)
(* function takes all of them before it looks at its message, unless it      *)
(* declines a NULL module straight away.                                     *)
TestProcess == [exists |-> TRUE, name |-> [length |-> 16, prefixed |-> FALSE]]

ReceiveRequest(t) ==
  /\ Calls(t, "log") /\ Given(t) /\ pending # << >>
  /\ LET changes == Applied(Head(pending), TestProcess.name)
     IN  IF changes = << >> THEN UNCHANGED vars
         ELSE SetLevel("set", changes[1].module.category, changes[1].level)
  /\ pending' = Tail(pending)
  /\ UNCHANGED << test, stage, at, met >>

LogMessage(t) ==
  /\ Calls(t, "log") /\ (pending = << >> \/ ~ Given(t))
  /\ Log(Current(t).of, Current(t).level)
  /\ Advance(t, answer'.result) /\ UNCHANGED pending

AskEnabled(t) ==
  /\ Calls(t, "enabled")
  /\ IsLogLevelEnabled(Current(t).of, Current(t).level)
  /\ Advance(t, answer'.result) /\ UNCHANGED pending

Adjust(t) ==
  /\ Calls(t, "set")
  /\ SetLogLevel(Current(t).of, Current(t).level)
  /\ Advance(t, answer'.result) /\ UNCHANGED pending

AskLevel(t) ==
  /\ Calls(t, "get")
  /\ GetLevel(Current(t).of)
  /\ Advance(t, IF answer'.result THEN answer'.level ELSE FALSE)
  /\ UNCHANGED pending

Extend(t) ==
  /\ Calls(t, "ext_init")
  /\ ExtInit(Current(t).of, Current(t).level, TRUE)
  /\ Advance(t, answer'.result) /\ UNCHANGED pending

(* rdk_logger_ext_init after its own RDK_LOGGER_INIT has failed. *)
ExtendNothing(t) ==
  /\ Calls(t, "ext_init") /\ ~ isLogInited /\ step = "idle"
  /\ Advance(t, FALSE) /\ UNCHANGED << vars, pending >>

(* rdk_logger_deinit closes the socket. *)
LeaveLogger(t) ==
  /\ Calls(t, "deinit")
  /\ Advance(t, TRUE)
  /\ pending' = << >> /\ UNCHANGED vars

RunControl(t) ==
  /\ Calls(t, "rdklogctrl")
  /\ LET request == Request(Current(t).of, TestProcess)
     IN  /\ Advance(t, request.sent)
         /\ pending' = IF request.sent THEN Append(pending, request) ELSE pending
  /\ UNCHANGED vars

(* The calls that keep nothing in the process. *)
Report(t) ==
  /\ \/ /\ Calls(t, "level_from_string")
        /\ Advance(t, LevelFromString(WordOf(Current(t).of)))
     \/ /\ Calls(t, "onboard")
        /\ LET text == LogOnboard(FALSE, Current(t).of[1], Current(t).of[2])
           IN  Advance(t, Cardinality({ i \in DOMAIN text : text[i] = "\n" }))
     \/ /\ Calls(t, "milestone")
        /\ Advance(t, Len(MilestoneMain(TRUE, Current(t).of,
                                        [sec |-> 0, nsec |-> 0])))
  /\ UNCHANGED << vars, pending >>

Over == stage = Len(test) /\ \A t \in Threads : ~ Busy(t)

Join ==
  /\ \A t \in Threads : ~ Busy(t)
  /\ stage < Len(test)
  /\ stage' = stage + 1
  /\ at' = [t \in DOMAIN test[stage + 1] |-> 1]
  /\ UNCHANGED << vars, test, pending, met >>

-----------------------------------------------------------------------------
TestInit ==
  /\ Init
  /\ \E i \in DOMAIN Tests : test = Tests[i]
  /\ stage = 1 /\ at = [t \in DOMAIN test[1] |-> 1]
  /\ pending = << >> /\ met = TRUE

InitStep(t) == BeginInit(t) \/ OpenIni(t) \/ EndInit(t) \/ AlreadyInited(t)

CallStep(t) ==
  \/ ReceiveRequest(t) \/ LogMessage(t)
  \/ AskEnabled(t) \/ Adjust(t) \/ AskLevel(t)
  \/ Extend(t) \/ ExtendNothing(t)
  \/ LeaveLogger(t) \/ RunControl(t) \/ Report(t)

TestNext ==
  \/ \E t \in Threads : InitStep(t)
  \/ \E t \in Threads : CallStep(t)
  \/ ParseIni
  \/ Join
  \/ Over /\ UNCHANGED << vars, testVars >>

-----------------------------------------------------------------------------
(* Every answer a test asserts is the one the library gives, whatever the    *)
(* device's debug.ini says and however the threads of a test interleave.     *)
(* That every test comes to its end is the absence of deadlock: no behaviour *)
(* repeats a state before Over.                                              *)
Expectations == met

=============================================================================
