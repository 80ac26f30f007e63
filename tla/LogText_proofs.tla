--------------------------- MODULE LogText_proofs ---------------------------
(***************************************************************************)
(* The text functions for texts, buffers and words of any length: records, *)
(* onboarding records, milestones and requests of rdklogctrl, and what a   *)
(* debug.ini says.                                                         *)
(***************************************************************************)
EXTENDS LogText, NaturalLemmas, SequenceTheorems, TLAPS

(* A step is one call, or leaves the last one's result. *)
LEMMA Steps ==
  ASSUME [Next]_vars
  PROVE  ReadConfig \/ FormatRecord \/ WriteOnboard \/ RunOnboardMain
           \/ RunMilestoneMain \/ RunRdkLogCtrl \/ call'.of = "nothing"
           \/ UNCHANGED << call, result >>
BY DEF Next, Return, Idle, vars

(* Which call it was. *)
LEMMA CallNames ==
  /\ ReadConfig => call'.of = "rdk_logger_parse_config"
  /\ FormatRecord => call'.of = "rdk_format_log"
  /\ WriteOnboard \/ RunOnboardMain => call'.of = "rdk_logger_log_onboard"
  /\ RunMilestoneMain => call'.of = "logMilestone"
  /\ RunRdkLogCtrl => call'.of = "rdklogctrl"
BY DEF ReadConfig, FormatRecord, WriteOnboard, RunOnboardMain, RunMilestoneMain,
       RunRdkLogCtrl, Called

-----------------------------------------------------------------------------
(* Milestones.                                                               *)

(* Whole milliseconds of a part of a second. *)
LEMMA Milliseconds ==
  ASSUME NEW n \in Nat, n < Second
  PROVE  n \div 1000000 \in Nat /\ n \div 1000000 < 1000
BY SMT DEF Second

(* More nanoseconds are no fewer milliseconds. *)
LEMMA MillisecondsInOrder ==
  ASSUME NEW m \in Nat, NEW n \in Nat, m <= n
  PROVE  m \div 1000000 <= n \div 1000000
BY SMT

(* The two fields of a record of this shape. *)
LEMMA TwoFields ==
  ASSUME NEW S, NEW T, NEW t \in [sec : S, nsec : T]
  PROVE  t.sec \in S /\ t.nsec \in T
OBVIOUS

(* Two texts of one character make one of two. *)
LEMMA Pair ==
  ASSUME NEW x, NEW y
  PROVE  << x >> \o << y >> = << x, y >>
<1> DEFINE S == {x, y}
<1>1. << x >> \in Seq(S) /\ << y >> \in Seq(S) /\ << x, y >> \in Seq(S)
  OBVIOUS
<1>2. /\ Len(<< x >>) = 1 /\ Len(<< y >>) = 1 /\ Len(<< x, y >>) = 2
      /\ << x >>[1] = x /\ << y >>[1] = y
      /\ << x, y >>[1] = x /\ << x, y >>[2] = y
  OBVIOUS
<1> HIDE DEF S
<1>3. /\ << x >> \o << y >> \in Seq(S)
      /\ Len(<< x >> \o << y >>) = 2
      /\ (<< x >> \o << y >>)[1] = x
      /\ (<< x >> \o << y >>)[2] = y
  BY <1>1, <1>2, ConcatProperties
<1>4. \A i \in 1 .. 2 : (<< x >> \o << y >>)[i] = << x, y >>[i]
  BY <1>2, <1>3
<1> QED  BY <1>1, <1>2, <1>3, <1>4, SeqEqual

(* The parts of a reading. *)
LEMMA Readings ==
  ASSUME NEW t \in Reading
  PROVE  t.sec \in Nat /\ t.nsec \in Nat /\ t.nsec < Second
<1>1. t.sec \in Nat /\ t.nsec \in 0 .. (Second - 1)
  BY TwoFields DEF Reading
<1>2. Second \in Nat
  BY SMT DEF Second
<1> QED  BY <1>1, <1>2

(* Later readings of the clock are no fewer milliseconds. *)
LEMMA UptimeInOrder ==
  ASSUME NEW t \in Reading, NEW u \in Reading, Earlier(t, u)
  PROVE  UptimeMS(t) \in Int /\ UptimeMS(u) \in Int /\ UptimeMS(t) <= UptimeMS(u)
<1> DEFINE a == t.nsec \div 1000000
           b == u.nsec \div 1000000
<1>1. t.sec \in Nat /\ u.sec \in Nat /\ t.nsec \in Nat /\ u.nsec \in Nat
  BY Readings, SMT
<1>2. a \in Nat /\ a < 1000 /\ b \in Nat /\ b < 1000
  <2>1. t.nsec < Second /\ u.nsec < Second
    BY Readings, SMT
  <2>2. a \in Nat /\ a < 1000
    BY <1>1, <2>1, Milliseconds, SMT
  <2>3. b \in Nat /\ b < 1000
    BY <1>1, <2>1, Milliseconds, SMT
  <2> QED  BY <2>2, <2>3, SMT
<1>3. t.sec < u.sec \/ (t.sec = u.sec /\ a <= b)
  <2>1. CASE t.sec < u.sec
    BY <2>1, SMT
  <2>2. CASE t.sec = u.sec /\ t.nsec <= u.nsec
    BY <1>1, <2>2, MillisecondsInOrder, SMT
  <2> QED  BY <2>1, <2>2, SMT DEF Earlier
<1>4. UptimeMS(t) = t.sec * 1000 + a /\ UptimeMS(u) = u.sec * 1000 + b
  BY SMT DEF UptimeMS
<1> HIDE DEF a, b
<1> QED  BY <1>1, <1>2, <1>3, <1>4, SMT

(* The two milestones of a call of logMilestone are in order. *)
LEMMA MilestoneStep ==
  ASSUME RunMilestoneMain
  PROVE  MilestonesInOrder'
<1>1. PICK opens \in BOOLEAN, args \in { << >> } \cup { << c >> : c \in Codes },
           first \in Times, later \in Times :
        /\ call' = [of |-> "logMilestone",
                    in |-> [opens |-> opens, args |-> args, first |-> first,
                            later |-> later]]
        /\ result' = MilestoneMain(opens, args, first)
                       \o MilestoneMain(opens, args, later)
  BY DEF RunMilestoneMain, Called
<1> SUFFICES ASSUME Earlier(first, later)
             PROVE  \A i, j \in DOMAIN result' : i < j =>
                      result'[i].at <= result'[j].at
  BY <1>1 DEF MilestonesInOrder
<1>2. /\ UptimeMS(first) \in Int /\ UptimeMS(later) \in Int
      /\ UptimeMS(first) <= UptimeMS(later)
  <2>1. first \in Reading /\ later \in Reading
    BY InputAssumption
  <2> QED  BY <2>1, UptimeInOrder
<1>3. CASE args = << >> \/ ~ opens
  <2>1. result' = << >> \o << >>
    BY <1>1, <1>3 DEF MilestoneMain, LogMilestone
  <2>2. DOMAIN result' = {}
    BY <2>1
  <2> QED  BY <2>2
<1>4. CASE args # << >> /\ opens
  <2>1. PICK c \in Codes : args = << c >>
    BY <1>4
  <2> DEFINE a == [code |-> c, at |-> UptimeMS(first)]
             b == [code |-> c, at |-> UptimeMS(later)]
  <2>2. Len(args) = 1 /\ args[1] = c
    BY <2>1
  <2>3. MilestoneMain(opens, args, first) = << a >>
    BY <1>4, <2>2 DEF MilestoneMain, LogMilestone
  <2>4. MilestoneMain(opens, args, later) = << b >>
    BY <1>4, <2>2 DEF MilestoneMain, LogMilestone
  <2>5. a.at = UptimeMS(first) /\ b.at = UptimeMS(later)
    OBVIOUS
  <2> HIDE DEF a, b
  <2>6. result' = << a, b >>
    BY <1>1, <2>3, <2>4, Pair
  <2>7. /\ DOMAIN result' = 1 .. 2
        /\ result'[1].at = UptimeMS(first) /\ result'[2].at = UptimeMS(later)
    BY <2>5, <2>6
  <2> QED  BY <1>2, <2>7
<1> QED  BY <1>3, <1>4

(* Milestones logged later never show an earlier time. *)
THEOREM MilestonesInOrderHolds == Spec => []MilestonesInOrder
<1>1. Init => MilestonesInOrder
  BY DEF Init, Idle, MilestonesInOrder
<1>2. MilestonesInOrder /\ [Next]_vars => MilestonesInOrder'
  <2> SUFFICES ASSUME MilestonesInOrder, [Next]_vars PROVE MilestonesInOrder'
    OBVIOUS
  <2>1. CASE RunMilestoneMain
    BY <2>1, MilestoneStep
  <2>2. CASE UNCHANGED << call, result >>
    BY <2>2 DEF MilestonesInOrder
  <2>3. CASE call'.of # "logMilestone"
    BY <2>3 DEF MilestonesInOrder
  <2> QED  BY <2>1, <2>2, <2>3, Steps, CallNames
<1> QED  BY <1>1, <1>2, PTL DEF Spec

-----------------------------------------------------------------------------
(* Requests of rdklogctrl.                                                   *)

(* The names of the levels are eight different words. *)
LEMMA LevelNames ==
  /\ DOMAIN LevelName = 1 .. 8
  /\ \A i, j \in 1 .. 8 : LevelName[i] = LevelName[j] => i = j
  /\ LevelName[8] = "NONE" /\ LevelName[7] = "TRACE" /\ LevelName[3] = "WARN"
  /\ "" \notin { LevelName[i] : i \in DOMAIN LevelName }
<1>1. /\ LevelName[1] = "FATAL" /\ LevelName[2] = "ERROR"
      /\ LevelName[3] = "WARN" /\ LevelName[4] = "NOTICE"
      /\ LevelName[5] = "INFO" /\ LevelName[6] = "DEBUG"
      /\ LevelName[7] = "TRACE" /\ LevelName[8] = "NONE"
  BY DEF LevelName
<1>2. DOMAIN LevelName = 1 .. 8
  BY DEF LevelName
<1>3. \A i \in 1 .. 8 : i = 1 \/ i = 2 \/ i = 3 \/ i = 4 \/ i = 5 \/ i = 6
                          \/ i = 7 \/ i = 8
  OBVIOUS
<1>4. \A i, j \in 1 .. 8 : LevelName[i] = LevelName[j] => i = j
  <2> SUFFICES ASSUME NEW i \in 1 .. 8, NEW j \in 1 .. 8,
                      LevelName[i] = LevelName[j]
               PROVE  i = j
    OBVIOUS
  <2>1. CASE i = 1 \/ i = 2 \/ i = 3 \/ i = 4
    BY <1>1, <1>3, <2>1
  <2>2. CASE i = 5 \/ i = 6 \/ i = 7 \/ i = 8
    BY <1>1, <1>3, <2>2
  <2> QED  BY <1>3, <2>1, <2>2
<1>5. "" \notin { LevelName[i] : i \in DOMAIN LevelName }
  BY <1>1, <1>2, <1>3
<1> QED  BY <1>1, <1>2, <1>4, <1>5

(* A word that begins a level's name stands for that level. *)
LEMMA FoundLevel ==
  ASSUME NEW word \in Word, word.stem # ""
  PROVE  \E n \in 1 .. 8 : LevelName[n] = word.stem /\ LevelNamed(word.stem) = n - 1
<1>1. PICK n \in 1 .. 8 : LevelName[n] = word.stem
  <2>1. word.stem \in { LevelName[i] : i \in DOMAIN LevelName }
    BY DEF Word
  <2> QED  BY <2>1, LevelNames
<1>2. \A i \in DOMAIN LevelName : LevelName[i] = word.stem <=> i = n
  BY <1>1, LevelNames
<1>3. n \in DOMAIN LevelName
  BY LevelNames
<1>4. LevelNamed(word.stem) = n - 1
  BY <1>2, <1>3 DEF LevelNamed
<1> QED  BY <1>1, <1>4

(* What rdklogctrl and the parser of debug.ini make of a word. *)
LEMMA WordMeaning ==
  ASSUME NEW word \in Word
  PROVE  /\ ValidateLogLevel(word) # -1 =>
              /\ ValidateLogLevel(word) \in 0 .. 7
              /\ Begins(word, LevelName[ValidateLogLevel(word) + 1])
         /\ word.upper /\ SettingOf(word) # Unrecognised =>
              /\ ValidateLogLevel(word) # -1
              /\ SettingOf(word) = ValidateLogLevel(word)
<1>1. CASE word.stem = ""
  BY <1>1 DEF ValidateLogLevel, SettingOf, LevelFromString
<1>2. CASE word.stem # ""
  <2>1. PICK n \in 1 .. 8 : LevelName[n] = word.stem /\ LevelNamed(word.stem) = n - 1
    BY <1>2, FoundLevel
  <2>2. (n - 1) + 1 = n /\ n - 1 \in 0 .. 7 /\ n - 1 # -1
    OBVIOUS
  <2>3. ValidateLogLevel(word) =
          IF word.upper /\ (word.stem = "TRACE" => word.tail = "")
          THEN n - 1 ELSE -1
    BY <1>2, <2>1 DEF ValidateLogLevel
  <2>4. LevelFromString(word) = IF Whole(word) THEN n - 1 ELSE NONE
    BY <1>2, <2>1 DEF LevelFromString
  <2>5. ValidateLogLevel(word) # -1 =>
              /\ ValidateLogLevel(word) \in 0 .. 7
              /\ Begins(word, LevelName[ValidateLogLevel(word) + 1])
    BY <2>1, <2>2, <2>3 DEF Begins
  <2>6. word.stem = "NONE" => n = 8
    <3>1. n \in 1 .. 8 /\ 8 \in 1 .. 8
      BY <2>1
    <3> QED  BY <2>1, <3>1, LevelNames, Zenon
  <2>7. Whole(word) => (word.stem = "TRACE" => word.tail = "")
    BY DEF Whole
  <2>8. ASSUME word.upper, SettingOf(word) # Unrecognised
        PROVE  /\ ValidateLogLevel(word) # -1
               /\ SettingOf(word) = ValidateLogLevel(word)
    <3>1. CASE word.stem = "NONE" /\ word.tail = ""
      <4>1. SettingOf(word) = 7
        BY <3>1 DEF SettingOf, NONE
      <4>2. n - 1 = 7
        <5>1. n = 8
          BY <2>6, <3>1, Zenon
        <5> QED  BY <5>1
      <4>3. word.tail = ""
        BY <3>1, Zenon
      <4>4. ValidateLogLevel(word) = n - 1
        BY <2>3, <2>8, <4>3, Zenon
      <4>5. n - 1 # -1
        BY <4>2
      <4> QED  BY <4>1, <4>2, <4>4, <4>5, Zenon
    <3>2. CASE ~ (word.stem = "NONE" /\ word.tail = "")
      BY <2>2, <2>3, <2>4, <2>7, <2>8, <3>2 DEF SettingOf
    <3> QED  BY <3>1, <3>2
  <2> QED  BY <2>5, <2>8
<1> QED  BY <1>1, <1>2

(* A request that is sent is applied as it was meant. *)
LEMMA RequestStep ==
  ASSUME RunRdkLogCtrl
  PROVE  AppliedAsMeant'
<1>1. PICK args \in ArgLists, process \in Processes :
        /\ call' = [of |-> "rdklogctrl",
                    in |-> [args |-> args, process |-> process]]
        /\ result' = Request(args, process)
  BY DEF RunRdkLogCtrl, Called
<1> DEFINE level   == ValidateLogLevel(args.word)
           change  == Applied(Request(args, process), process.name)
           known   == args.word.upper /\ SettingOf(args.word) # Unrecognised
           sent    == Request(args, process).sent
           checked == /\ args.count = 3
                      /\ args.pid = "positive"
                      /\ args.module.length \in 1 .. NameMax
                      /\ args.module.prefixed
                      /\ level # -1
                      /\ Resolves(process)
<1>2. /\ level # -1 => level \in 0 .. 7 /\ Begins(args.word, LevelName[level + 1])
      /\ known => level # -1 /\ SettingOf(args.word) = level
  BY InputAssumption, WordMeaning
<1>3. sent <=> checked
  BY DEF Request, Refused
<1>4. ASSUME sent
      PROVE  /\ Len(change) = 1
             /\ change[1].module = args.module
             /\ change[1].level = level
  <2>1. level \in 0 .. 7
    BY <1>2, <1>3, <1>4
  <2>2. Request(args, process) =
          [sent |-> TRUE, signature |-> "COMC",
           app_name |-> Field(process.name),
           component_name |-> Field(args.module), log_level |-> level]
    BY <1>3, <1>4 DEF Request
  <2> HIDE DEF level
  <2>3. change = << [module |-> args.module, level |-> level] >>
    BY <2>1, <2>2 DEF Applied, Field, FATAL, NONE
  <2> HIDE DEF change
  <2> QED  BY <2>3
<1>5. /\ sent => /\ Len(change) = 1
                 /\ change[1].module = args.module
                 /\ Begins(args.word, LevelName[change[1].level + 1])
                 /\ known => change[1].level = SettingOf(args.word)
      /\ args.count = 3 /\ args.pid = "positive" /\ known
           /\ args.module.prefixed /\ args.module.length \in 1 .. NameMax
           /\ Resolves(process) => sent
  <2> HIDE DEF level, change, known, sent
  <2>1. args.count = 3 /\ args.pid = "positive" /\ known
           /\ args.module.prefixed /\ args.module.length \in 1 .. NameMax
           /\ Resolves(process) => sent
    BY <1>2, <1>3
  <2>2. sent => level # -1
    BY <1>3
  <2> QED  BY <1>2, <1>4, <2>1, <2>2
<1> QED  BY <1>1, <1>5 DEF AppliedAsMeant

(* Whatever rdklogctrl reports as sent is applied, to the module given, at a *)
(* level that begins as the word does.                                       *)
THEOREM AppliedAsMeantHolds == Spec => []AppliedAsMeant
<1>1. Init => AppliedAsMeant
  BY DEF Init, Idle, AppliedAsMeant
<1>2. AppliedAsMeant /\ [Next]_vars => AppliedAsMeant'
  <2> SUFFICES ASSUME AppliedAsMeant, [Next]_vars PROVE AppliedAsMeant'
    OBVIOUS
  <2>1. CASE RunRdkLogCtrl
    BY <2>1, RequestStep
  <2>2. CASE UNCHANGED << call, result >>
    BY <2>2 DEF AppliedAsMeant
  <2>3. CASE call'.of # "rdklogctrl"
    BY <2>3 DEF AppliedAsMeant
  <2> QED  BY <2>1, <2>2, <2>3, Steps, CallNames
<1> QED  BY <1>1, <1>2, PTL DEF Spec

-----------------------------------------------------------------------------
(* Onboarding records.                                                       *)

(* What snprintf leaves of a text: all of it, or its beginning. *)
LEMMA PrintedText ==
  ASSUME NEW text \in Seq(STRING), NEW size \in Nat \ {0}
  PROVE  /\ Printed(text, size) \in Seq(STRING)
         /\ Len(text) < size => Printed(text, size) = text
         /\ Len(text) >= size => Len(Printed(text, size)) = size - 1
         /\ \A i \in 1 .. Len(Printed(text, size)) :
              i \in 1 .. Len(text) /\ Printed(text, size)[i] = text[i]
<1>1. CASE Len(text) < size
  BY <1>1 DEF Printed
<1>2. CASE ~ (Len(text) < size)
  <2>1. Printed(text, size) = SubSeq(text, 1, size - 1)
    BY <1>2 DEF Printed
  <2>2. \A i \in 1 .. (size - 1) : i \in 1 .. Len(text) /\ text[i] \in STRING
    BY <1>2, ElementOfSeq
  <2>3. /\ SubSeq(text, 1, size - 1) \in Seq(STRING)
        /\ Len(SubSeq(text, 1, size - 1)) = size - 1
        /\ \A i \in 1 .. (size - 1) : SubSeq(text, 1, size - 1)[i] = text[i]
    BY <2>2, SubSeqProperties
  <2> QED  BY <1>2, <2>1, <2>2, <2>3
<1> QED  BY <1>1, <1>2

(* The texts without a newline. *)
OneLine(text) ==
  text \in Seq(STRING) /\ \A i \in 1 .. Len(text) : text[i] # "\n"

(* A sequence of one. *)
LEMMA SingleSeq ==
  ASSUME NEW S, NEW x \in S
  PROVE  << x >> \in Seq(S) /\ Len(<< x >>) = 1 /\ << x >>[1] = x
OBVIOUS

(* A text of one character. *)
LEMMA Single ==
  ASSUME NEW x \in STRING
  PROVE  /\ << x >> \in Seq(STRING) /\ Len(<< x >>) = 1 /\ << x >>[1] = x
         /\ x # "\n" => OneLine(<< x >>)
<1>1. << x >> \in Seq(STRING) /\ Len(<< x >>) = 1 /\ << x >>[1] = x
  BY SingleSeq
<1>2. \A i \in 1 .. Len(<< x >>) : i = 1
  BY <1>1
<1> QED  BY <1>1, <1>2 DEF OneLine

(* A sanitized text has no newline. *)
LEMMA SanitizedText ==
  ASSUME NEW text \in Seq(STRING)
  PROVE  OneLine(Sanitized(text))
<1>1. /\ Len(text) \in Nat /\ DOMAIN text = 1 .. Len(text)
      /\ \A i \in 1 .. Len(text) : text[i] \in STRING
  BY LenProperties, ElementOfSeq
<1>2. Sanitized(text) =
        [i \in 1 .. Len(text) |-> IF text[i] \in Control THEN " " ELSE text[i]]
  BY <1>1 DEF Sanitized
<1>3. ASSUME NEW i \in 1 .. Len(text)
      PROVE  Sanitized(text)[i] \in STRING /\ Sanitized(text)[i] # "\n"
  <2>1. Sanitized(text)[i] = IF text[i] \in Control THEN " " ELSE text[i]
    BY <1>2
  <2>2. " " \in STRING /\ "\n" \in Control /\ " " # "\n"
    BY StringAssumption DEF Control
  <2> QED  BY <1>1, <2>1, <2>2
<1> HIDE DEF Sanitized
<1>4. Sanitized(text) \in Seq(STRING) /\ Len(Sanitized(text)) = Len(text)
  <2> DEFINE f == Sanitized(text)
             n == Len(text)
  <2>1. n \in Nat /\ f = [i \in 1 .. n |-> f[i]] /\ \A i \in 1 .. n : f[i] \in STRING
    BY <1>1, <1>2, <1>3
  <2> HIDE DEF f, n
  <2>2. f \in Seq(STRING) /\ Len(f) = n
    BY <2>1
  <2> QED  BY <2>2 DEF f, n
<1> QED  BY <1>3, <1>4 DEF OneLine

(* Two texts without a newline make one without. *)
LEMMA OneLineConcat ==
  ASSUME NEW s, NEW t, OneLine(s), OneLine(t)
  PROVE  OneLine(s \o t)
<1>1. s \in Seq(STRING) /\ t \in Seq(STRING)
  BY DEF OneLine
<1>2. /\ s \o t \in Seq(STRING)
      /\ Len(s \o t) = Len(s) + Len(t)
      /\ \A i \in 1 .. Len(s) + Len(t) : (s \o t)[i] =
                     IF i <= Len(s) THEN s[i] ELSE t[i - Len(s)]
  BY <1>1, ConcatProperties
<1>3. Len(s) \in Nat /\ Len(t) \in Nat
  BY <1>1, LenProperties
<1> QED  BY <1>2, <1>3 DEF OneLine

(* One newline at the end of such a text is the only one. *)
LEMMA EndedLine ==
  ASSUME NEW s, OneLine(s)
  PROVE  Newlines(s \o << "\n" >>) = {Len(s \o << "\n" >>)}
<1> DEFINE nl == << "\n" >>
<1>1. s \in Seq(STRING) /\ nl \in Seq(STRING) /\ Len(nl) = 1 /\ nl[1] = "\n"
  BY StringAssumption, Single DEF OneLine
<1> HIDE DEF nl
<1>2. /\ s \o nl \in Seq(STRING)
      /\ Len(s \o nl) = Len(s) + 1
      /\ \A i \in 1 .. Len(s) + 1 : (s \o nl)[i] =
                     IF i <= Len(s) THEN s[i] ELSE nl[i - Len(s)]
  <2>1. /\ s \o nl \in Seq(STRING)
        /\ Len(s \o nl) = Len(s) + Len(nl)
        /\ \A i \in 1 .. Len(s) + Len(nl) : (s \o nl)[i] =
                       IF i <= Len(s) THEN s[i] ELSE nl[i - Len(s)]
    BY <1>1, ConcatProperties
  <2> QED  BY <1>1, <2>1
<1>3. Len(s) \in Nat /\ DOMAIN (s \o nl) = 1 .. Len(s) + 1
  BY <1>1, <1>2, LenProperties
<1>4. \A i \in 1 .. Len(s) + 1 : (s \o nl)[i] = "\n" <=> i = Len(s) + 1
  BY <1>1, <1>2, <1>3 DEF OneLine
<1> QED  BY <1>2, <1>3, <1>4 DEF Newlines, nl

(* What one call of rdk_logger_log_onboard writes. *)
LEMMA OnboardRecord ==
  ASSUME NEW past \in BOOLEAN, NEW module \in Seq(STRING) \cup {NoText},
         NEW message \in Seq(STRING) \cup {NoText}
  PROVE  IF past \/ message = NoText
         THEN LogOnboard(past, module, message) = << >>
         ELSE Newlines(LogOnboard(past, module, message))
                = {Len(LogOnboard(past, module, message))}
<1> SUFFICES ASSUME ~ past, message # NoText
             PROVE  Newlines(LogOnboard(past, module, message))
                      = {Len(LogOnboard(past, module, message))}
  BY DEF LogOnboard
<1> DEFINE named == IF module = NoText THEN << >>
                    ELSE << "[" >> \o Sanitized(Printed(module, MaxBuf)) \o << "]" >>
           said  == Sanitized(Printed(message, MaxBuf))
<1>1. OneLine(<< "stamp" >>) /\ OneLine(<< "[" >>) /\ OneLine(<< "]" >>)
        /\ OneLine(<< >>)
  <2>1. OneLine(<< >>)
    BY EmptySeq DEF OneLine
  <2>2. /\ "stamp" \in STRING /\ "[" \in STRING /\ "]" \in STRING
        /\ "stamp" # "\n" /\ "[" # "\n" /\ "]" # "\n"
    BY StringAssumption
  <2> QED  BY <2>1, <2>2, Single
<1>2. MaxBuf \in Nat \ {0}
  BY MaxBufAssumption
<1>3. \A text \in Seq(STRING) : OneLine(Sanitized(Printed(text, MaxBuf)))
  BY <1>2, PrintedText, SanitizedText
<1>4. OneLine(said)
  BY <1>3
<1>5. OneLine(named)
  <2>1. CASE module = NoText
    BY <1>1, <2>1
  <2>2. CASE module # NoText
    <3>1. OneLine(Sanitized(Printed(module, MaxBuf)))
      BY <1>3, <2>2
    <3>2. OneLine(<< "[" >> \o Sanitized(Printed(module, MaxBuf)))
      BY <1>1, <3>1, OneLineConcat
    <3>3. OneLine(<< "[" >> \o Sanitized(Printed(module, MaxBuf)) \o << "]" >>)
      BY <1>1, <3>2, OneLineConcat
    <3> QED  BY <2>2, <3>3
  <2> QED  BY <2>1, <2>2
<1>6. LogOnboard(past, module, message)
        = << "stamp" >> \o named \o said \o << "\n" >>
  BY DEF LogOnboard
<1> HIDE DEF named, said
<1>7. OneLine(<< "stamp" >> \o named)
  BY <1>1, <1>5, OneLineConcat
<1>8. OneLine(<< "stamp" >> \o named \o said)
  BY <1>4, <1>7, OneLineConcat
<1> QED  BY <1>6, <1>8, EndedLine

(* The command adds a newline of its own, and writes one record all the same. *)
LEMMA OnboardCommand ==
  ASSUME NEW past \in BOOLEAN,
         NEW args \in { << >> } \cup { << m >> : m \in Messages }
                       \cup (Messages \X Messages)
  PROVE  IF past \/ args = << >> THEN OnboardMain(past, args) = << >>
         ELSE Newlines(OnboardMain(past, args)) = {Len(OnboardMain(past, args))}
<1> DEFINE Ended(text) == text \o << "\n" >>
<1>1. \A text \in Messages : Ended(text) \in Seq(STRING) /\ Ended(text) # NoText
  <2>1. << "\n" >> \in Seq(STRING)
    BY StringAssumption, Single
  <2>2. Messages \subseteq Seq(STRING) /\ NoText \notin Seq(STRING)
    BY InputAssumption
  <2> QED  BY <2>1, <2>2, ConcatProperties
<1>2. CASE args = << >>
  <2>1. Len(args) = 0
    BY <1>2
  <2> QED  BY <1>2, <2>1 DEF OnboardMain
<1>3. CASE args \in { << m >> : m \in Messages }
  <2>1. Len(args) = 1 /\ args[1] \in Messages /\ args # << >>
    BY <1>3
  <2>2. OnboardMain(past, args) = LogOnboard(past, NoText, Ended(args[1]))
    BY <2>1 DEF OnboardMain
  <2> HIDE DEF Ended
  <2> QED  BY <1>1, <2>1, <2>2, OnboardRecord
<1>4. CASE args \in Messages \X Messages
  <2>1. /\ Len(args) = 2 /\ args # << >>
        /\ args[1] \in Messages /\ args[2] \in Messages
    BY <1>4
  <2>2. OnboardMain(past, args) = LogOnboard(past, args[1], Ended(args[2]))
    BY <2>1 DEF OnboardMain
  <2>3. args[1] \in Seq(STRING)
    BY <2>1, InputAssumption
  <2> HIDE DEF Ended
  <2> QED  BY <1>1, <2>1, <2>2, <2>3, OnboardRecord
<1> QED  BY <1>2, <1>3, <1>4

(* A call of rdk_logger_log_onboard writes one record, on one line. *)
LEMMA OnboardStep ==
  ASSUME WriteOnboard \/ RunOnboardMain
  PROVE  OneRecordPerCall'
<1>1. CASE WriteOnboard
  <2>1. PICK past \in BOOLEAN, module \in Messages \cup {NoText},
             message \in Messages \cup {NoText} :
          /\ call' = [of |-> "rdk_logger_log_onboard",
                      in |-> [past |-> past, module |-> module,
                              message |-> message]]
          /\ result' = LogOnboard(past, module, message)
    BY <1>1 DEF WriteOnboard, Called
  <2>2. module \in Seq(STRING) \cup {NoText} /\ message \in Seq(STRING) \cup {NoText}
    BY InputAssumption
  <2> QED  BY <2>1, <2>2, OnboardRecord DEF OneRecordPerCall
<1>2. CASE RunOnboardMain
  <2>1. PICK past \in BOOLEAN,
             args \in { << >> } \cup { << m >> : m \in Messages }
                       \cup (Messages \X Messages) :
          /\ call' = [of |-> "rdk_logger_log_onboard",
                      in |-> [past |-> past, module |-> NoText,
                              message |-> IF args = << >> THEN NoText ELSE << >>]]
          /\ result' = OnboardMain(past, args)
    BY <1>2 DEF RunOnboardMain, Called
  <2>2. NoText # << >>
    BY InputAssumption, EmptySeq
  <2>3. call'.in.message = NoText <=> args = << >>
    BY <2>1, <2>2
  <2> QED  BY <2>1, <2>3, OnboardCommand DEF OneRecordPerCall
<1> QED  BY <1>1, <1>2

(* No call writes two onboarding records, and none writes any on a device    *)
(* past onboarding.                                                          *)
THEOREM OneRecordPerCallHolds == Spec => []OneRecordPerCall
<1>1. Init => OneRecordPerCall
  BY DEF Init, Idle, OneRecordPerCall
<1>2. OneRecordPerCall /\ [Next]_vars => OneRecordPerCall'
  <2> SUFFICES ASSUME OneRecordPerCall, [Next]_vars PROVE OneRecordPerCall'
    OBVIOUS
  <2>1. CASE WriteOnboard \/ RunOnboardMain
    BY <2>1, OnboardStep
  <2>2. CASE UNCHANGED << call, result >>
    BY <2>2 DEF OneRecordPerCall, Newlines
  <2>3. CASE call'.of # "rdk_logger_log_onboard"
    BY <2>3 DEF OneRecordPerCall
  <2> QED  BY <2>1, <2>2, <2>3, Steps, CallNames
<1> QED  BY <1>1, <1>2, PTL DEF Spec

-----------------------------------------------------------------------------
(* Records.                                                                  *)

(* getModuleName gives the last part of a category. *)
LEMMA ModuleIsLastPart ==
  ASSUME NEW category \in Seq(STRING)
  PROVE  /\ ModuleName(category) \in Seq(STRING)
         /\ LastPart(category, ModuleName(category))
<1> DEFINE len  == Len(category)
           dots == { i \in 1 .. len : category[i] = "." }
<1>1. /\ len \in Nat /\ DOMAIN category = 1 .. len
      /\ \A i \in 1 .. len : category[i] \in STRING
      /\ category = << >> <=> len = 0
  BY LenProperties, ElementOfSeq, EmptySeq
<1>2. << "UNKNOWN" >> \in Seq(STRING)
  BY StringAssumption, Single
<1>3. ASSUME NEW n \in 0 .. len, len # 0, 1 \notin dots, len \notin dots,
             n = 0 \/ n \in dots, \A i \in dots : i <= n,
             ModuleName(category) = SubSeq(category, n + 1, len)
      PROVE  /\ ModuleName(category) \in Seq(STRING)
             /\ LastPart(category, ModuleName(category))
  <2>1. ModuleName(category) \in Seq(STRING)
    BY <1>1, <1>3, SubSeqProperties
  <2>2. \A i \in 1 .. len : category[i] = "." => i <= n
    BY <1>3
  <2>3. /\ n = 0 \/ (n \in DOMAIN category /\ category[n] = ".")
        /\ \A i \in (n + 1) .. len : ~ (i \in DOMAIN category /\ category[i] = ".")
    BY <1>1, <1>3, <2>2
  <2>4. \E m \in 0 .. len :
          /\ ModuleName(category) = SubSeq(category, m + 1, len)
          /\ m = 0 \/ (m \in DOMAIN category /\ category[m] = ".")
          /\ \A i \in (m + 1) .. len : ~ (i \in DOMAIN category /\ category[i] = ".")
    BY <1>3, <2>3
  <2>5. ~ (1 \in DOMAIN category /\ category[1] = ".")
         /\ ~ (len \in DOMAIN category /\ category[len] = ".")
    BY <1>1, <1>3
  <2> QED  BY <1>1, <1>3, <2>1, <2>4, <2>5, Zenon DEF LastPart
<1>4. CASE len = 0 \/ 1 \in dots \/ len \in dots
  <2>1. ModuleName(category) = << "UNKNOWN" >>
    BY <1>4 DEF ModuleName
  <2>2. \/ category = << >>
        \/ 1 \in DOMAIN category /\ category[1] = "."
        \/ len \in DOMAIN category /\ category[len] = "."
    BY <1>1, <1>4
  <2> QED  BY <1>2, <2>1, <2>2, Zenon DEF LastPart
<1>5. CASE len # 0 /\ 1 \notin dots /\ len \notin dots /\ dots = {}
  <2>1. ModuleName(category) = category
    BY <1>5 DEF ModuleName
  <2>2. ModuleName(category) = SubSeq(category, 0 + 1, len)
    BY <2>1, SubSeqFull
  <2> QED  BY <1>1, <1>3, <1>5, <2>2
<1>6. CASE len # 0 /\ 1 \notin dots /\ len \notin dots /\ dots # {}
  <2> DEFINE last == CHOOSE i \in dots : \A j \in dots : i >= j
  <2>1. \E m \in dots : \A k \in dots : k <= m
    <3>1. dots \in SUBSET Int /\ \A i \in dots : i <= len
      BY <1>1
    <3>2. dots # {} /\ len \in Int
      BY <1>1, <1>6
    <3> HIDE DEF dots, len
    <3> QED  BY <3>1, <3>2, GreatestElement
  <2>2. \E m \in dots : \A k \in dots : m >= k
    BY <1>1, <2>1
  <2>3. last \in dots /\ \A k \in dots : last >= k
    <3> HIDE DEF dots
    <3> QED  BY <2>2
  <2>4. ModuleName(category) = SubSeq(category, 1 + last, len)
    BY <1>6 DEF ModuleName
  <2> HIDE DEF last
  <2>5. last \in 0 .. len /\ \A k \in dots : k <= last
    BY <1>1, <2>3
  <2>6. 1 + last = last + 1
    BY <2>5
  <2> QED  BY <1>3, <1>6, <2>3, <2>4, <2>5, <2>6
<1> QED  BY <1>4, <1>5, <1>6

(* Where the parts of a record stand. *)
Parts(record, module, line) ==
  /\ record \in Seq(STRING)
  /\ Len(record) = Len(module) + Len(line) + 2
  /\ record[1] = "stamp"
  /\ SubSeq(record, 2, Len(module) + 1) = module
  /\ SubSeq(record, Len(module) + 2, Len(record)) = << "]" >> \o line
  /\ Len(line) > 0 => record[Len(record)] = line[Len(line)]
  /\ record[Len(module) + 2] = "]"

(* What rdk_format_log puts together has its parts there. *)
LEMMA RecordParts ==
  ASSUME NEW module \in Seq(STRING), NEW line \in Seq(STRING), NEW record,
         record = << "stamp" >> \o module \o << "]" >> \o line
  PROVE  Parts(record, module, line)
<1> DEFINE stamp == << "stamp" >>
           close == << "]" >>
<1>1. /\ stamp \in Seq(STRING) /\ Len(stamp) = 1 /\ stamp[1] = "stamp"
      /\ close \in Seq(STRING) /\ Len(close) = 1 /\ close[1] = "]"
  BY StringAssumption, Single
<1>2. Len(module) \in Nat /\ Len(line) \in Nat
  BY LenProperties
<1> DEFINE m == Len(module)
           l == Len(line)
           s == stamp \o module
           t == s \o close
           u == t \o line
           v == close \o line
<1> HIDE DEF stamp, close
<1>3. /\ s \in Seq(STRING) /\ Len(s) = m + 1
      /\ \A i \in 1 .. m + 1 : s[i] = IF i = 1 THEN "stamp" ELSE module[i - 1]
  <2>1. /\ s \in Seq(STRING) /\ Len(s) = Len(stamp) + m
        /\ \A i \in 1 .. Len(stamp) + m : s[i] =
             IF i <= Len(stamp) THEN stamp[i] ELSE module[i - Len(stamp)]
    BY <1>1, ConcatProperties
  <2> HIDE DEF s
  <2> QED  BY <1>1, <1>2, <2>1
<1>4. /\ t \in Seq(STRING) /\ Len(t) = m + 2
      /\ \A i \in 1 .. m + 2 : t[i] = IF i <= m + 1 THEN s[i] ELSE "]"
  <2> HIDE DEF s
  <2>1. /\ t \in Seq(STRING) /\ Len(t) = Len(s) + Len(close)
        /\ \A i \in 1 .. Len(s) + Len(close) : t[i] =
             IF i <= Len(s) THEN s[i] ELSE close[i - Len(s)]
    BY <1>1, <1>3, ConcatProperties
  <2> HIDE DEF t
  <2> QED  BY <1>1, <1>2, <1>3, <2>1
<1>5. /\ u \in Seq(STRING) /\ Len(u) = m + l + 2
      /\ \A i \in 1 .. m + l + 2 : u[i] = IF i <= m + 2 THEN t[i] ELSE line[i - (m + 2)]
  <2> HIDE DEF s, t
  <2>1. /\ u \in Seq(STRING) /\ Len(u) = Len(t) + l
        /\ \A i \in 1 .. Len(t) + l : u[i] =
             IF i <= Len(t) THEN t[i] ELSE line[i - Len(t)]
    BY <1>4, ConcatProperties
  <2> HIDE DEF u
  <2> QED  BY <1>2, <1>4, <2>1
<1>6. /\ v \in Seq(STRING) /\ Len(v) = l + 1
      /\ \A i \in 1 .. l + 1 : v[i] = IF i = 1 THEN "]" ELSE line[i - 1]
  <2>1. /\ v \in Seq(STRING) /\ Len(v) = Len(close) + l
        /\ \A i \in 1 .. Len(close) + l : v[i] =
             IF i <= Len(close) THEN close[i] ELSE line[i - Len(close)]
    BY <1>1, ConcatProperties
  <2> HIDE DEF v
  <2> QED  BY <1>1, <1>2, <2>1
<1>7. record = u
  BY DEF stamp, close
<1> HIDE DEF s, t, u, v
<1>8. /\ \A i \in 1 .. m : u[i + 1] = module[i]
      /\ u[1] = "stamp"
      /\ u[m + 2] = "]"
      /\ \A i \in 1 .. l + 1 : u[m + 1 + i] = v[i]
      /\ l > 0 => u[m + l + 2] = line[l]
  <2> HIDE DEF m, l
  <2>1. ASSUME NEW i \in 1 .. m PROVE u[i + 1] = module[i]
    <3>1. u[i + 1] = t[i + 1] /\ t[i + 1] = s[i + 1]
      BY <1>2, <1>4, <1>5 DEF m, l
    <3>2. i + 1 \in 1 .. m + 1 /\ i + 1 # 1 /\ (i + 1) - 1 = i
      BY <1>2 DEF m
    <3> QED  BY <1>3, <3>1, <3>2
  <2>2. u[1] = "stamp" /\ u[m + 2] = "]"
    <3>1. /\ 1 \in 1 .. m + l + 2 /\ 1 \in 1 .. m + 2 /\ 1 \in 1 .. m + 1
          /\ m + 2 \in 1 .. m + l + 2 /\ m + 2 \in 1 .. m + 2
          /\ 1 <= m + 2 /\ 1 <= m + 1 /\ ~ (m + 2 <= m + 1)
      BY <1>2 DEF m, l
    <3>2. u[1] = t[1] /\ t[1] = s[1] /\ s[1] = "stamp"
      BY <1>3, <1>4, <1>5, <3>1
    <3>3. u[m + 2] = t[m + 2] /\ t[m + 2] = "]"
      BY <1>2, <1>4, <1>5, <3>1 DEF m
    <3> QED  BY <3>2, <3>3
  <2>3. ASSUME NEW i \in 1 .. l + 1 PROVE u[m + 1 + i] = v[i]
    <3>1. CASE i = 1
      <4>1. m + 1 + i = m + 2
        BY <1>2, <3>1 DEF m
      <4>2. v[i] = "]"
        BY <1>6, <3>1
      <4> QED  BY <2>2, <4>1, <4>2
    <3>2. CASE i # 1
      <4>1. /\ m + 1 + i \in 1 .. m + l + 2 /\ ~ (m + 1 + i <= m + 2)
            /\ (m + 1 + i) - (m + 2) = i - 1
        BY <1>2, <3>2 DEF m, l
      <4>2. u[m + 1 + i] = line[(m + 1 + i) - (m + 2)]
        BY <1>5, <4>1
      <4>3. v[i] = line[i - 1]
        BY <1>6, <3>2
      <4> QED  BY <4>1, <4>2, <4>3
    <3> QED  BY <3>1, <3>2
  <2>4. ASSUME l > 0 PROVE u[m + l + 2] = line[l]
    <3>1. /\ m + l + 2 \in 1 .. m + l + 2 /\ ~ (m + l + 2 <= m + 2)
          /\ (m + l + 2) - (m + 2) = l
      BY <1>2, <2>4 DEF m, l
    <3>2. u[m + l + 2] = line[(m + l + 2) - (m + 2)]
      BY <1>5, <3>1
    <3> QED  BY <3>1, <3>2
  <2> QED  BY <2>1, <2>2, <2>3, <2>4
<1>9. SubSeq(u, 2, m + 1) = module
  <2>1. \A i \in 2 .. m + 1 : u[i] \in STRING
    BY <1>2, <1>5, ElementOfSeq
  <2>2. /\ SubSeq(u, 2, m + 1) \in Seq(STRING)
        /\ Len(SubSeq(u, 2, m + 1)) = m
        /\ \A i \in 1 .. m : SubSeq(u, 2, m + 1)[i] = u[2 + i - 1]
    <3>1. /\ SubSeq(u, 2, m + 1) \in Seq(STRING)
          /\ Len(SubSeq(u, 2, m + 1)) = IF 2 <= m + 1 THEN m + 1 - 2 + 1 ELSE 0
          /\ \A i \in 1 .. m + 1 - 2 + 1 : SubSeq(u, 2, m + 1)[i] = u[2 + i - 1]
      BY <1>2, <2>1, SubSeqProperties
    <3> QED  BY <1>2, <3>1
  <2>3. \A i \in 1 .. m : SubSeq(u, 2, m + 1)[i] = module[i]
    BY <1>2, <1>8, <2>2
  <2> QED  BY <2>2, <2>3, SeqEqual
<1>10. SubSeq(u, m + 2, m + l + 2) = v
  <2>1. \A i \in (m + 2) .. (m + l + 2) : u[i] \in STRING
    BY <1>2, <1>5, ElementOfSeq
  <2>2. /\ SubSeq(u, m + 2, m + l + 2) \in Seq(STRING)
        /\ Len(SubSeq(u, m + 2, m + l + 2)) = l + 1
        /\ \A i \in 1 .. l + 1 : SubSeq(u, m + 2, m + l + 2)[i] = u[m + 2 + i - 1]
    <3>1. /\ SubSeq(u, m + 2, m + l + 2) \in Seq(STRING)
          /\ Len(SubSeq(u, m + 2, m + l + 2)) =
               IF m + 2 <= m + l + 2 THEN (m + l + 2) - (m + 2) + 1 ELSE 0
          /\ \A i \in 1 .. (m + l + 2) - (m + 2) + 1 :
               SubSeq(u, m + 2, m + l + 2)[i] = u[m + 2 + i - 1]
      BY <1>2, <2>1, SubSeqProperties
    <3> QED  BY <1>2, <3>1
  <2>3. \A i \in 1 .. l + 1 : SubSeq(u, m + 2, m + l + 2)[i] = v[i]
    BY <1>2, <1>8, <2>2
  <2> QED  BY <1>6, <2>2, <2>3, SeqEqual
<1>11. v = << "]" >> \o line
  BY DEF v, close
<1> QED  BY <1>5, <1>7, <1>8, <1>9, <1>10, <1>11 DEF Parts

(* The newline of a message that ends in one is the record's own. *)
EndsLine(message) == message # << >> /\ message[Len(message)] = "\n"

LineOf(message) ==
  IF EndsLine(message) THEN message ELSE message \o << "\n" >>

(* A record that fits is the stamp, the module and the message's line; one   *)
(* that does not is the beginning of such a record.                          *)
LEMMA FormattedRecord ==
  ASSUME NEW category \in Seq(STRING), NEW message \in Seq(STRING),
         NEW size \in Nat \ {0}, NEW grows \in BOOLEAN
  PROVE  \/ FormatLog(category, message, size, grows) =
              << "stamp" >> \o ModuleName(category) \o << "]" >> \o LineOf(message)
         \/ /\ ~ grows
            /\ Len(FormatLog(category, message, size, grows)) = size - 1
<1> DEFINE module == ModuleName(category)
           front  == << "stamp" >> \o module \o << "]" >>
           nl     == << "\n" >>
           p      == front \o message
           text   == p \o nl
           n      == Len(text)
           room   == BufferSize(n, size, grows)
           data   == Printed(text, room)
           doubled == n >= 2 /\ n < room /\ data[n] = "\n" /\ data[n - 1] = "\n"
<1>1. FormatLog(category, message, size, grows) =
        IF doubled THEN SubSeq(data, 1, n - 1) ELSE data
  BY DEF FormatLog, Unformatted
<1>2. nl \in Seq(STRING) /\ Len(nl) = 1 /\ nl[1] = "\n"
  BY StringAssumption, Single
<1>3. module \in Seq(STRING)
  BY ModuleIsLastPart
<1>4. front \in Seq(STRING)
  <2>1. << "stamp" >> \in Seq(STRING) /\ << "]" >> \in Seq(STRING)
    BY StringAssumption, Single
  <2> HIDE DEF module
  <2>2. << "stamp" >> \o module \in Seq(STRING)
    BY <1>3, <2>1, ConcatProperties
  <2> QED  BY <2>1, <2>2, ConcatProperties
<1>5. /\ p \in Seq(STRING) /\ Len(p) \in Nat /\ Len(p) >= 2
      /\ p[Len(p)] = IF message = << >> THEN "]" ELSE message[Len(message)]
  <2>1. /\ p \in Seq(STRING)
        /\ Len(p) = Len(module) + Len(message) + 2
        /\ Len(message) > 0 => p[Len(p)] = message[Len(message)]
        /\ p[Len(module) + 2] = "]"
    <3>1. p = << "stamp" >> \o module \o << "]" >> \o message
      OBVIOUS
    <3> HIDE DEF module, front, p
    <3>2. Parts(p, module, message)
      BY <1>3, <3>1, RecordParts, Zenon
    <3> QED  BY <3>2, Zenon DEF Parts
  <2>2. /\ Len(module) \in Nat /\ Len(message) \in Nat
        /\ message = << >> <=> Len(message) = 0
    BY <1>3, LenProperties, EmptySeq
  <2> HIDE DEF p, module
  <2> QED  BY <2>1, <2>2
<1> HIDE DEF nl
<1>6. /\ text \in Seq(STRING) /\ n = Len(p) + 1
      /\ text[n] = "\n" /\ text[n - 1] = p[Len(p)]
      /\ SubSeq(text, 1, n - 1) = p
  <2> HIDE DEF p
  <2>1. /\ text \in Seq(STRING) /\ n = Len(p) + Len(nl)
        /\ \A i \in 1 .. Len(p) + Len(nl) : text[i] =
             IF i <= Len(p) THEN p[i] ELSE nl[i - Len(p)]
    BY <1>2, <1>5, ConcatProperties
  <2>2. SubSeq(text, 1, Len(p)) = SubSeq(p, 1, Len(p))
    BY <1>2, <1>5, SubSeqOfConcat1
  <2>3. SubSeq(p, 1, Len(p)) = p
    BY <1>5, SubSeqFull
  <2> HIDE DEF text
  <2>4. n = Len(p) + 1 /\ n - 1 = Len(p)
    BY <1>2, <1>5, <2>1
  <2>5. text[Len(p)] = p[Len(p)]
    BY <1>2, <1>5, <2>1
  <2>6. text[Len(p) + 1] = "\n"
    <3>1. ~ (Len(p) + 1 <= Len(p)) /\ (Len(p) + 1) - Len(p) = 1
      BY <1>5
    <3>2. text[Len(p) + 1] = nl[(Len(p) + 1) - Len(p)]
      BY <1>2, <1>5, <2>1, <3>1
    <3> QED  BY <1>2, <3>1, <3>2
  <2> QED  BY <2>1, <2>2, <2>3, <2>4, <2>5, <2>6
<1>7. text = front \o (message \o nl)
  <2> HIDE DEF front
  <2> QED  BY <1>2, <1>4, ConcatAssociative
<1>8. EndsLine(message) <=> p[Len(p)] = "\n"
  BY <1>5 DEF EndsLine
<1>9. CASE n < room
  <2>1. room \in Nat \ {0}
    BY <1>5, <1>6, <1>9 DEF BufferSize
  <2>2. data = text
    BY <1>9 DEF Printed
  <2> HIDE DEF data, room, text, p, front
  <2>3. doubled <=> EndsLine(message)
    BY <1>5, <1>6, <1>8, <1>9, <2>2
  <2>4. CASE EndsLine(message)
    <3>1. FormatLog(category, message, size, grows) = front \o message
      BY <1>1, <1>6, <2>2, <2>3, <2>4, Zenon DEF p
    <3> QED  BY <2>4, <3>1 DEF LineOf, front
  <2>5. CASE ~ EndsLine(message)
    <3>1. FormatLog(category, message, size, grows) = front \o (message \o nl)
      BY <1>1, <1>7, <2>2, <2>3, <2>5, Zenon
    <3> QED  BY <2>5, <3>1 DEF LineOf, front, nl
  <2> QED  BY <2>4, <2>5
<1>10. CASE ~ (n < room)
  <2> HIDE DEF text
  <2>1. n \in Nat
    BY <1>5, <1>6
  <2>2. ~ grows /\ room = size /\ n >= size
    BY <1>10, <2>1 DEF BufferSize
  <2>3. Len(data) = size - 1
    BY <1>6, <2>2, PrintedText
  <2> HIDE DEF data, room
  <2> QED  BY <1>1, <1>10, <2>2, <2>3
<1> QED  BY <1>9, <1>10

(* A record is whole, or its buffer full. *)
LEMMA RecordStep ==
  ASSUME FormatRecord
  PROVE  RecordIsWhole'
<1>1. PICK category \in Categories, message \in Messages, size \in Sizes,
           grows \in BOOLEAN :
        /\ call' = [of |-> "rdk_format_log",
                    in |-> [category |-> category, message |-> message,
                            size |-> size, grows |-> grows]]
        /\ result' = FormatLog(category, message, size, grows)
  BY DEF FormatRecord, Called
<1>2. category \in Seq(STRING) /\ message \in Seq(STRING) /\ size \in Nat \ {0}
  BY InputAssumption
<1> DEFINE module == ModuleName(category)
           line   == LineOf(message)
           record == FormatLog(category, message, size, grows)
           middle == Len(record) - Len(line) - 1
<1>3. module \in Seq(STRING) /\ LastPart(category, module)
  BY <1>2, ModuleIsLastPart
<1>4. line \in Seq(STRING)
  <2>1. << "\n" >> \in Seq(STRING)
    BY StringAssumption, Single
  <2>2. message \o << "\n" >> \in Seq(STRING)
    BY <1>2, <2>1, ConcatProperties
  <2> QED  BY <1>2, <2>2 DEF LineOf
<1>5. \/ /\ record[1] = "stamp"
         /\ LastPart(category, SubSeq(record, 2, middle))
         /\ SubSeq(record, middle + 1, Len(record)) = << "]" >> \o line
      \/ ~ grows /\ Len(record) = size - 1
  <2>1. CASE record = << "stamp" >> \o module \o << "]" >> \o line
    <3> HIDE DEF record, module, line
    <3>1. /\ Len(record) = Len(module) + Len(line) + 2
          /\ record[1] = "stamp"
          /\ SubSeq(record, 2, Len(module) + 1) = module
          /\ SubSeq(record, Len(module) + 2, Len(record)) = << "]" >> \o line
      <4>1. Parts(record, module, line)
        BY <1>3, <1>4, <2>1, RecordParts, Zenon
      <4> QED  BY <4>1, Zenon DEF Parts
    <3>2. Len(module) \in Nat /\ Len(line) \in Nat
      BY <1>3, <1>4, LenProperties
    <3>3. middle = Len(module) + 1 /\ middle + 1 = Len(module) + 2
      BY <3>1, <3>2
    <3> QED  BY <1>3, <3>1, <3>3
  <2>2. CASE ~ grows /\ Len(record) = size - 1
    BY <2>2
  <2> QED  BY <1>2, <2>1, <2>2, FormattedRecord
<1>6. /\ call'.of = "rdk_format_log" /\ call'.in.message = message
      /\ call'.in.category = category /\ call'.in.grows = grows
      /\ call'.in.size = size /\ result' = record
  BY <1>1
<1> HIDE DEF record
<1> QED  BY <1>5, <1>6, Zenon DEF RecordIsWhole, LineOf, EndsLine

(* A record is one line that names the last part of its category. *)
THEOREM RecordIsWholeHolds == Spec => []RecordIsWhole
<1>1. Init => RecordIsWhole
  BY DEF Init, Idle, RecordIsWhole
<1>2. RecordIsWhole /\ [Next]_vars => RecordIsWhole'
  <2> SUFFICES ASSUME RecordIsWhole, [Next]_vars PROVE RecordIsWhole'
    OBVIOUS
  <2>1. CASE FormatRecord
    BY <2>1, RecordStep
  <2>2. CASE UNCHANGED << call, result >>
    BY <2>2 DEF RecordIsWhole
  <2>3. CASE call'.of # "rdk_format_log"
    BY <2>3 DEF RecordIsWhole
  <2> QED  BY <2>1, <2>2, <2>3, Steps, CallNames
<1> QED  BY <1>1, <1>2, PTL DEF Spec

-----------------------------------------------------------------------------
(* The buffers of a text.                                                    *)

(* The least of a set of natural numbers is in it and at most the others. *)
LEMMA LeastIs ==
  ASSUME NEW S \in SUBSET Nat, S # {}
  PROVE  Least(S) \in S /\ \A i \in S : Least(S) <= i
<1>1. \E m \in S : \A k \in S : m <= k
  BY LeastElement
<1> QED  BY <1>1 DEF Least

(* What fgets takes of a text that is not at its end. *)
LEMMA FgetsTakes ==
  ASSUME NEW text \in Seq(Char), text # << >>
  PROVE  /\ FgetsLength(text) \in 1 .. Len(text)
         /\ FgetsLength(text) <= LineBuf - 1
         /\ \A i \in 1 .. (FgetsLength(text) - 1) : text[i] # "\n"
         /\ \/ FgetsLength(text) = Len(text)
            \/ FgetsLength(text) = LineBuf - 1
            \/ text[FgetsLength(text)] = "\n"
<1> DEFINE S == {Len(text), LineBuf - 1} \cup { i \in 1 .. Len(text) : text[i] = "\n" }
<1>1. Len(text) \in Nat \ {0} /\ LineBuf - 1 \in Nat \ {0}
  BY EmptySeq, LineBufAssumption
<1>2. S \in SUBSET Nat /\ S # {} /\ Len(text) \in S /\ LineBuf - 1 \in S
  BY <1>1
<1>3. \A i \in S : i >= 1
  <2>1. \A i \in 1 .. Len(text) : i >= 1
    BY <1>1
  <2>2. Len(text) >= 1
    BY <1>1
  <2>3. LineBuf - 1 >= 1
    BY LineBufAssumption
  <2> QED  BY <2>1, <2>2, <2>3
<1> DEFINE n == FgetsLength(text)
<1>4. n \in S /\ \A i \in S : n <= i
  <2>1. n = Least(S)
    BY DEF FgetsLength
  <2> HIDE DEF S, n
  <2> QED  BY <1>2, <2>1, LeastIs
<1>5. \A i \in 1 .. Len(text) : text[i] = "\n" => i \in S
  OBVIOUS
<1>6. n = Len(text) \/ n = LineBuf - 1 \/ text[n] = "\n"
  BY <1>4
<1> HIDE DEF S, n
<1>7. n \in 1 .. Len(text) /\ n <= LineBuf - 1
  BY <1>1, <1>2, <1>3, <1>4
<1>8. ASSUME NEW i \in 1 .. (n - 1), text[i] = "\n" PROVE FALSE
  <2>1. i \in 1 .. Len(text) /\ ~ (n <= i)
    BY <1>1, <1>7
  <2> QED  BY <1>4, <1>5, <1>8, <2>1
<1> QED  BY <1>6, <1>7, <1>8 DEF n

(* What is left of a text when fgets has taken a buffer. *)
Taken(text) == SubSeq(text, 1, FgetsLength(text))
Rest(text)  == SubSeq(text, FgetsLength(text) + 1, Len(text))

(* A buffer that fgets fills: one character at least, and room for the       *)
(* terminator.                                                               *)
Buffer == { line \in Seq(Char) : Len(line) \in 1 .. (LineBuf - 1) }

(* Each turn of the loop takes a buffer, and less is left. *)
LEMMA TakenAndRest ==
  ASSUME NEW text \in Seq(Char), text # << >>
  PROVE  /\ Taken(text) \in Buffer
         /\ Len(Taken(text)) = FgetsLength(text)
         /\ \A i \in 1 .. FgetsLength(text) : Taken(text)[i] = text[i]
         /\ Rest(text) \in Seq(Char)
         /\ Len(Rest(text)) = Len(text) - FgetsLength(text)
         /\ \A i \in 1 .. Len(text) - FgetsLength(text) :
              Rest(text)[i] = text[FgetsLength(text) + i]
<1> DEFINE n == FgetsLength(text)
           l == Len(text)
<1>1. n \in 1 .. l /\ n <= LineBuf - 1 /\ l \in Nat
  BY FgetsTakes, LenProperties
<1>2. \A i \in 1 .. l : text[i] \in Char
  BY ElementOfSeq
<1> HIDE DEF n, l
<1>3. /\ SubSeq(text, 1, n) \in Seq(Char)
      /\ Len(SubSeq(text, 1, n)) = n
      /\ \A i \in 1 .. n : SubSeq(text, 1, n)[i] = text[i]
  <2>1. \A i \in 1 .. n : text[i] \in Char
    BY <1>1, <1>2
  <2>2. /\ SubSeq(text, 1, n) \in Seq(Char)
        /\ Len(SubSeq(text, 1, n)) = IF 1 <= n THEN n - 1 + 1 ELSE 0
        /\ \A i \in 1 .. n - 1 + 1 : SubSeq(text, 1, n)[i] = text[1 + i - 1]
    BY <1>1, <2>1, SubSeqProperties
  <2> QED  BY <1>1, <2>2
<1>4. /\ SubSeq(text, n + 1, l) \in Seq(Char)
      /\ Len(SubSeq(text, n + 1, l)) = l - n
      /\ \A i \in 1 .. l - n : SubSeq(text, n + 1, l)[i] = text[n + i]
  <2>1. \A i \in (n + 1) .. l : text[i] \in Char
    BY <1>1, <1>2
  <2>2. /\ SubSeq(text, n + 1, l) \in Seq(Char)
        /\ Len(SubSeq(text, n + 1, l)) = IF n + 1 <= l THEN l - (n + 1) + 1 ELSE 0
        /\ \A i \in 1 .. l - (n + 1) + 1 :
             SubSeq(text, n + 1, l)[i] = text[(n + 1) + i - 1]
    BY <1>1, <2>1, SubSeqProperties
  <2>3. \A i \in 1 .. l - n : i \in 1 .. l - (n + 1) + 1 /\ (n + 1) + i - 1 = n + i
    BY <1>1
  <2> QED  BY <1>1, <2>2, <2>3
<1> QED  BY <1>1, <1>3, <1>4 DEF Taken, Rest, Buffer, n, l

(* The functions that gather a sequence while they walk down a domain D: to  *)
(* the end of it by next, which makes things smaller.                        *)
Gathers(f, D, End, first, next) ==
  f = [x \in D |-> IF x \in End THEN << >> ELSE first[x] \o f[next[x]]]

(* What is within a size, and a walk that makes things smaller. *)
Within(D, size, n) == { x \in D : size[x] <= n }

Descends(D, size, End, next) ==
  /\ size \in [D -> Nat] /\ next \in [D -> D]
  /\ \A x \in D : x \in End \/ size[next[x]] < size[x]

(* There is one up to each size, *)
LEMMA GatheringUpTo ==
  ASSUME NEW D, NEW size, NEW End, NEW first, NEW next,
         Descends(D, size, End, next),
         NEW n \in Nat
  PROVE  \E f : Gathers(f, Within(D, size, n), End, first, next)
<1> DEFINE S == { k \in Nat : \E f : Gathers(f, Within(D, size, k), End, first, next) }
           Of(f, x) == IF x \in End THEN << >> ELSE first[x] \o f[next[x]]
<1> USE DEF Within, Descends
<1>1. ASSUME NEW k \in Nat, NEW f,
             \A x \in Within(D, size, k) : x \in End \/ next[x] \in Within(D, size, k),
             \A x \in Within(D, size, k) : x \notin End =>
               f[next[x]] = Of(f, next[x])
      PROVE  k \in S
  <2> DEFINE g == [x \in Within(D, size, k) |-> Of(f, x)]
  <2>1. ASSUME NEW x \in Within(D, size, k) PROVE Of(f, x) = Of(g, x)
    <3>1. CASE x \in End
      BY <3>1
    <3>2. CASE x \notin End
      <4>1. next[x] \in Within(D, size, k) /\ f[next[x]] = Of(f, next[x])
        BY <1>1, <3>2
      <4>2. g[next[x]] = Of(f, next[x])
        BY <4>1
      <4> HIDE DEF g
      <4> QED  BY <3>2, <4>1, <4>2
    <3> QED  BY <3>1, <3>2
  <2>2. g = [x \in Within(D, size, k) |-> Of(g, x)]
    <3> HIDE DEF Of, Within
    <3> QED  BY <2>1, Zenon
  <2>3. Gathers(g, Within(D, size, k), End, first, next)
    <3> HIDE DEF g
    <3> QED  BY <2>2 DEF Gathers
  <2> HIDE DEF g
  <2> QED  BY <2>3
<1>2. 0 \in S
  <2>1. \A x \in Within(D, size, 0) : x \in End
    <3> SUFFICES ASSUME NEW x \in D, size[x] <= 0, x \notin End PROVE FALSE
      OBVIOUS
    <3>1. size[next[x]] \in Nat /\ size[x] \in Nat /\ size[next[x]] < size[x]
      OBVIOUS
    <3> QED  BY <3>1
  <2> HIDE DEF S, Within, Of
  <2> QED  BY <1>1, <2>1
<1>3. ASSUME NEW k \in Nat, k \in S PROVE k + 1 \in S
  <2>1. PICK f : Gathers(f, Within(D, size, k), End, first, next)
    BY <1>3
  <2>2. \A x \in Within(D, size, k) : f[x] = Of(f, x)
    <3> HIDE DEF Within
    <3> QED  BY <2>1, Zenon DEF Gathers
  <2>3. ASSUME NEW x \in Within(D, size, k + 1), x \notin End
        PROVE  next[x] \in Within(D, size, k) /\ next[x] \in Within(D, size, k + 1)
    <3>1. size[next[x]] \in Nat /\ size[x] \in Nat /\ size[next[x]] < size[x]
            /\ next[x] \in D /\ size[x] <= k + 1
      BY <2>3
    <3>2. size[next[x]] <= k /\ size[next[x]] <= k + 1
      BY <3>1
    <3> QED  BY <3>1, <3>2
  <2> HIDE DEF S, Within, Of
  <2>4. k + 1 \in Nat
    OBVIOUS
  <2> QED  BY <1>1, <2>2, <2>3, <2>4
<1> HIDE DEF S
<1>4. n \in S
  BY <1>2, <1>3, Induction
<1> QED  BY <1>4 DEF S

(* Two functions say the same of what is in both their domains. *)
Agree(f, A, g, B) == \A x \in A : x \in B => f[x] = g[x]

(* two of them agree, *)
LEMMA GatheringsAgree ==
  ASSUME NEW D, NEW size, NEW End, NEW first, NEW next,
         Descends(D, size, End, next),
         NEW m \in Nat, NEW n \in Nat, NEW f, NEW g,
         Gathers(f, Within(D, size, m), End, first, next),
         Gathers(g, Within(D, size, n), End, first, next)
  PROVE  Agree(f, Within(D, size, m), g, Within(D, size, n))
<1> DEFINE Of(h, x) == IF x \in End THEN << >> ELSE first[x] \o h[next[x]]
           S == { k \in Nat : \A x \in Within(D, size, k) :
                    x \in Within(D, size, m) /\ x \in Within(D, size, n) => f[x] = g[x] }
<1> USE DEF Within, Descends
<1>1. /\ \A x \in Within(D, size, m) : f[x] = Of(f, x)
      /\ \A x \in Within(D, size, n) : g[x] = Of(g, x)
  <2>1. /\ f = [x \in Within(D, size, m) |-> Of(f, x)]
        /\ g = [x \in Within(D, size, n) |-> Of(g, x)]
    BY DEF Gathers
  <2> HIDE DEF Within, Of
  <2> QED  BY <2>1, Zenon
<1>2. ASSUME NEW x \in D, x \notin End
      PROVE  /\ next[x] \in D /\ size[x] \in Nat /\ size[next[x]] \in Nat
             /\ size[next[x]] < size[x]
  BY <1>2
<1>3. 0 \in S
  <2> SUFFICES ASSUME NEW x \in Within(D, size, 0),
                      x \in Within(D, size, m), x \in Within(D, size, n)
               PROVE  f[x] = g[x]
    OBVIOUS
  <2>1. x \in End
    <3> SUFFICES ASSUME x \notin End PROVE FALSE
      OBVIOUS
    <3>1. x \in D /\ size[x] <= 0
      OBVIOUS
    <3> QED  BY <1>2, <3>1
  <2> HIDE DEF Within
  <2> QED  BY <1>1, <2>1
<1>4. ASSUME NEW k \in Nat, k \in S PROVE k + 1 \in S
  <2> SUFFICES ASSUME NEW x \in Within(D, size, k + 1),
                      x \in Within(D, size, m), x \in Within(D, size, n)
               PROVE  f[x] = g[x]
    OBVIOUS
  <2>1. CASE x \in End
    <3> HIDE DEF Within
    <3> QED  BY <1>1, <2>1
  <2>2. CASE x \notin End
    <3>1. x \in D /\ size[x] <= k + 1 /\ size[x] <= m /\ size[x] <= n
      OBVIOUS
    <3>2. /\ next[x] \in Within(D, size, k)
          /\ next[x] \in Within(D, size, m) /\ next[x] \in Within(D, size, n)
      BY <1>2, <2>2, <3>1
    <3>3. f[next[x]] = g[next[x]]
      BY <1>4, <3>2
    <3> HIDE DEF Within
    <3> QED  BY <1>1, <2>2, <3>3
  <2> QED  BY <2>1, <2>2
<1> HIDE DEF S
<1>5. m \in S
  BY <1>3, <1>4, Induction
<1> QED  BY <1>5 DEF S, Agree

(* and they make one for all of D. *)
LEMMA Gathering ==
  ASSUME NEW D, NEW size, NEW End, NEW first, NEW next,
         Descends(D, size, End, next)
  PROVE  \E f : Gathers(f, D, End, first, next)
<1> DEFINE F(k) == CHOOSE f : Gathers(f, Within(D, size, k), End, first, next)
           Of(h, x) == IF x \in End THEN << >> ELSE first[x] \o h[next[x]]
           g == [x \in D |-> F(size[x])[x]]
<1>1. \A k \in Nat : Gathers(F(k), Within(D, size, k), End, first, next)
  <2> SUFFICES ASSUME NEW k \in Nat
               PROVE  Gathers(F(k), Within(D, size, k), End, first, next)
    OBVIOUS
  <2>1. \E f : Gathers(f, Within(D, size, k), End, first, next)
    BY GatheringUpTo, Zenon
  <2> QED  BY <2>1, Zenon
<1> HIDE DEF F
<1>2. ASSUME NEW k \in Nat, NEW x \in Within(D, size, k) PROVE F(k)[x] = Of(F(k), x)
  <2>1. F(k) = [y \in Within(D, size, k) |-> Of(F(k), y)]
    BY <1>1 DEF Gathers
  <2> HIDE DEF Of
  <2> QED  BY <2>1, Zenon
<1>3. ASSUME NEW x \in D PROVE g[x] = Of(g, x)
  <2>1. size[x] \in Nat /\ x \in Within(D, size, size[x]) /\ g[x] = F(size[x])[x]
    BY DEF Within, Descends
  <2>2. g[x] = Of(F(size[x]), x)
    <3> HIDE DEF Of, g
    <3> QED  BY <1>2, <2>1
  <2>3. CASE x \in End
    BY <2>2, <2>3
  <2>4. CASE x \notin End
    <3> DEFINE y == next[x]
    <3>1. y \in D /\ size[y] \in Nat /\ size[y] <= size[x] /\ size[y] <= size[y]
      BY <2>4 DEF Descends
    <3>2. g[y] = F(size[y])[y]
      BY <3>1
    <3>3. F(size[y])[y] = F(size[x])[y]
      <4>1. /\ Gathers(F(size[y]), Within(D, size, size[y]), End, first, next)
            /\ Gathers(F(size[x]), Within(D, size, size[x]), End, first, next)
        BY <1>1, <2>1, <3>1
      <4>2. y \in Within(D, size, size[y]) /\ y \in Within(D, size, size[x])
        BY <3>1 DEF Within
      <4> HIDE DEF y
      <4> DEFINE f == F(size[y])
                 h == F(size[x])
                 m == size[y]
                 n == size[x]
      <4>3. /\ Gathers(f, Within(D, size, m), End, first, next)
            /\ Gathers(h, Within(D, size, n), End, first, next)
            /\ m \in Nat /\ n \in Nat
        BY <2>1, <3>1, <4>1
      <4> HIDE DEF f, h, m, n
      <4>4. Agree(f, Within(D, size, m), h, Within(D, size, n))
        BY <4>3, GatheringsAgree, Zenon
      <4> QED  BY <4>2, <4>4 DEF f, h, m, n, Agree
    <3> HIDE DEF g
    <3> QED  BY <2>2, <2>4, <3>2, <3>3
  <2> QED  BY <2>3, <2>4
<1>4. g = [x \in D |-> Of(g, x)]
  <2> HIDE DEF Of
  <2> QED  BY <1>3, Zenon
<1>5. Gathers(g, D, End, first, next)
  <2> HIDE DEF g
  <2> QED  BY <1>4 DEF Gathers
<1> HIDE DEF g
<1> QED  BY <1>5

(* One step of the recursion. *)
BuffersOf(f, text) ==
  IF text = << >> THEN << >> ELSE << Taken(text) >> \o f[Rest(text)]

(* Buffers is what its definition says. *)
LEMMA BuffersDefined ==
  Buffers = [text \in Seq(Char) |-> BuffersOf(Buffers, text)]
<1> DEFINE D     == Seq(Char)
           size  == [text \in D |-> Len(text)]
           first == [text \in D |-> << Taken(text) >>]
           next  == [text \in D |-> IF text = << >> THEN << >> ELSE Rest(text)]
<1>1. << >> \in D
  BY EmptySeq
<1>2. size \in [D -> Nat]
  BY LenProperties
<1>3. \A text \in D : text # << >> =>
        Rest(text) \in D /\ Len(Rest(text)) < Len(text)
  <2> SUFFICES ASSUME NEW text \in D, text # << >>
               PROVE  Rest(text) \in D /\ Len(Rest(text)) < Len(text)
    OBVIOUS
  <2>1. /\ Rest(text) \in D
        /\ Len(Rest(text)) = Len(text) - FgetsLength(text)
        /\ FgetsLength(text) \in 1 .. Len(text)
    BY FgetsTakes, TakenAndRest
  <2>2. Len(text) \in Nat
    BY LenProperties
  <2> QED  BY <2>1, <2>2
<1>4. next \in [D -> D]
  BY <1>1, <1>3
<1>5. \A x \in D : x \in {<< >>} \/ size[next[x]] < size[x]
  BY <1>3
<1>6. PICK f : Gathers(f, D, {<< >>}, first, next)
  <2>1. Descends(D, size, {<< >>}, next)
    <3> HIDE DEF D, size, next
    <3> QED  BY <1>2, <1>4, <1>5 DEF Descends
  <2> HIDE DEF D, size, first, next
  <2> QED  BY <2>1, Gathering, Zenon
<1>7. \A x \in D : (IF x \in {<< >>} THEN << >> ELSE first[x] \o f[next[x]])
                   = BuffersOf(f, x)
  BY DEF BuffersOf
<1>8. f = [text \in Seq(Char) |-> BuffersOf(f, text)]
  <2> HIDE DEF first, next
  <2> QED  BY <1>6, <1>7, Zenon DEF Gathers
<1>9. Buffers = CHOOSE h : h = [text \in Seq(Char) |-> BuffersOf(h, text)]
  BY DEF Buffers, BuffersOf, Taken, Rest
<1> QED  BY <1>8, <1>9

(* The texts of at most this length. *)
UpTo(n) == { text \in Seq(Char) : Len(text) <= n }

(* The rest of a text is among the shorter ones. *)
LEMMA RestIsShorter ==
  ASSUME NEW n \in Nat, NEW text \in UpTo(n), text # << >>
  PROVE  n - 1 \in Nat /\ Rest(text) \in UpTo(n - 1) /\ Rest(text) \in UpTo(n)
<1>1. text \in Seq(Char) /\ Len(text) <= n
  BY DEF UpTo
<1>2. /\ Rest(text) \in Seq(Char)
      /\ Len(Rest(text)) = Len(text) - FgetsLength(text)
      /\ FgetsLength(text) \in 1 .. Len(text)
  BY <1>1, FgetsTakes, TakenAndRest
<1>3. Len(text) \in Nat
  BY <1>1, LenProperties
<1>4. Len(Rest(text)) <= n - 1 /\ Len(Rest(text)) <= n /\ n - 1 \in Nat
  BY <1>1, <1>2, <1>3
<1> QED  BY <1>2, <1>4 DEF UpTo

(* The buffers of a text are those of its beginning and of the rest. *)
LEMMA BuffersOfText ==
  ASSUME NEW text \in Seq(Char)
  PROVE  Buffers[text] = BuffersOf(Buffers, text)
BY BuffersDefined, Zenon

(* No buffer is empty, and each leaves room for a terminator. *)
LEMMA BuffersFit ==
  ASSUME NEW text \in Seq(Char)
  PROVE  Buffers[text] \in Seq(Buffer)
<1> DEFINE S == { n \in Nat : \A t \in UpTo(n) : Buffers[t] \in Seq(Buffer) }
<1>1. << >> \in Seq(Buffer)
  BY EmptySeq
<1>2. 0 \in S
  <2> SUFFICES ASSUME NEW t \in UpTo(0) PROVE Buffers[t] \in Seq(Buffer)
    OBVIOUS
  <2>1. t \in Seq(Char) /\ Len(t) <= 0
    BY DEF UpTo
  <2>2. t = << >>
    BY <2>1, EmptySeq
  <2> QED  BY <1>1, <2>1, <2>2, BuffersOfText DEF BuffersOf
<1>3. ASSUME NEW n \in Nat, n \in S PROVE n + 1 \in S
  <2> SUFFICES ASSUME NEW t \in UpTo(n + 1) PROVE Buffers[t] \in Seq(Buffer)
    OBVIOUS
  <2>1. t \in Seq(Char)
    BY DEF UpTo
  <2>2. CASE t = << >>
    BY <1>1, <2>1, <2>2, BuffersOfText DEF BuffersOf
  <2>3. CASE t # << >>
    <3>1. n + 1 \in Nat /\ (n + 1) - 1 = n
      OBVIOUS
    <3>2. Rest(t) \in UpTo((n + 1) - 1)
      BY <2>3, <3>1, RestIsShorter
    <3>3. Buffers[Rest(t)] \in Seq(Buffer)
      BY <1>3, <3>1, <3>2
    <3>4. << Taken(t) >> \in Seq(Buffer)
      BY <2>1, <2>3, TakenAndRest, SingleSeq
    <3>5. Buffers[t] = << Taken(t) >> \o Buffers[Rest(t)]
      BY <2>1, <2>3, BuffersOfText DEF BuffersOf
    <3> QED  BY <3>3, <3>4, <3>5, ConcatProperties
  <2> QED  BY <2>2, <2>3
<1> HIDE DEF S
<1>4. Len(text) \in S
  BY <1>2, <1>3, Induction, LenProperties
<1>5. text \in UpTo(Len(text))
  BY LenProperties DEF UpTo
<1> QED  BY <1>4, <1>5 DEF S

(* The first equals sign of a line that has one. *)
LEMMA FirstEquals ==
  ASSUME NEW line \in Buffer, Equals(line) # {}
  PROVE  /\ Least(Equals(line)) \in 1 .. Len(line)
         /\ line[Least(Equals(line))] = "="
         /\ \A i \in 1 .. (Least(Equals(line)) - 1) : line[i] # "="
<1>1. Len(line) \in Nat
  BY DEF Buffer
<1>2. Equals(line) \in SUBSET Nat
  BY <1>1 DEF Equals
<1> DEFINE eq == Least(Equals(line))
<1>3. eq \in Equals(line) /\ \A i \in Equals(line) : eq <= i
  BY <1>2, LeastIs
<1> HIDE DEF eq
<1>4. eq \in 1 .. Len(line) /\ line[eq] = "="
  BY <1>3 DEF Equals
<1>5. ASSUME NEW i \in 1 .. (eq - 1) PROVE line[i] # "="
  <2>1. i \in 1 .. Len(line) /\ ~ (eq <= i)
    BY <1>1, <1>4
  <2> QED  BY <1>3, <2>1 DEF Equals
<1> QED  BY <1>4, <1>5 DEF eq

(* The terminator of a value stays inside its buffer. *)
LEMMA ConfigStep ==
  ASSUME ReadConfig
  PROVE  TerminatorInside'
<1>1. PICK text \in Texts :
        /\ call' = [of |-> "rdk_logger_parse_config", in |-> text]
        /\ result' = [settings |-> Settings[Buffers[text]],
                      ends |-> { ValueEnd(Buffers[text][i])
                                   : i \in DOMAIN Buffers[text] }]
  BY DEF ReadConfig, Called
<1>2. text \in Seq(Char)
  BY InputAssumption
<1> SUFFICES ASSUME ~ BeginsFull(text), NEW i \in DOMAIN Buffers[text]
             PROVE  ValueEnd(Buffers[text][i]) < LineBuf
  BY <1>1 DEF TerminatorInside
<1> DEFINE line == Buffers[text][i]
<1>3. line \in Buffer
  <2>1. Buffers[text] \in Seq(Buffer)
    BY <1>2, BuffersFit
  <2>2. i \in 1 .. Len(Buffers[text])
    BY <2>1, LenProperties
  <2> QED  BY <2>1, <2>2, ElementOfSeq
<1>4. ~ (line[1] = "=" /\ Len(line) = LineBuf - 1)
  BY DEF BeginsFull
<1> HIDE DEF line
<1>5. Len(line) \in 1 .. (LineBuf - 1) /\ LineBuf \in Nat /\ LineBuf > 1
  BY <1>3, LineBufAssumption DEF Buffer
<1>6. CASE line[1] = "#" \/ Equals(line) = {}
  BY <1>5, <1>6 DEF ValueEnd, line
<1>7. CASE ~ (line[1] = "#" \/ Equals(line) = {})
  <2> DEFINE eq == Least(Equals(line))
  <2>1. eq \in 1 .. Len(line) /\ line[eq] = "="
    BY <1>3, <1>7, FirstEquals
  <2>2. ValueEnd(line) = Len(line) - (eq - 1) + 1
    BY <1>7 DEF ValueEnd
  <2> HIDE DEF eq
  <2>3. eq = 1 => Len(line) < LineBuf - 1
    BY <1>4, <1>5, <2>1
  <2>4. ValueEnd(line) < LineBuf
    BY <1>5, <2>1, <2>2, <2>3
  <2> QED  BY <2>4 DEF line
<1> QED  BY <1>6, <1>7

(* The terminator of a value stays inside its buffer, for every line that    *)
(* does not begin with "=" and fill the buffer.                              *)
THEOREM TerminatorInsideHolds == Spec => []TerminatorInside
<1>1. Init => TerminatorInside
  BY DEF Init, Idle, TerminatorInside
<1>2. TerminatorInside /\ [Next]_vars => TerminatorInside'
  <2> SUFFICES ASSUME TerminatorInside, [Next]_vars PROVE TerminatorInside'
    OBVIOUS
  <2>1. CASE ReadConfig
    BY <2>1, ConfigStep
  <2>2. CASE UNCHANGED << call, result >>
    BY <2>2 DEF TerminatorInside
  <2>3. CASE call'.of # "rdk_logger_parse_config"
    BY <2>3 DEF TerminatorInside
  <2> QED  BY <2>1, <2>2, <2>3, Steps, CallNames
<1> QED  BY <1>1, <1>2, PTL DEF Spec

-----------------------------------------------------------------------------
(* The settings of a text.                                                   *)

(* What a line says, and what a list of them says. *)
Entry == [name : Seq(Char), value : Seq(Char)]

SettingsOf(f, buffers) ==
  IF buffers = << >> THEN << >> ELSE ParseLine(Head(buffers)) \o f[Tail(buffers)]

(* Settings is what its definition says. *)
LEMMA SettingsDefined ==
  Settings = [buffers \in Seq(Seq(Char)) |-> SettingsOf(Settings, buffers)]
<1> DEFINE D     == Seq(Seq(Char))
           size  == [buffers \in D |-> Len(buffers)]
           first == [buffers \in D |-> ParseLine(Head(buffers))]
           next  == [buffers \in D |-> IF buffers = << >> THEN << >> ELSE Tail(buffers)]
<1>1. << >> \in D
  BY EmptySeq
<1>2. size \in [D -> Nat]
  BY LenProperties
<1>3. \A buffers \in D : buffers # << >> =>
        Tail(buffers) \in D /\ Len(Tail(buffers)) < Len(buffers)
  <2> SUFFICES ASSUME NEW buffers \in D, buffers # << >>
               PROVE  Tail(buffers) \in D /\ Len(Tail(buffers)) < Len(buffers)
    OBVIOUS
  <2>1. Tail(buffers) \in D /\ Len(Tail(buffers)) = Len(buffers) - 1
    BY HeadTailProperties
  <2>2. Len(buffers) \in Nat
    BY LenProperties
  <2> QED  BY <2>1, <2>2
<1>4. next \in [D -> D]
  BY <1>1, <1>3
<1>5. \A x \in D : x \in {<< >>} \/ size[next[x]] < size[x]
  BY <1>3
<1>6. PICK f : Gathers(f, D, {<< >>}, first, next)
  <2>1. Descends(D, size, {<< >>}, next)
    <3> HIDE DEF D, size, next
    <3> QED  BY <1>2, <1>4, <1>5 DEF Descends
  <2> HIDE DEF D, size, first, next
  <2> QED  BY <2>1, Gathering, Zenon
<1>7. \A x \in D : (IF x \in {<< >>} THEN << >> ELSE first[x] \o f[next[x]])
                   = SettingsOf(f, x)
  BY DEF SettingsOf
<1>8. f = [buffers \in Seq(Seq(Char)) |-> SettingsOf(f, buffers)]
  <2> HIDE DEF first, next
  <2> QED  BY <1>6, <1>7, Zenon DEF Gathers
<1>9. Settings = CHOOSE h : h = [buffers \in Seq(Seq(Char)) |-> SettingsOf(h, buffers)]
  BY DEF Settings, SettingsOf
<1> QED  BY <1>8, <1>9

(* The settings of the buffers of a text, one buffer at a time. *)
LEMMA SettingsOfText ==
  ASSUME NEW text \in Seq(Char)
  PROVE  Settings[Buffers[text]] =
           IF text = << >> THEN << >>
           ELSE ParseLine(Taken(text)) \o Settings[Buffers[Rest(text)]]
<1>1. \A t \in Seq(Char) : Buffers[t] \in Seq(Seq(Char))
  <2>1. Buffer \subseteq Seq(Char)
    BY DEF Buffer
  <2> QED  BY <2>1, BuffersFit, SeqMonotonic
<1>2. Settings[Buffers[text]] = SettingsOf(Settings, Buffers[text])
  BY <1>1, SettingsDefined, Zenon
<1>3. CASE text = << >>
  <2>1. Buffers[text] = << >>
    BY <1>3, BuffersOfText DEF BuffersOf
  <2> QED  BY <1>2, <1>3, <2>1 DEF SettingsOf
<1>4. CASE text # << >>
  <2> DEFINE b == Taken(text)
             r == Buffers[Rest(text)]
  <2>1. b \in Seq(Char) /\ Rest(text) \in Seq(Char)
    BY <1>4, TakenAndRest DEF Buffer
  <2>2. r \in Seq(Seq(Char))
    BY <1>1, <2>1
  <2>3. Buffers[text] = << b >> \o r
    BY <1>4, BuffersOfText DEF BuffersOf
  <2> HIDE DEF b, r
  <2>4. << b >> \o r # << >> /\ Head(<< b >> \o r) = b /\ Tail(<< b >> \o r) = r
    <3>1. << b >> \in Seq(Seq(Char)) /\ Len(<< b >>) = 1 /\ << b >>[1] = b
      BY <2>1, SingleSeq
    <3> DEFINE s == << b >>
               c == s \o r
    <3> HIDE DEF s
    <3>2. /\ c \in Seq(Seq(Char)) /\ Len(c) = 1 + Len(r)
          /\ \A i \in 1 .. 1 + Len(r) : c[i] = IF i <= 1 THEN b ELSE r[i - 1]
      <4>1. /\ c \in Seq(Seq(Char)) /\ Len(c) = Len(s) + Len(r)
            /\ \A i \in 1 .. Len(s) + Len(r) : c[i] =
                 IF i <= Len(s) THEN s[i] ELSE r[i - Len(s)]
        BY <2>2, <3>1, ConcatProperties DEF s
      <4>2. Len(s) = 1 /\ s[1] = b /\ Len(r) \in Nat
        BY <2>2, <3>1, LenProperties DEF s
      <4> HIDE DEF c
      <4>3. \A i \in 1 .. 1 + Len(r) : i <= 1 => i = 1
        BY <4>2
      <4> QED  BY <4>1, <4>2, <4>3
    <3>3. Len(r) \in Nat
      BY <2>2, LenProperties
    <3> HIDE DEF c
    <3>4. c # << >>
      BY <3>2, <3>3, EmptySeq
    <3>5. Head(c) = b
      <4>1. Head(c) = c[1]
        BY <3>2, <3>4
      <4> QED  BY <3>2, <3>3, <4>1
    <3>6. Tail(c) = r
      <4>1. /\ Tail(c) \in Seq(Seq(Char)) /\ Len(Tail(c)) = Len(c) - 1
            /\ \A i \in 1 .. Len(Tail(c)) : Tail(c)[i] = c[i + 1]
        BY <3>2, <3>4, HeadTailProperties
      <4>2. Len(Tail(c)) = Len(r)
        BY <3>2, <3>3, <4>1
      <4>3. ASSUME NEW i \in 1 .. Len(Tail(c)) PROVE Tail(c)[i] = r[i]
        <5>1. i + 1 \in 1 .. 1 + Len(r) /\ ~ (i + 1 <= 1) /\ (i + 1) - 1 = i
          BY <3>3, <4>2
        <5>2. Tail(c)[i] = c[i + 1]
          BY <4>1
        <5> QED  BY <3>2, <5>1, <5>2
      <4> QED  BY <2>2, <4>1, <4>2, <4>3, SeqEqual
    <3> QED  BY <3>4, <3>5, <3>6 DEF c, s
  <2>5. Settings[Buffers[text]] = ParseLine(b) \o Settings[r]
    BY <1>2, <2>3, <2>4, Zenon DEF SettingsOf
  <2> QED  BY <1>4, <2>5 DEF b, r
<1> QED  BY <1>3, <1>4

(* The greatest and the least of a set, when known. *)
LEMMA GreatestIs ==
  ASSUME NEW S \in SUBSET Int, NEW m \in S, \A i \in S : i <= m
  PROVE  Greatest(S) = m
<1>1. Greatest(S) \in S /\ \A j \in S : Greatest(S) >= j
  <2>1. \E i \in S : \A j \in S : i >= j
    <3>1. \A j \in S : m >= j
      OBVIOUS
    <3> QED  BY <3>1
  <2> QED  BY <2>1 DEF Greatest
<1> DEFINE g == Greatest(S)
<1> HIDE DEF g
<1>2. g \in Int /\ m \in Int /\ g >= m /\ g <= m
  BY <1>1 DEF g
<1> QED  BY <1>2 DEF g

(* Likewise. *)
LEMMA LeastIsThis ==
  ASSUME NEW S \in SUBSET Int, NEW m \in S, \A i \in S : m <= i
  PROVE  Least(S) = m
<1>1. Least(S) \in S /\ \A j \in S : Least(S) <= j
  BY DEF Least
<1> DEFINE l == Least(S)
<1> HIDE DEF l
<1>2. l \in Int /\ m \in Int /\ l <= m /\ m <= l
  BY <1>1 DEF l
<1> QED  BY <1>2 DEF l

(* A part of a text. *)
LEMMA PartOf ==
  ASSUME NEW text \in Seq(Char), NEW i \in 1 .. (Len(text) + 1),
         NEW j \in (i - 1) .. Len(text)
  PROVE  /\ SubSeq(text, i, j) \in Seq(Char)
         /\ Len(SubSeq(text, i, j)) = j - i + 1
         /\ \A n \in 1 .. (j - i + 1) : SubSeq(text, i, j)[n] = text[i + n - 1]
<1>1. Len(text) \in Nat /\ \A n \in 1 .. Len(text) : text[n] \in Char
  BY LenProperties, ElementOfSeq
<1>2. \A n \in i .. j : text[n] \in Char
  BY <1>1
<1>3. /\ SubSeq(text, i, j) \in Seq(Char)
      /\ Len(SubSeq(text, i, j)) = IF i <= j THEN j - i + 1 ELSE 0
      /\ \A n \in 1 .. j - i + 1 : SubSeq(text, i, j)[n] = text[i + n - 1]
  BY <1>1, <1>2, SubSeqProperties
<1>4. (IF i <= j THEN j - i + 1 ELSE 0) = j - i + 1
  BY <1>1
<1> QED  BY <1>3, <1>4

(* trim takes the blanks off both ends, and nothing else. *)
LEMMA TrimIsBare ==
  ASSUME NEW text \in Seq(Char), NEW i \in 1 .. (Len(text) + 1),
         NEW j \in (i - 1) .. Len(text)
  PROVE  /\ Trim(SubSeq(text, i, j)) \in Seq(Char)
         /\ Bare(text, i, j, Trim(SubSeq(text, i, j)))
<1> DEFINE part  == SubSeq(text, i, j)
           len   == j - i + 1
           solid == { n \in 1 .. Len(part) : part[n] \notin Blank }
<1>1. Len(text) \in Nat /\ i \in Nat /\ j \in Nat /\ len \in Nat
  BY LenProperties
<1>2. /\ part \in Seq(Char) /\ Len(part) = len
      /\ \A n \in 1 .. len : part[n] = text[i + n - 1]
  BY PartOf
<1>3. \A n \in i .. j : n - i + 1 \in 1 .. len /\ part[n - i + 1] = text[n]
  <2> SUFFICES ASSUME NEW n \in i .. j
               PROVE  n - i + 1 \in 1 .. len /\ part[n - i + 1] = text[n]
    OBVIOUS
  <2>1. n - i + 1 \in 1 .. len /\ i + (n - i + 1) - 1 = n
    BY <1>1
  <2> HIDE DEF part, len
  <2> QED  BY <1>2, <2>1
<1> HIDE DEF part
<1>4. CASE solid = {}
  <2>1. Trim(part) = << >>
    BY <1>4 DEF Trim
  <2>2. << >> \in Seq(Char) /\ << >> = SubSeq(text, i, i - 1)
    BY <1>1, EmptySeq, SubSeqEmpty
  <2>3. ASSUME NEW n \in i .. j PROVE text[n] \in Blank
    <3>1. n - i + 1 \notin solid
      BY <1>4
    <3> QED  BY <1>2, <1>3, <3>1
  <2>4. i \in i .. (j + 1) /\ i - 1 \in (i - 1) .. j
    BY <1>1
  <2>5. Bare(text, i, j, << >>)
    BY <2>2, <2>3, <2>4 DEF Bare
  <2> QED  BY <2>1, <2>2, <2>5 DEF part
<1>5. CASE solid # {}
  <2> DEFINE a == Least(solid)
             b == Greatest(solid)
             k == i + a - 1
             l == i + b - 1
  <2>1. solid \in SUBSET Nat /\ solid \in SUBSET Int /\ \A n \in solid : n <= len
    BY <1>1, <1>2
  <2>2. a \in solid /\ \A n \in solid : a <= n
    <3> HIDE DEF solid
    <3> QED  BY <1>5, <2>1, LeastIs
  <2>3. b \in solid /\ \A n \in solid : b >= n
    <3>1. \E m \in solid : \A n \in solid : n <= m
      <4>1. len \in Int
        BY <1>1
      <4> HIDE DEF solid, len
      <4> QED  BY <1>5, <2>1, <4>1, GreatestElement
    <3>2. \E m \in solid : \A n \in solid : m >= n
      BY <2>1, <3>1
    <3> HIDE DEF solid
    <3> QED  BY <3>2 DEF Greatest
  <2>4. Trim(part) = SubSeq(part, a, b)
    BY <1>5 DEF Trim
  <2> HIDE DEF a, b
  <2>5. /\ a \in 1 .. len /\ b \in 1 .. len /\ a <= b
        /\ part[a] \notin Blank /\ part[b] \notin Blank
    BY <1>2, <2>2, <2>3
  <2>6. /\ k \in i .. j /\ l \in i .. j /\ k <= l
        /\ k - i + 1 = a /\ l - i + 1 = b
    BY <1>1, <2>5
  <2>7. text[k] \notin Blank /\ text[l] \notin Blank
    <3>1. part[k - i + 1] = text[k] /\ part[l - i + 1] = text[l]
      <4> HIDE DEF k, l
      <4> QED  BY <1>3, <2>6
    <3> HIDE DEF k, l
    <3> QED  BY <2>5, <2>6, <3>1
  <2>8. /\ SubSeq(text, k, l) \in Seq(Char)
        /\ Len(SubSeq(text, k, l)) = l - k + 1
        /\ \A n \in 1 .. (l - k + 1) : SubSeq(text, k, l)[n] = text[k + n - 1]
    <3>1. k \in 1 .. (Len(text) + 1) /\ l \in (k - 1) .. Len(text)
      BY <1>1, <2>6
    <3> HIDE DEF k, l
    <3> QED  BY <3>1, PartOf
  <2>9. /\ SubSeq(part, a, b) \in Seq(Char)
        /\ Len(SubSeq(part, a, b)) = b - a + 1
        /\ \A n \in 1 .. (b - a + 1) : SubSeq(part, a, b)[n] = part[a + n - 1]
    <3>1. a \in 1 .. (Len(part) + 1) /\ b \in (a - 1) .. Len(part)
      BY <1>1, <1>2, <2>5
    <3> QED  BY <1>2, <3>1, PartOf
  <2>10. b - a + 1 = l - k + 1
    BY <1>1, <2>5
  <2>11. ASSUME NEW n \in 1 .. (b - a + 1)
         PROVE  SubSeq(part, a, b)[n] = SubSeq(text, k, l)[n]
    <3>1. a + n - 1 \in 1 .. len /\ i + (a + n - 1) - 1 = k + n - 1
      BY <1>1, <2>5
    <3>2. part[a + n - 1] = text[i + (a + n - 1) - 1]
      BY <1>2, <3>1
    <3>3. n \in 1 .. (l - k + 1)
      BY <2>10
    <3> HIDE DEF k, l
    <3> QED  BY <2>8, <2>9, <3>1, <3>2, <3>3
  <2>12. SubSeq(part, a, b) = SubSeq(text, k, l)
    <3> HIDE DEF k, l
    <3> QED  BY <2>8, <2>9, <2>10, <2>11, SeqEqual
  <2>13. SubSeq(text, k, l) # << >>
    <3> DEFINE s == SubSeq(text, k, l)
    <3>1. Len(s) > 0
      BY <2>6, <2>8
    <3>2. Len(<< >>) = 0
      OBVIOUS
    <3> HIDE DEF s
    <3>3. s # << >>
      BY <3>1, <3>2
    <3> QED  BY <3>3 DEF s
  <2>14. ASSUME NEW n \in i .. j, n < k \/ n > l
         PROVE  text[n] \in Blank
    <3>1. n - i + 1 \in 1 .. len /\ part[n - i + 1] = text[n]
      BY <1>3
    <3>2. n - i + 1 < a \/ n - i + 1 > b
      BY <1>1, <2>5, <2>14
    <3>3. n - i + 1 \notin solid
      <4> DEFINE x == n - i + 1
      <4>1. x \in Int /\ (x < a \/ x > b)
        BY <1>1, <3>2
      <4>2. a \in Int /\ b \in Int
        BY <2>5
      <4> HIDE DEF x, solid
      <4>3. x \notin solid
        BY <2>2, <2>3, <4>1, <4>2
      <4> QED  BY <4>3 DEF x
    <3> QED  BY <1>2, <3>1, <3>3
  <2>15. k \in i .. (j + 1) /\ l \in (i - 1) .. j
    BY <1>1, <2>6
  <2> HIDE DEF k, l
  <2>16. Bare(text, i, j, SubSeq(text, k, l))
    BY <2>7, <2>13, <2>14, <2>15 DEF Bare
  <2> QED  BY <2>4, <2>8, <2>12, <2>16 DEF part
<1> QED  BY <1>4, <1>5

(* What is left of a text after k characters, and the buffer line of n       *)
(* characters that fgets fills there.                                        *)
Suffix(text, k) == SubSeq(text, k + 1, Len(text))

FilledAt(text, k, n, line) ==
  /\ k \in Nat /\ n \in Nat \ {0} /\ k + n <= Len(text) /\ n <= LineBuf - 1
  /\ line \in Buffer /\ Len(line) = n
  /\ \A i \in 1 .. n : line[i] = text[k + i]
  /\ \A j \in (k + 1) .. (k + n - 1) : text[j] # "\n"
  /\ k + n = Len(text) \/ n = LineBuf - 1 \/ text[k + n] = "\n"

(* The loop fills a buffer at k and goes on behind it. *)
LEMMA Filled ==
  ASSUME NEW text \in Seq(Char), NEW k \in Nat, k < Len(text)
  PROVE  /\ Suffix(text, k) \in Seq(Char) /\ Suffix(text, k) # << >>
         /\ \E n \in Nat : /\ FilledAt(text, k, n, Taken(Suffix(text, k)))
                           /\ Rest(Suffix(text, k)) = Suffix(text, k + n)
<1> DEFINE s == Suffix(text, k)
           n == FgetsLength(s)
           l == Len(text)
<1>1. l \in Nat
  BY LenProperties
<1>2. s \in Seq(Char) /\ Len(s) = l - k /\ \A i \in 1 .. (l - k) : s[i] = text[k + i]
  <2>1. k + 1 \in 1 .. (l + 1) /\ l \in ((k + 1) - 1) .. l /\ l - (k + 1) + 1 = l - k
    BY <1>1
  <2>2. \A i \in 1 .. (l - k) : (k + 1) + i - 1 = k + i
    BY <1>1
  <2>3. /\ s \in Seq(Char) /\ Len(s) = l - (k + 1) + 1
        /\ \A i \in 1 .. (l - (k + 1) + 1) : s[i] = text[(k + 1) + i - 1]
    BY <2>1, PartOf DEF Suffix
  <2> HIDE DEF s, l
  <2> QED  BY <2>1, <2>2, <2>3
<1>3. s # << >>
  <2>1. Len(s) > 0 /\ Len(<< >>) = 0
    BY <1>1, <1>2
  <2> HIDE DEF s
  <2> QED  BY <2>1
<1> HIDE DEF s
<1>4. /\ n \in 1 .. Len(s) /\ n <= LineBuf - 1
      /\ \A i \in 1 .. (n - 1) : s[i] # "\n"
      /\ n = Len(s) \/ n = LineBuf - 1 \/ s[n] = "\n"
  BY <1>2, <1>3, FgetsTakes
<1>5. /\ Taken(s) \in Buffer /\ Len(Taken(s)) = n
      /\ \A i \in 1 .. n : Taken(s)[i] = s[i]
      /\ Rest(s) \in Seq(Char) /\ Len(Rest(s)) = Len(s) - n
      /\ \A i \in 1 .. Len(s) - n : Rest(s)[i] = s[n + i]
  BY <1>2, <1>3, TakenAndRest
<1> HIDE DEF n, l
<1>6. n \in Nat \ {0} /\ k + n <= l
  BY <1>1, <1>2, <1>4
<1>7. FilledAt(text, k, n, Taken(s))
  <2>1. ASSUME NEW i \in 1 .. n PROVE Taken(s)[i] = text[k + i]
    <3>1. i \in 1 .. (l - k)
      BY <1>1, <1>2, <1>4
    <3> QED  BY <1>2, <1>5, <3>1
  <2>2. ASSUME NEW j \in (k + 1) .. (k + n - 1) PROVE text[j] # "\n"
    <3>1. j - k \in 1 .. (n - 1) /\ j - k \in 1 .. (l - k) /\ k + (j - k) = j
      BY <1>1, <1>6
    <3>2. s[j - k] # "\n" /\ s[j - k] = text[k + (j - k)]
      BY <1>2, <1>4, <3>1
    <3> QED  BY <3>1, <3>2
  <2>3. k + n = l \/ n = LineBuf - 1 \/ text[k + n] = "\n"
    <3>1. s[n] = text[k + n]
      BY <1>2, <1>4
    <3>2. n = Len(s) => k + n = l
      BY <1>1, <1>2, <1>6
    <3> QED  BY <1>4, <3>1, <3>2
  <2> QED  BY <1>4, <1>5, <1>6, <2>1, <2>2, <2>3 DEF FilledAt, l
<1>8. Rest(s) = Suffix(text, k + n)
  <2> DEFINE u == Suffix(text, k + n)
             d == l - (k + n)
  <2>1. /\ (k + n) + 1 \in 1 .. (l + 1) /\ l \in (((k + n) + 1) - 1) .. l
        /\ l - ((k + n) + 1) + 1 = d /\ d \in Nat
    BY <1>1, <1>6
  <2>2. /\ u \in Seq(Char) /\ Len(u) = l - ((k + n) + 1) + 1
        /\ \A i \in 1 .. (l - ((k + n) + 1) + 1) : u[i] = text[((k + n) + 1) + i - 1]
    BY <2>1, PartOf DEF Suffix, l
  <2> HIDE DEF u
  <2>3. Len(Rest(s)) = d /\ Len(u) = d
    BY <1>1, <1>2, <1>5, <1>6, <2>1, <2>2
  <2>4. ASSUME NEW i \in 1 .. d PROVE Rest(s)[i] = u[i]
    <3>1. /\ i \in 1 .. Len(s) - n /\ n + i \in 1 .. (l - k)
          /\ k + (n + i) = ((k + n) + 1) + i - 1
      BY <1>1, <1>2, <1>6
    <3>2. Rest(s)[i] = s[n + i] /\ s[n + i] = text[k + (n + i)]
      BY <1>2, <1>5, <3>1
    <3>3. u[i] = text[((k + n) + 1) + i - 1]
      BY <2>1, <2>2
    <3> QED  BY <3>1, <3>2, <3>3
  <2>5. Rest(s) = u
    BY <1>5, <2>2, <2>3, <2>4, SeqEqual
  <2> QED  BY <2>5 DEF u
<1> QED  BY <1>2, <1>3, <1>6, <1>7, <1>8 DEF s

(* Where a line begins; where the loop may stand: at such a place, or in a   *)
(* line too long for the buffer, behind its last equals sign.                *)
AtStart(text, k) == k = 0 \/ text[k] = "\n"

Boundary(text, k) ==
  \/ AtStart(text, k)
  \/ \A i \in (k + 1) .. Len(text) :
       (\A j \in (k + 1) .. (i - 1) : text[j] # "\n") => text[i] # "="

(* The column of a character in the line that begins behind k. *)
LEMMA ColumnInLine ==
  ASSUME NEW text \in Seq(Char), NEW k \in Nat, AtStart(text, k),
         NEW i \in (k + 1) .. Len(text),
         \A j \in (k + 1) .. (i - 1) : text[j] # "\n"
  PROVE  Column(text, i) = i - k
<1> DEFINE S == {0} \cup { j \in 1 .. (i - 1) : text[j] = "\n" }
<1>1. Len(text) \in Nat /\ i \in Nat /\ k < i
  BY LenProperties
<1>2. S \in SUBSET Int
  BY <1>1
<1>3. k \in S
  BY <1>1 DEF AtStart
<1>4. ASSUME NEW j \in S PROVE j <= k
  <2>1. CASE j = 0
    BY <2>1
  <2>2. CASE j \in 1 .. (i - 1) /\ text[j] = "\n"
    BY <1>1, <2>2
  <2> QED  BY <2>1, <2>2
<1>5. Greatest(S) = k
  <2> HIDE DEF S
  <2> QED  BY <1>2, <1>3, <1>4, GreatestIs
<1> QED  BY <1>5 DEF Column

(* Behind a buffer the loop stands at such a place again. *)
LEMMA NextBoundary ==
  ASSUME NEW text \in Seq(Char), NoLateEquals(text), NEW k, NEW n, NEW line,
         FilledAt(text, k, n, line), Boundary(text, k)
  PROVE  Boundary(text, k + n)
<1> DEFINE l == Len(text)
<1>1. k \in Nat /\ n \in Nat /\ n >= 1 /\ k + n <= l
  BY DEF FilledAt
<1>2. \A j \in (k + 1) .. (k + n - 1) : text[j] # "\n"
  BY DEF FilledAt
<1>3. k + n = l \/ n = LineBuf - 1 \/ text[k + n] = "\n"
  BY DEF FilledAt
<1>4. l \in Nat /\ DOMAIN text = 1 .. l /\ LineBuf \in Nat
  BY LenProperties, LineBufAssumption
<1>5. CASE text[k + n] = "\n"
  BY <1>5 DEF Boundary, AtStart
<1>6. CASE text[k + n] # "\n"
  <2> SUFFICES ASSUME NEW i \in (k + n + 1) .. l,
                      \A j \in (k + n + 1) .. (i - 1) : text[j] # "\n"
               PROVE  text[i] # "="
    BY DEF Boundary
  <2> HIDE DEF l
  <2>1. i \in (k + 1) .. l /\ i > k + n /\ k + n < l /\ i \in 1 .. l
    BY <1>1, <1>4
  <2>2. ASSUME NEW j \in (k + 1) .. (i - 1) PROVE text[j] # "\n"
    <3>1. \/ j \in (k + 1) .. (k + n - 1)
          \/ j = k + n
          \/ j \in (k + n + 1) .. (i - 1)
      BY <1>1, <1>4, <2>1
    <3> QED  BY <1>2, <1>6, <3>1
  <2>3. CASE AtStart(text, k)
    <3>1. Column(text, i) = i - k
      BY <1>1, <2>1, <2>2, <2>3, ColumnInLine DEF l
    <3>2. n = LineBuf - 1
      BY <1>1, <1>3, <1>4, <1>6, <2>1
    <3>3. ~ (i - k < LineBuf)
      BY <1>1, <1>4, <2>1, <3>2
    <3> QED  BY <1>4, <2>1, <3>1, <3>3 DEF NoLateEquals
  <2>4. CASE ~ AtStart(text, k)
    BY <2>1, <2>2, <2>4 DEF Boundary, l
  <2> QED  BY <2>3, <2>4
<1> QED  BY <1>5, <1>6

Spans(a, b, n) == a \in Nat /\ b \in Nat /\ 1 <= a /\ a - 1 <= b /\ b <= n

Copies(line, text, k, a, b) == SubSeq(line, a, b) = SubSeq(text, k + a, k + b)

(* A part of the buffer is a part of the text. *)
LEMMA LineParts ==
  ASSUME NEW text \in Seq(Char), NEW k, NEW n, NEW line,
         FilledAt(text, k, n, line), NEW a, NEW b, Spans(a, b, n)
  PROVE  Copies(line, text, k, a, b)
<1> DEFINE l == Len(text)
<1>1. k \in Nat /\ n \in Nat /\ k + n <= l
  BY DEF FilledAt
<1>2. line \in Seq(Char) /\ Len(line) = n
  BY DEF FilledAt, Buffer
<1>3. \A i \in 1 .. n : line[i] = text[k + i]
  BY DEF FilledAt
<1>4. l \in Nat
  BY LenProperties
<1> HIDE DEF l
<1>5. /\ a \in 1 .. (n + 1) /\ b \in (a - 1) .. n
      /\ k + a \in 1 .. (l + 1) /\ k + b \in ((k + a) - 1) .. l
      /\ (k + b) - (k + a) + 1 = b - a + 1
  BY <1>1, <1>4 DEF Spans
<1>6. /\ SubSeq(line, a, b) \in Seq(Char)
      /\ Len(SubSeq(line, a, b)) = b - a + 1
      /\ \A i \in 1 .. (b - a + 1) : SubSeq(line, a, b)[i] = line[a + i - 1]
  BY <1>2, <1>5, PartOf
<1>7. /\ SubSeq(text, k + a, k + b) \in Seq(Char)
      /\ Len(SubSeq(text, k + a, k + b)) = (k + b) - (k + a) + 1
      /\ \A i \in 1 .. ((k + b) - (k + a) + 1) :
           SubSeq(text, k + a, k + b)[i] = text[(k + a) + i - 1]
  BY <1>5, PartOf DEF l
<1>8. ASSUME NEW i \in 1 .. (b - a + 1)
      PROVE  SubSeq(line, a, b)[i] = SubSeq(text, k + a, k + b)[i]
  <2>1. a + i - 1 \in 1 .. n /\ k + (a + i - 1) = (k + a) + i - 1
    BY <1>1, <1>5
  <2>2. SubSeq(line, a, b)[i] = line[a + i - 1]
    BY <1>6
  <2>3. SubSeq(text, k + a, k + b)[i] = text[(k + a) + i - 1]
    BY <1>5, <1>7
  <2> QED  BY <1>3, <2>1, <2>2, <2>3
<1> DEFINE p == SubSeq(line, a, b)
           q == SubSeq(text, k + a, k + b)
<1>9. p \in Seq(Char) /\ q \in Seq(Char) /\ Len(p) = Len(q)
      /\ \A i \in 1 .. Len(p) : p[i] = q[i]
  BY <1>5, <1>6, <1>7, <1>8
<1> HIDE DEF p, q
<1>10. p = q
  BY <1>9, SeqEqual
<1> QED  BY <1>10 DEF p, q, Copies

(* The equals signs of a buffer that make a setting. *)
LEMMA SettlesInLine ==
  ASSUME NEW text \in Seq(Char), NEW k, NEW n, NEW line,
         FilledAt(text, k, n, line), AtStart(text, k),
         NEW i \in (k + 1) .. (k + n)
  PROVE  /\ i - Column(text, i) + 1 = k + 1
         /\ Settles(text, i) <=> /\ text[i] = "=" /\ text[k + 1] # "#"
                                 /\ \A j \in (k + 1) .. (i - 1) : text[j] # "="
<1> DEFINE l == Len(text)
<1>1. k \in Nat /\ n \in Nat /\ k + n <= l
  BY DEF FilledAt
<1>2. \A j \in (k + 1) .. (k + n - 1) : text[j] # "\n"
  BY DEF FilledAt
<1>3. l \in Nat
  BY LenProperties
<1> HIDE DEF l
<1>4. i \in (k + 1) .. l /\ \A j \in (k + 1) .. (i - 1) : j \in (k + 1) .. (k + n - 1)
  BY <1>1, <1>3
<1>5. Column(text, i) = i - k
  BY <1>1, <1>2, <1>4, ColumnInLine DEF l
<1>6. i - Column(text, i) + 1 = k + 1
  BY <1>1, <1>4, <1>5
<1> DEFINE start == i - Column(text, i) + 1
<1>7. Settles(text, i) <=> /\ text[i] = "=" /\ text[start] # "#"
                           /\ \A j \in start .. (i - 1) : text[j] # "="
  BY Zenon DEF Settles
<1>8. start = k + 1
  BY <1>6
<1> HIDE DEF start
<1>9. Settles(text, i) <=> /\ text[i] = "=" /\ text[k + 1] # "#"
                           /\ \A j \in (k + 1) .. (i - 1) : text[j] # "="
  BY <1>7, <1>8
<1> QED  BY <1>6, <1>9

(* The settings behind k. *)
Places(text, k) == { i \in (k + 1) .. Len(text) : Settles(text, i) }

(* A comment, a line without an equals sign, or what did not fit of a line   *)
(* before, says nothing.                                                     *)
LEMMA NothingSaid ==
  ASSUME NEW text \in Seq(Char), NEW k, NEW n, NEW line,
         FilledAt(text, k, n, line), Boundary(text, k),
         line[1] = "#" \/ Equals(line) = {}
  PROVE  ParseLine(line) = << >> /\ Places(text, k) = Places(text, k + n)
<1> DEFINE l == Len(text)
<1>1. k \in Nat /\ n \in Nat /\ n >= 1 /\ k + n <= l
  BY DEF FilledAt
<1>2. \A j \in (k + 1) .. (k + n - 1) : text[j] # "\n"
  BY DEF FilledAt
<1>3. Len(line) = n /\ \A i \in 1 .. n : line[i] = text[k + i]
  BY DEF FilledAt
<1>4. l \in Nat
  BY LenProperties
<1>5. ASSUME NEW i \in (k + 1) .. (k + n) PROVE ~ Settles(text, i)
  <2> HIDE DEF l
  <2>1. i \in (k + 1) .. l /\ i - k \in 1 .. n /\ k + (i - k) = i
    BY <1>1, <1>4
  <2>2. CASE AtStart(text, k)
    <3>1. Settles(text, i) <=> /\ text[i] = "=" /\ text[k + 1] # "#"
                               /\ \A j \in (k + 1) .. (i - 1) : text[j] # "="
      BY <2>2, SettlesInLine
    <3>2. ASSUME text[i] = "=" PROVE i - k \in Equals(line)
      BY <1>3, <2>1, <3>2 DEF Equals
    <3>3. line[1] = text[k + 1]
      BY <1>1, <1>3
    <3>4. CASE line[1] = "#"
      BY <3>1, <3>3, <3>4
    <3>5. CASE Equals(line) = {}
      BY <3>1, <3>2, <3>5
    <3> QED  BY <3>4, <3>5
  <2>3. CASE ~ AtStart(text, k)
    <3>1. \A j \in (k + 1) .. (i - 1) : j \in (k + 1) .. (k + n - 1)
      BY <1>1, <1>4
    <3>2. text[i] # "="
      BY <1>2, <2>1, <2>3, <3>1 DEF Boundary, l
    <3> QED  BY <3>2 DEF Settles
  <2> QED  BY <2>2, <2>3
<1>6. Places(text, k) = Places(text, k + n)
  <2>1. ASSUME NEW i PROVE i \in Places(text, k) <=> i \in Places(text, k + n)
    <3> HIDE DEF l
    <3>1. i \in (k + 1) .. l <=> i \in (k + 1) .. (k + n) \/ i \in ((k + n) + 1) .. l
      BY <1>1, <1>4
    <3> QED  BY <1>5, <3>1 DEF Places, l
  <2> QED  BY <2>1
<1> QED  BY <1>6 DEF ParseLine

(* The end of a line, or of what fits of it. *)
LEMMA LineEnd ==
  ASSUME NEW text \in Seq(Char), NEW k, NEW n, NEW line,
         FilledAt(text, k, n, line), NEW i \in (k + 1) .. (k + n)
  PROVE  Least({Len(text), (k + 1) + LineBuf - 2}
               \cup { j \in i .. Len(text) : text[j] = "\n" }) = k + n
<1> DEFINE l == Len(text)
           S == {l, (k + 1) + LineBuf - 2} \cup { j \in i .. l : text[j] = "\n" }
<1>1. k \in Nat /\ n \in Nat /\ n >= 1 /\ k + n <= l /\ n <= LineBuf - 1
  BY DEF FilledAt
<1>2. \A j \in (k + 1) .. (k + n - 1) : text[j] # "\n"
  BY DEF FilledAt
<1>3. k + n = l \/ n = LineBuf - 1 \/ text[k + n] = "\n"
  BY DEF FilledAt
<1>4. l \in Nat /\ LineBuf \in Nat
  BY LenProperties, LineBufAssumption
<1> HIDE DEF l
<1>5. (k + 1) + LineBuf - 2 = k + LineBuf - 1 /\ k + n \in i .. l
  BY <1>1, <1>4
<1>6. S \in SUBSET Int
  BY <1>1, <1>4, <1>5
<1>7. k + n \in S
  <2>1. n = LineBuf - 1 => k + n = (k + 1) + LineBuf - 2
    BY <1>1, <1>4
  <2> QED  BY <1>3, <1>5, <2>1
<1>8. ASSUME NEW j \in S PROVE k + n <= j
  <2>1. CASE j = l
    BY <1>1, <2>1
  <2>2. CASE j = (k + 1) + LineBuf - 2
    BY <1>1, <1>4, <2>2
  <2>3. CASE j \in i .. l /\ text[j] = "\n"
    <3>1. j \notin (k + 1) .. (k + n - 1)
      BY <1>2, <2>3
    <3> QED  BY <1>1, <1>4, <2>3, <3>1
  <2> QED  BY <2>1, <2>2, <2>3
<1>9. Least(S) = k + n
  <2> HIDE DEF S
  <2> QED  BY <1>6, <1>7, <1>8, LeastIsThis
<1> QED  BY <1>9 DEF l

(* Any other line says one thing, and it is read as it was written. *)
LEMMA OneThingSaid ==
  ASSUME NEW text \in Seq(Char), NEW k, NEW n, NEW line,
         FilledAt(text, k, n, line), Boundary(text, k),
         line[1] # "#", Equals(line) # {}
  PROVE  \E i \in (k + 1) .. (k + n), entry \in Entry :
           /\ ParseLine(line) = << entry >>
           /\ Places(text, k) = {i} \cup Places(text, k + n)
           /\ Seen(text, i, entry)
<1> DEFINE l == Len(text)
           eq == Least(Equals(line))
           i == k + eq
           name == Trim(SubSeq(line, 1, eq - 1))
           value == Trim(SubSeq(line, eq + 1, n))
           entry == [name |-> name, value |-> value]
<1>1. k \in Nat /\ n \in Nat /\ n >= 1 /\ k + n <= l /\ line \in Buffer
  BY DEF FilledAt
<1>2. \A j \in (k + 1) .. (k + n - 1) : text[j] # "\n"
  BY DEF FilledAt
<1>3. Len(line) = n /\ \A j \in 1 .. n : line[j] = text[k + j]
  BY DEF FilledAt
<1>4. l \in Nat
  BY LenProperties
<1> HIDE DEF l
<1>5. /\ eq \in 1 .. n /\ line[eq] = "="
      /\ \A j \in 1 .. (eq - 1) : line[j] # "="
  BY <1>1, <1>3, FirstEquals
<1>6. ParseLine(line) = << entry >>
  BY <1>3 DEF ParseLine
<1> HIDE DEF eq
<1>7. i \in (k + 1) .. (k + n) /\ i \in (k + 1) .. l
  BY <1>1, <1>4, <1>5
<1>8. text[i] = "=" /\ text[k + 1] # "#"
  <2>1. 1 \in 1 .. n
    BY <1>1
  <2> QED  BY <1>3, <1>5, <2>1
<1>9. ASSUME NEW j \in (k + 1) .. (i - 1) PROVE text[j] # "=" /\ text[j] # "\n"
  <2>1. j - k \in 1 .. (eq - 1) /\ j - k \in 1 .. n /\ k + (j - k) = j
          /\ j \in (k + 1) .. (k + n - 1)
    BY <1>1, <1>5
  <2> QED  BY <1>2, <1>3, <1>5, <2>1
<1>10. AtStart(text, k)
  BY <1>7, <1>8, <1>9 DEF Boundary, l
<1>11. \A j \in (k + 1) .. (k + n) : Settles(text, j) <=> j = i
  <2> SUFFICES ASSUME NEW j \in (k + 1) .. (k + n)
               PROVE  Settles(text, j) <=> j = i
    OBVIOUS
  <2>1. Settles(text, j) <=> /\ text[j] = "=" /\ text[k + 1] # "#"
                             /\ \A m \in (k + 1) .. (j - 1) : text[m] # "="
    BY <1>10, SettlesInLine
  <2>2. CASE j = i
    BY <1>8, <1>9, <2>1, <2>2
  <2>3. CASE j < i
    <3>1. j \in (k + 1) .. (i - 1)
      BY <1>1, <1>7, <2>3
    <3> QED  BY <1>9, <2>1, <2>3, <3>1, <1>7, <1>1
  <2>4. CASE j > i
    <3>1. i \in (k + 1) .. (j - 1)
      BY <1>1, <1>7, <2>4
    <3> QED  BY <1>8, <2>1, <2>4, <3>1, <1>7, <1>1
  <2>5. j < i \/ j = i \/ j > i
    BY <1>1, <1>7
  <2> QED  BY <2>2, <2>3, <2>4, <2>5
<1>12. Places(text, k) = {i} \cup Places(text, k + n)
  <2>1. ASSUME NEW j PROVE j \in Places(text, k) <=> j = i \/ j \in Places(text, k + n)
    <3> HIDE DEF i
    <3>1. j \in (k + 1) .. l <=> j \in (k + 1) .. (k + n) \/ j \in ((k + n) + 1) .. l
      BY <1>1, <1>4
    <3> QED  BY <1>7, <1>11, <3>1 DEF Places, l
  <2> HIDE DEF i
  <2> QED  BY <2>1
<1>13. name \in Seq(Char) /\ Bare(text, k + 1, i - 1, name)
  <2>1. /\ eq - 1 \in Nat /\ 1 - 1 <= eq - 1 /\ eq - 1 <= n
        /\ k + (eq - 1) = i - 1 /\ 1 \in Nat /\ 1 <= 1
    BY <1>1, <1>5
  <2>2. SubSeq(line, 1, eq - 1) = SubSeq(text, k + 1, k + (eq - 1))
    <3>1. Spans(1, eq - 1, n)
      BY <2>1 DEF Spans
    <3>2. Copies(line, text, k, 1, eq - 1)
      BY <3>1, LineParts, Zenon
    <3> QED  BY <3>2 DEF Copies
  <2>3. k + 1 \in 1 .. (l + 1) /\ i - 1 \in ((k + 1) - 1) .. l
    BY <1>1, <1>4, <1>5
  <2> HIDE DEF i
  <2> QED  BY <2>1, <2>2, <2>3, TrimIsBare DEF l
<1>14. value \in Seq(Char) /\ Bare(text, i + 1, k + n, value)
  <2>1. /\ eq + 1 \in Nat /\ 1 <= eq + 1 /\ (eq + 1) - 1 <= n /\ n <= n
        /\ k + (eq + 1) = i + 1
    BY <1>1, <1>5
  <2>2. SubSeq(line, eq + 1, n) = SubSeq(text, k + (eq + 1), k + n)
    <3>1. Spans(eq + 1, n, n)
      BY <1>1, <2>1 DEF Spans
    <3>2. Copies(line, text, k, eq + 1, n)
      BY <3>1, LineParts, Zenon
    <3> QED  BY <3>2 DEF Copies
  <2>3. i + 1 \in 1 .. (l + 1) /\ k + n \in ((i + 1) - 1) .. l
    BY <1>1, <1>4, <1>5
  <2> HIDE DEF i
  <2> QED  BY <2>1, <2>2, <2>3, TrimIsBare DEF l
<1>15. entry \in Entry /\ entry.name = name /\ entry.value = value
  BY <1>13, <1>14 DEF Entry
<1>16. i - Column(text, i) + 1 = k + 1
  <2> HIDE DEF i
  <2> QED  BY <1>7, <1>10, SettlesInLine
<1>17. Least({Len(text), (k + 1) + LineBuf - 2}
             \cup { j \in i .. Len(text) : text[j] = "\n" }) = k + n
  <2> HIDE DEF i
  <2> QED  BY <1>7, LineEnd
<1> HIDE DEF i, name, value, entry
<1>18. Seen(text, i, entry)
  BY <1>13, <1>14, <1>15, <1>16, <1>17, Zenon DEF Seen
<1> QED  BY <1>6, <1>7, <1>12, <1>15, <1>18

(* The settings s are those written at the places, in order. *)
Upto(places, i) == { j \in places : j <= i }

Matches(text, places, s) ==
  /\ s \in Seq(Entry)
  /\ Len(s) = Cardinality(places)
  /\ \A i \in places : Seen(text, i, s[Cardinality(Upto(places, i))])

(* A setting written before all of them comes first. *)
LEMMA FirstOfThem ==
  ASSUME NEW text, NEW places, places \in SUBSET Int, IsFiniteSet(places),
         NEW s, Matches(text, places, s), NEW i, i \in Int,
         \A j \in places : i < j,
         NEW entry, entry \in Entry, Seen(text, i, entry)
  PROVE  /\ IsFiniteSet({i} \cup places)
         /\ Matches(text, {i} \cup places, << entry >> \o s)
<1> DEFINE more == {i} \cup places
           one  == << entry >>
           c    == one \o s
<1>1. /\ s \in Seq(Entry) /\ Len(s) = Cardinality(places)
      /\ \A j \in places : Seen(text, j, s[Cardinality(Upto(places, j))])
  BY DEF Matches
<1>2. i \notin places
  OBVIOUS
<1>3. IsFiniteSet(more) /\ Cardinality(more) = Cardinality(places) + 1
  <2>1. more = places \cup {i}
    OBVIOUS
  <2> HIDE DEF more
  <2> QED  BY <1>2, <2>1, FS_AddElement
<1>4. one \in Seq(Entry) /\ Len(one) = 1 /\ one[1] = entry
  OBVIOUS
<1>5. Len(s) \in Nat
  BY <1>1, LenProperties
<1>6. /\ c \in Seq(Entry) /\ Len(c) = 1 + Len(s)
      /\ c[1] = entry /\ \A n \in 1 .. Len(s) : c[n + 1] = s[n]
  <2> HIDE DEF one
  <2>1. /\ c \in Seq(Entry) /\ Len(c) = 1 + Len(s)
        /\ \A n \in 1 .. 1 + Len(s) :
             c[n] = IF n <= 1 THEN one[n] ELSE s[n - 1]
    <3>1. /\ c \in Seq(Entry) /\ Len(c) = Len(one) + Len(s)
          /\ \A n \in 1 .. Len(one) + Len(s) :
               c[n] = IF n <= Len(one) THEN one[n] ELSE s[n - Len(one)]
      BY <1>1, <1>4, ConcatProperties
    <3> HIDE DEF c
    <3> QED  BY <1>4, <3>1
  <2> HIDE DEF c
  <2>2. c[1] = entry
    BY <1>4, <1>5, <2>1
  <2>3. ASSUME NEW n \in 1 .. Len(s) PROVE c[n + 1] = s[n]
    <3>1. n + 1 \in 1 .. 1 + Len(s) /\ ~ (n + 1 <= 1) /\ (n + 1) - 1 = n
      BY <1>5
    <3> QED  BY <2>1, <3>1
  <2> QED  BY <2>1, <2>2, <2>3
<1> HIDE DEF c, one
<1>7. Seen(text, i, c[Cardinality(Upto(more, i))])
  <2>1. ASSUME NEW j PROVE j \in Upto(more, i) <=> j = i
    <3>1. i <= i /\ \A m \in places : ~ (m <= i)
      OBVIOUS
    <3> QED  BY <3>1 DEF Upto
  <2>2. Cardinality({i}) = 1
    BY FS_Singleton
  <2>3. Upto(more, i) = {i}
    BY <2>1
  <2> QED  BY <1>6, <2>2, <2>3
<1>8. ASSUME NEW j \in places
      PROVE  Seen(text, j, c[Cardinality(Upto(more, j))])
  <2> DEFINE u == Upto(places, j)
  <2>1. i < j /\ j \in Int
    OBVIOUS
  <2>2. Upto(more, j) = u \cup {i}
    BY <2>1 DEF Upto
  <2>3. u \subseteq places /\ j \in u /\ i \notin u
    BY <1>2, <2>1 DEF Upto
  <2> HIDE DEF u
  <2>4. IsFiniteSet(u) /\ Cardinality(u) <= Cardinality(places)
    BY <2>3, FS_Subset
  <2>5. Cardinality(u \cup {i}) = Cardinality(u) + 1
    BY <2>3, <2>4, FS_AddElement
  <2>6. Cardinality(u) \in Nat /\ Cardinality(u) # 0
    BY <2>3, <2>4, FS_CardinalityType, FS_EmptySet
  <2>7. Cardinality(u) \in 1 .. Len(s)
    BY <1>1, <1>5, <2>4, <2>6
  <2>8. c[Cardinality(Upto(more, j))] = s[Cardinality(u)]
    BY <1>6, <2>2, <2>5, <2>7
  <2> QED  BY <1>1, <2>8 DEF u
<1>9. Matches(text, more, c)
  <2>1. Len(c) = Cardinality(more)
    BY <1>1, <1>3, <1>5, <1>6
  <2>2. \A j \in more : j = i \/ j \in places
    OBVIOUS
  <2> HIDE DEF more
  <2> QED  BY <1>6, <1>7, <1>8, <2>1, <2>2 DEF Matches
<1> QED  BY <1>3, <1>9 DEF c, one

(* No place of a setting is behind the text. *)
LEMMA NoPlaceLeft ==
  ASSUME NEW text \in Seq(Char)
  PROVE  /\ Places(text, Len(text)) = {} /\ IsFiniteSet({})
         /\ Suffix(text, Len(text)) = << >> /\ Matches(text, {}, << >>)
<1>1. Len(text) \in Nat
  BY LenProperties
<1>2. Places(text, Len(text)) = {}
  BY <1>1 DEF Places
<1>3. IsFiniteSet({}) /\ Cardinality({}) = 0
  BY FS_EmptySet
<1>4. Suffix(text, Len(text)) = << >>
  <2>1. Len(text) + 1 \in 1 .. (Len(text) + 1)
          /\ Len(text) \in ((Len(text) + 1) - 1) .. Len(text)
          /\ Len(text) - (Len(text) + 1) + 1 = 0
    BY <1>1
  <2>2. Suffix(text, Len(text)) \in Seq(Char) /\ Len(Suffix(text, Len(text))) = 0
    BY <2>1, PartOf DEF Suffix
  <2> QED  BY <2>2, EmptySeq
<1>5. Matches(text, {}, << >>)
  BY <1>3, EmptySeq DEF Matches
<1> QED  BY <1>2, <1>3, <1>4, <1>5

(* What is read from k on is what is written there. *)
ReadFrom(text, k) ==
  /\ IsFiniteSet(Places(text, k))
  /\ Matches(text, Places(text, k), Settings[Buffers[Suffix(text, k)]])

(* One buffer more. *)
LEMMA ReadBuffer ==
  ASSUME NEW text \in Seq(Char), NEW k \in Nat, k < Len(text), Boundary(text, k),
         NEW n, FilledAt(text, k, n, Taken(Suffix(text, k))),
         Rest(Suffix(text, k)) = Suffix(text, k + n), ReadFrom(text, k + n)
  PROVE  ReadFrom(text, k)
<1> DEFINE s     == Suffix(text, k)
           line  == Taken(s)
           later == Settings[Buffers[Suffix(text, k + n)]]
           after == Places(text, k + n)
<1>1. s \in Seq(Char) /\ s # << >>
  BY Filled
<1>2. Settings[Buffers[s]] = ParseLine(line) \o later
  <2> HIDE DEF s
  <2>1. Settings[Buffers[s]] = ParseLine(Taken(s)) \o Settings[Buffers[Rest(s)]]
    BY <1>1, SettingsOfText
  <2>2. Rest(s) = Suffix(text, k + n)
    BY DEF s
  <2> QED  BY <2>1, <2>2
<1>3. IsFiniteSet(after) /\ Matches(text, after, later)
  BY DEF ReadFrom
<1>4. FilledAt(text, k, n, line)
  OBVIOUS
<1> HIDE DEF line, later, after
<1>5. CASE line[1] = "#" \/ Equals(line) = {}
  <2>1. ParseLine(line) = << >> /\ Places(text, k) = after
    BY <1>4, <1>5, NothingSaid DEF after
  <2>2. << >> \o later = later
    BY <1>3, ConcatEmptySeq DEF Matches
  <2>3. Settings[Buffers[s]] = later
    BY <1>2, <2>1, <2>2
  <2> QED  BY <1>3, <2>1, <2>3 DEF ReadFrom, s
<1>6. CASE line[1] # "#" /\ Equals(line) # {}
  <2>1. PICK i \in (k + 1) .. (k + n), entry \in Entry :
          /\ ParseLine(line) = << entry >>
          /\ Places(text, k) = {i} \cup after
          /\ Seen(text, i, entry)
    BY <1>4, <1>6, OneThingSaid DEF after
  <2>2. n \in Nat /\ Len(text) \in Nat
    BY <1>4, LenProperties DEF FilledAt
  <2>3. after \in SUBSET Int /\ i \in Int /\ \A j \in after : i < j
    BY <2>2 DEF after, Places
  <2>4. /\ IsFiniteSet({i} \cup after)
        /\ Matches(text, {i} \cup after, << entry >> \o later)
    BY <1>3, <2>1, <2>3, FirstOfThem
  <2>5. Settings[Buffers[s]] = << entry >> \o later
    BY <1>2, <2>1
  <2> QED  BY <2>1, <2>4, <2>5 DEF ReadFrom, s
<1> QED  BY <1>5, <1>6

(* The loop reads what is written, from wherever it may stand. *)
LEMMA ReadToTheEnd ==
  ASSUME NEW text \in Seq(Char), NoLateEquals(text),
         NEW k \in Nat, k <= Len(text), Boundary(text, k)
  PROVE  ReadFrom(text, k)
<1> DEFINE l == Len(text)
           R == { r \in Nat : \A i \in Nat :
                    i <= l /\ l - i <= r /\ Boundary(text, i) => ReadFrom(text, i) }
<1>1. l \in Nat
  BY LenProperties
<1>2. ReadFrom(text, l)
  <2>1. Settings[Buffers[<< >>]] = << >>
    <3>1. << >> \in Seq(Char)
      BY EmptySeq
    <3> QED  BY <3>1, SettingsOfText
  <2> QED  BY <2>1, NoPlaceLeft DEF ReadFrom
<1>3. 0 \in R
  <2>1. \A i \in Nat : i <= l /\ l - i <= 0 => i = l
    BY <1>1
  <2> HIDE DEF l
  <2> QED  BY <1>2, <2>1
<1>4. ASSUME NEW r \in Nat, r \in R PROVE r + 1 \in R
  <2> SUFFICES ASSUME NEW i \in Nat, i <= l, l - i <= r + 1, Boundary(text, i)
               PROVE  ReadFrom(text, i)
    OBVIOUS
  <2>1. CASE i = l
    BY <1>2, <2>1
  <2>2. CASE i # l
    <3>1. i < l
      BY <1>1, <2>2
    <3>2. PICK n \in Nat : /\ FilledAt(text, i, n, Taken(Suffix(text, i)))
                           /\ Rest(Suffix(text, i)) = Suffix(text, i + n)
      BY <3>1, Filled
    <3>3. n >= 1 /\ i + n <= l
      BY <3>2 DEF FilledAt
    <3>4. i + n \in Nat /\ i + n <= l /\ l - (i + n) <= r
      BY <1>1, <3>3
    <3>5. Boundary(text, i + n)
      BY <3>2, NextBoundary
    <3>6. ReadFrom(text, i + n)
      <4> HIDE DEF l
      <4> QED  BY <1>4, <3>4, <3>5
    <3> QED  BY <3>1, <3>2, <3>6, ReadBuffer
  <2> QED  BY <2>1, <2>2
<1>5. l - k \in Nat /\ l - k <= l - k
  BY <1>1
<1>6. Nat \subseteq R
  <2> HIDE DEF R
  <2> QED  BY <1>3, <1>4, Induction
<1>7. l - k \in R
  BY <1>5, <1>6
<1> QED  BY <1>5, <1>7

(* Reading a configuration keeps ReadsAsWritten. *)
LEMMA ReadStep ==
  ASSUME ReadConfig
  PROVE  ReadsAsWritten'
<1>1. PICK text \in Texts :
        /\ call' = [of |-> "rdk_logger_parse_config", in |-> text]
        /\ result' = [settings |-> Settings[Buffers[text]],
                      ends |-> { ValueEnd(Buffers[text][i])
                                   : i \in DOMAIN Buffers[text] }]
  BY DEF ReadConfig, Called
<1>2. text \in Seq(Char)
  BY InputAssumption
<1> SUFFICES ASSUME NoLateEquals(text)
             PROVE  LET places == { i \in DOMAIN text : Settles(text, i) }
                        Rank(i) == Cardinality({ j \in places : j <= i })
                        s == Settings[Buffers[text]]
                    IN  /\ Len(s) = Cardinality(places)
                        /\ \A i \in places : Seen(text, i, s[Rank(i)])
  BY <1>1 DEF ReadsAsWritten
<1>3. ReadFrom(text, 0)
  <2>1. Boundary(text, 0)
    BY DEF Boundary, AtStart
  <2>2. 0 \in Nat /\ 0 <= Len(text)
    BY <1>2, LenProperties
  <2> QED  BY <1>2, <2>1, <2>2, ReadToTheEnd
<1>4. Suffix(text, 0) = text
  BY <1>2, SubSeqFull DEF Suffix
<1>5. Places(text, 0) = { i \in DOMAIN text : Settles(text, i) }
  BY <1>2, LenProperties DEF Places
<1>6. Matches(text, { i \in DOMAIN text : Settles(text, i) }, Settings[Buffers[text]])
  BY <1>3, <1>4, <1>5, Zenon DEF ReadFrom
<1> QED  BY <1>6 DEF Matches, Upto

(* The settings are those a reader of debug.ini sees: one for each equals    *)
(* sign that makes one, in order, with the name and the value that stand     *)
(* around it (rdk_logger_parse_config and trim in rdk_debug_priv.c), unless  *)
(* an equals sign stands past the end of the buffer.                         *)
THEOREM ReadsAsWrittenHolds == Spec => []ReadsAsWritten
<1>1. Init => ReadsAsWritten
  BY DEF Init, Idle, ReadsAsWritten
<1>2. ReadsAsWritten /\ [Next]_vars => ReadsAsWritten'
  <2> SUFFICES ASSUME ReadsAsWritten, [Next]_vars PROVE ReadsAsWritten'
    OBVIOUS
  <2>1. CASE ReadConfig
    BY <2>1, ReadStep
  <2>2. CASE UNCHANGED << call, result >>
    BY <2>2 DEF ReadsAsWritten
  <2>3. CASE call'.of # "rdk_logger_parse_config"
    BY <2>3 DEF ReadsAsWritten
  <2> QED  BY <2>1, <2>2, <2>3, Steps, CallNames
<1> QED  BY <1>1, <1>2, PTL DEF Spec

=============================================================================
