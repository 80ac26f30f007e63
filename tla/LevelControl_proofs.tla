------------------------- MODULE LevelControl_proofs -------------------------
(***************************************************************************)
(* LevelControl for every set of categories, every debug.ini and every     *)
(* order of early calls, run-time changes and retried initialisations.     *)
(***************************************************************************)
EXTENDS LevelControl, NaturalLemmas, TLAPS

(* The two tables stay within the levels and priorities there are, and what  *)
(* the parser writes never leaves a module unset.                            *)
LEMMA Tables ==
  /\ \A l \in Level : LevelToPriority(l) \in Priority \ {NOTSET}
  /\ \A p \in Priority : PriorityToLevel(p) \in Level
  /\ \A v \in Setting : SettingPriority(v) \in Priority \ {NOTSET}
BY DEF LevelToPriority, PriorityToLevel, SettingPriority, Level, MessageLevel,
       Setting, Unrecognised, Priority, MessagePriority, NOTSET, UNKNOWN, SILENT,
       FATAL, ERROR, WARN, NOTICE, INFO, DEBUG, TRACE, NONE

(* The values used by name are values. *)
LEMMA Distinct == /\ NOTSET \in Priority /\ WARN \in Level /\ NONE \in Level
BY DEF NOTSET, Priority, WARN, NONE, Level

(* The line being read is one of a well-formed file. *)
LEMMA LineRead ==
  ASSUME TypeOK, AtLine
  PROVE  /\ line \in 1 .. Len(file) /\ file \in Seq(Line)
         /\ file[line].name \in Category /\ file[line].value \in Setting
<1>1. file \in Seq(Line)
  <2>1. << >> \in Seq(Line)
    OBVIOUS
  <2>2. file \in Files \cup {<< >>}
    BY DEF TypeOK
  <2> QED
    BY <2>1, <2>2, InputAssumption
<1>2. line \in 1 .. Len(file)
  BY <1>1 DEF TypeOK, AtLine
<1>3. file[line] \in Line
  BY <1>1, <1>2
<1> QED
  BY <1>1, <1>2, <1>3 DEF Line

(* TypeOK taken apart. *)
Levels ==
  priority \in [Category -> Priority] /\ gRootPriority \in Priority

Appending ==
  appending \subseteq Category /\ additive \subseteq Category

Reading ==
  /\ backendReady \in BOOLEAN
  /\ gRootCat \in {NoCategory, RdkRoot}
  /\ isLogInited \in BOOLEAN
  /\ step \in {"idle", "open", "line", "fallback", "failed"}
  /\ file \in Files \cup {<< >>}
  /\ line \in Nat \ {0}
  /\ step = "fallback" => line <= Len(file)

Answer ==
  [call : {"none", "log", "enabled", "set", "enable", "disable", "get", "ext_init"},
   module : GivenName, level : Level, result : BOOLEAN]

(* The type invariant in the parts a step touches. *)
LEMMA TypeParts ==
  TypeOK <=> Levels /\ Appending /\ Reading /\ answer \in Answer
             /\ adjusted \subseteq Category
BY DEF TypeOK, Levels, Appending, Reading, Answer

(* Likewise after a step. *)
LEMMA TypePartsNext ==
  TypeOK' <=> Levels' /\ Appending' /\ Reading' /\ (answer \in Answer)'
              /\ (adjusted \subseteq Category)'
BY TypeParts, PTL

(* What a call tells its caller is an answer. *)
LEMMA ToldIsAnswer ==
  ASSUME NEW call \in {"log", "enabled", "set", "enable", "disable", "get", "ext_init"},
         NEW c \in GivenName, NEW level \in Level, NEW result \in BOOLEAN
  PROVE  Told(call, c, level, result) \in Answer
BY DEF Told, Answer

(* The types hold before the first call. *)
LEMMA TypeInitially == Init => TypeOK
<1> SUFFICES ASSUME Init PROVE TypeOK
  OBVIOUS
<1>1. Levels
  BY Tables, Distinct DEF Init, Levels
<1>2. Appending
  BY DEF Init, Appending
<1>3. Reading
  <2>1. step = "idle" /\ line = 1 /\ file = << >>
    BY DEF Init
  <2>2. file \in Files \cup {<< >>}
    BY <2>1
  <2>3. line \in Nat \ {0} /\ step # "fallback"
    BY <2>1
  <2> QED
    BY <2>1, <2>2, <2>3 DEF Init, Reading
<1>4. answer \in Answer
  BY CategoryAssumption, Distinct DEF Init, Answer, Told, GivenName
<1> QED
  BY <1>1, <1>2, <1>3, <1>4, TypeParts DEF Init

(* The steps of rdk_logger_init keep the types. *)
LEMMA InitStepTyped ==
  ASSUME TypeOK, RdkLoggerInit
  PROVE  TypeOK'
<1>0. Levels /\ Appending /\ Reading /\ answer \in Answer /\ adjusted \subseteq Category
  BY TypeParts
<1>1. UNCHANGED answer /\ adjusted' \subseteq Category
  BY <1>0 DEF RdkLoggerInit, StartBackend, OpenConfig, ParseDefault,
     PublishDefault, ParseModule, SkipLine, FinishInit, FailInit, log4c
<1>2. Appending'
  BY <1>0, CategoryAssumption DEF RdkLoggerInit, StartBackend, OpenConfig,
     ParseDefault, PublishDefault, ParseModule, SkipLine, FinishInit, FailInit,
     log4c, Appending
<1>3. Levels'
  <2>1. CASE ParseDefault \/ ParseModule
    BY <1>0, <2>1, LineRead, Tables DEF ParseDefault, ParseModule, Levels
  <2>2. CASE StartBackend
    <3>1. LevelToPriority(WARN) \in Priority
      BY Tables, Distinct
    <3> QED
      BY <1>0, <2>2, <3>1 DEF StartBackend, Levels
  <2>3. CASE PublishDefault \/ FinishInit \/ FailInit
    BY <1>0, <2>3, CategoryAssumption DEF PublishDefault, FinishInit, FailInit,
       log4c, Levels
  <2>4. CASE OpenConfig \/ SkipLine
    BY <1>0, <2>4 DEF OpenConfig, SkipLine, log4c, Levels
  <2> QED
    BY <2>1, <2>2, <2>3, <2>4 DEF RdkLoggerInit
<1>4. Reading'
  <2>1. CASE StartBackend
    BY <1>0, <2>1 DEF StartBackend, Reading
  <2>5. CASE OpenConfig
    <3>1. file' \in Files \cup {<< >>} /\ line' \in Nat \ {0}
      BY <1>0, <2>5 DEF OpenConfig, Reading
    <3> QED
      BY <1>0, <2>5, <3>1 DEF OpenConfig, Reading
  <2>2. CASE ParseDefault
    BY <1>0, <2>2 DEF ParseDefault, AtLine, Reading
  <2>3. CASE PublishDefault \/ ParseModule \/ SkipLine
    BY <1>0, <2>3 DEF PublishDefault, ParseModule, SkipLine, AtLine, Reading
  <2>4. CASE FinishInit \/ FailInit
    BY <1>0, <2>4 DEF FinishInit, FailInit, Reading
  <2> QED
    BY <2>1, <2>2, <2>3, <2>4, <2>5 DEF RdkLoggerInit
<1> QED
  BY <1>0, <1>1, <1>2, <1>3, <1>4, TypePartsNext

(* A call of the library leaves rdk_logger_init where it is. *)
LEMMA CallTyped ==
  ASSUME TypeOK, UNCHANGED init, UNCHANGED gRootPriority,
         priority' \in [Category -> Priority], Appending',
         answer' \in Answer, adjusted' \subseteq Category
  PROVE  TypeOK'
<1>1. Reading'
  BY TypeParts DEF Reading, init
<1>2. Levels'
  BY TypeParts DEF Levels
<1> QED
  BY <1>1, <1>2, TypePartsNext

(* So does every step. *)
LEMMA TypeKept == TypeOK /\ [Next]_vars => TypeOK'
<1> SUFFICES ASSUME TypeOK, [Next]_vars PROVE TypeOK'
  OBVIOUS
<1>0. Levels /\ Appending /\ Reading /\ answer \in Answer /\ adjusted \subseteq Category
  BY TypeParts
<1>1. CASE UNCHANGED vars
  BY <1>1, <1>0, CallTyped DEF vars, init, Levels, Appending
<1>2. CASE RdkLoggerInit
  BY <1>2, InitStepTyped
<1>3. ASSUME NEW c \in Modules, NEW level \in MessageLevels, Log(c, level)
      PROVE  TypeOK'
  <2>1. priority' \in [Category -> Priority]
    BY <1>0, <1>3 DEF Log, Pinned, Levels
  <2>2. answer' \in Answer
    <3>1. level \in Level /\ c \in GivenName
      BY CategoryAssumption, InputAssumption
    <3>2. WouldLog(c, level) \in BOOLEAN
      BY DEF WouldLog, Enabled
    <3> QED
      BY <1>3, <3>1, <3>2, ToldIsAnswer DEF Log
  <2> QED
    BY <1>0, <1>3, <2>1, <2>2, CallTyped DEF Log, Appending
<1>4. ASSUME NEW c \in Modules, NEW level \in MessageLevels, IsLogLevelEnabled(c, level)
      PROVE  TypeOK'
  <2>1. answer' \in Answer
    BY <1>4, CategoryAssumption, InputAssumption
       DEF IsLogLevelEnabled, SaysEnabled, Told, Enabled, Answer
  <2> QED
    BY <1>0, <1>4, <2>1, CallTyped DEF IsLogLevelEnabled, log4c, Appending, Levels
<1>5. ASSUME NEW c \in Modules, GetLevel(c) PROVE TypeOK'
  <2>1. c \in Category => Reported(c) \in Level
    BY <1>0, Tables DEF Reported, Levels
  <2>2. answer' \in Answer
    BY <1>5, <2>1, CategoryAssumption, Distinct, ToldIsAnswer DEF GetLevel
  <2> QED
    BY <1>0, <1>5, <2>2, CallTyped DEF GetLevel, log4c, Appending, Levels
<1>6. ASSUME NEW c \in Adjustable, NEW level \in RuntimeLevels,
             NEW call \in {"set", "enable", "disable"}, SetLevel(call, c, level)
      PROVE  TypeOK'
  <2>1. /\ priority' \in [Category -> Priority]
        /\ adjusted' \subseteq Category
    <3>1. LevelToPriority(level) \in Priority
      BY InputAssumption, Tables
    <3>2. CASE c \in Category
      BY <1>0, <1>6, <3>1, <3>2 DEF SetLevel, Levels
    <3>3. CASE c \notin Category
      BY <1>0, <1>6, <3>3 DEF SetLevel, Levels
    <3> QED
      BY <3>2, <3>3
  <2>2. answer' \in Answer
    BY <1>6, CategoryAssumption, InputAssumption DEF SetLevel, Told, Answer
  <2> QED
    BY <1>0, <1>6, <2>1, <2>2, CallTyped DEF SetLevel, Appending
<1>7. ASSUME NEW c \in Adjustable, NEW level \in RuntimeLevels,
             NEW usable \in BOOLEAN, ExtInit(c, level, usable)
      PROVE  TypeOK'
  <2> DEFINE d == IF c = NoCategory THEN gRootCat ELSE c
  <2>1. d \in GivenName /\ c \in GivenName /\ level \in Level
    BY <1>0, CategoryAssumption, InputAssumption DEF Reading, GivenName
  <2>2. CASE d \in Category /\ usable
    <3>1. /\ priority' \in [Category -> Priority]
          /\ adjusted' \subseteq Category /\ Appending'
      BY <1>0, <1>7, <2>1, <2>2, Tables DEF ExtInit, Levels, Appending
    <3>2. answer' \in Answer
      BY <1>7, <2>1, <2>2, ToldIsAnswer DEF ExtInit
    <3> QED
      BY <1>7, <3>1, <3>2, CallTyped DEF ExtInit
  <2>3. CASE ~ (d \in Category /\ usable)
    <3>1. UNCHANGED << log4c, adjusted, gRootPriority, init >>
      BY <1>7, <2>3 DEF ExtInit
    <3>2. answer' \in Answer
      BY <1>7, <2>1, <2>3, ToldIsAnswer DEF ExtInit
    <3> QED
      BY <1>0, <3>1, <3>2, CallTyped DEF log4c, Levels, Appending
  <2> QED
    BY <2>2, <2>3
<1> QED
  BY <1>1, <1>2, <1>3, <1>4, <1>5, <1>6, <1>7
     DEF Next, SetLogLevel, EnableLogLevel

(***************************************************************************)
(* The variables hold what the code can put into them; in particular the   *)
(* parser never reads past the end of the file.                            *)
(***************************************************************************)
THEOREM TypeCorrect == Spec => []TypeOK
BY TypeInitially, TypeKept, PTL DEF Spec

-----------------------------------------------------------------------------
(* Reading debug.ini while other threads log.                                *)

(* Once initialised, nobody reads the file again. *)
Settled == isLogInited => step = "idle" /\ line > Len(file)

(* The lines read so far are in force: for a module no call has set, the     *)
(* last of them that names it.  A message that pins a module meanwhile only  *)
(* touches one that has no priority, and no line leaves one without.         *)
LastReadFor(c, i) ==
  file[i].name = c /\ \A j \in (i + 1) .. (line - 1) : file[j].name # c

InForce ==
  step \in {"line", "fallback"} \/ isLogInited =>
    /\ line <= Len(file) + 1
    /\ step = "fallback" => file[line].name = DefaultCategory
    /\ \A c \in RdkModules \ ({DefaultCategory} \cup adjusted), i \in 1 .. (line - 1) :
         LastReadFor(c, i) => priority[c] = SettingPriority(file[i].value)

Parsed == TypeOK /\ Settled /\ InForce /\ FallbackIsRoot

(* What the parser reads has its type. *)
LEMMA ReadIsTyped ==
  ASSUME TypeOK
  PROVE  /\ file \in Seq(Line) /\ line \in Nat \ {0} /\ Len(file) \in Nat
         /\ priority \in [Category -> Priority]
         /\ \A i \in 1 .. Len(file) : SettingPriority(file[i].value) # NOTSET
<1>1. file \in Seq(Line)
  <2>1. << >> \in Seq(Line)
    OBVIOUS
  <2>2. file \in Files \cup {<< >>}
    BY DEF TypeOK
  <2> QED
    BY <2>1, <2>2, InputAssumption
<1>2. line \in Nat \ {0} /\ Len(file) \in Nat /\ priority \in [Category -> Priority]
  BY <1>1 DEF TypeOK
<1>3. ASSUME NEW i \in 1 .. Len(file) PROVE SettingPriority(file[i].value) # NOTSET
  <2>1. file[i] \in Line
    BY <1>1
  <2> QED
    BY <2>1, Tables DEF Line
<1> QED
  BY <1>1, <1>2, <1>3

(* Nothing has been read before the first call. *)
LEMMA ParsedInitially == Init => Parsed
<1> SUFFICES ASSUME Init PROVE Parsed
  OBVIOUS
<1>1. TypeOK
  BY TypeInitially
<1> QED
  BY <1>1 DEF Init, Parsed, Settled, InForce, FallbackIsRoot

(* A call changes the priority of a module it names, or pins one that had    *)
(* none; it leaves the file alone.                                           *)
LEMMA CallKeepsParsed ==
  ASSUME Parsed, TypeOK', UNCHANGED init, UNCHANGED gRootPriority,
         adjusted \subseteq adjusted',
         \A c \in Category : \/ priority'[c] = priority[c]
                             \/ c \in adjusted'
                             \/ priority[c] = NOTSET /\ priority'[c] = gRootPriority
  PROVE  Parsed'
<1>1. Settled'
  BY DEF Parsed, Settled, init
<1>2. FallbackIsRoot'
  BY CategoryAssumption DEF Parsed, FallbackIsRoot, init
<1>3. InForce'
  <2>1. UNCHANGED << step, isLogInited, file, line >>
    BY DEF init
  <2> SUFFICES ASSUME step \in {"line", "fallback"} \/ isLogInited,
                      NEW c \in RdkModules \ ({DefaultCategory} \cup adjusted'),
                      NEW i \in 1 .. (line - 1), LastReadFor(c, i)
               PROVE  priority'[c] = SettingPriority(file[i].value)
    BY <2>1 DEF Parsed, InForce, LastReadFor
  <2>2. line <= Len(file) + 1 /\ priority[c] = SettingPriority(file[i].value)
    BY DEF Parsed, InForce
  <2>3. i \in 1 .. Len(file)
    BY <2>2, ReadIsTyped DEF Parsed
  <2> QED
    BY <2>2, <2>3, ReadIsTyped, CategoryAssumption DEF Parsed
<1> QED
  BY <1>1, <1>2, <1>3 DEF Parsed

(* The steps of rdk_logger_init keep Parsed. *)
LEMMA InitStepKeepsParsed ==
  ASSUME Parsed, TypeOK', RdkLoggerInit
  PROVE  Parsed'
<1>0. /\ TypeOK /\ file \in Seq(Line) /\ line \in Nat \ {0} /\ Len(file) \in Nat
      /\ priority \in [Category -> Priority]
  BY ReadIsTyped DEF Parsed
<1>1. Settled' /\ FallbackIsRoot'
  BY DEF Parsed, RdkLoggerInit, StartBackend, OpenConfig, ParseDefault,
     PublishDefault, ParseModule, SkipLine, FinishInit, FailInit, AtLine,
     Settled, FallbackIsRoot, log4c
<1>2. ~ isLogInited
  BY DEF Parsed, Settled, RdkLoggerInit, StartBackend, OpenConfig, ParseDefault,
     PublishDefault, ParseModule, SkipLine, FinishInit, FailInit, AtLine
<1>3. InForce'
  <2>1. CASE StartBackend \/ FailInit
    BY <2>1, <1>2 DEF StartBackend, FailInit, InForce
  <2>2. CASE OpenConfig
    <3>1. step' = "failed" \/ line' = 1
      BY <2>2 DEF OpenConfig
    <3>2. isLogInited' = FALSE /\ (step' = "line" => Len(file') \in Nat)
      <4>1. file' \in Seq(Line) \/ step' # "line"
        BY <2>2, InputAssumption DEF OpenConfig
      <4> QED
        BY <2>2, <1>2, <4>1 DEF OpenConfig
    <3>3. step' \in {"line", "failed"}
      BY <2>2 DEF OpenConfig
    <3> QED
      BY <3>1, <3>2, <3>3 DEF InForce
  <2>3. CASE ParseDefault \/ PublishDefault \/ ParseModule \/ SkipLine
    <3>1. /\ step \in {"line", "fallback"} /\ UNCHANGED << file, isLogInited >>
          /\ line <= Len(file) /\ line' \in {line, line + 1}
      BY <2>3, <1>0 DEF ParseDefault, PublishDefault, ParseModule, SkipLine,
         AtLine, TypeOK
    <3> SUFFICES ASSUME NEW c \in RdkModules \ ({DefaultCategory} \cup adjusted'),
                        NEW i \in 1 .. (line' - 1), file[i].name = c,
                        \A j \in (i + 1) .. (line' - 1) : file[j].name # c
                 PROVE  priority'[c] = SettingPriority(file[i].value)
      <4>1. file' = file /\ isLogInited' = isLogInited /\ line' <= Len(file') + 1
        BY <1>0, <3>1
      <4>2. step' = "fallback" => file'[line'].name = DefaultCategory
        BY <2>3, <1>0, <4>1 DEF ParseDefault, PublishDefault, ParseModule, SkipLine,
           AtLine
      <4> QED
        BY <4>1, <4>2 DEF InForce, LastReadFor
    <3>2. /\ file[i].name = c
          /\ \A j \in (i + 1) .. (line' - 1) : file[j].name # c
      OBVIOUS
    <3>3. CASE line' = line
      <4>1. ParseDefault
        BY <2>3, <3>3, <1>0 DEF PublishDefault, ParseModule, SkipLine
      <4>2. priority'[c] = priority[c] /\ c \notin adjusted
        BY <4>1, <1>0, CategoryAssumption DEF ParseDefault
      <4> QED
        BY <3>1, <3>2, <3>3, <4>2 DEF Parsed, InForce, LastReadFor
    <3>4. CASE line' = line + 1 /\ i = line
      <4>1. ParseModule
        BY <2>3, <3>1, <3>2, <3>4, <1>0 DEF ParseDefault, PublishDefault, SkipLine,
           AtLine, Parsed, InForce
      <4> QED
        BY <4>1, <3>2, <3>4, <1>0, CategoryAssumption DEF ParseModule
    <3>5. CASE line' = line + 1 /\ i # line
      <4>1. i \in 1 .. (line - 1) /\ line \in (i + 1) .. (line' - 1)
        BY <3>5, <1>0
      <4>2. file[line].name # c /\ LastReadFor(c, i)
        BY <4>1, <3>2, <3>5, <1>0 DEF LastReadFor
      <4>3. priority'[c] = priority[c] /\ c \notin adjusted
        BY <2>3, <3>5, <4>2, <1>0, CategoryAssumption
           DEF ParseDefault, PublishDefault, ParseModule, SkipLine, AtLine, log4c
      <4> QED
        BY <3>1, <4>1, <4>2, <4>3 DEF Parsed, InForce
    <3> QED
      BY <3>1, <3>3, <3>4, <3>5
  <2>4. CASE FinishInit
    BY <2>4, <1>0 DEF FinishInit, Parsed, InForce, LastReadFor, log4c
  <2> QED
    BY <2>1, <2>2, <2>3, <2>4 DEF RdkLoggerInit
<1> QED
  BY <1>1, <1>3 DEF Parsed

(* So does every step. *)
LEMMA ParsedKept == Parsed /\ [Next]_vars => Parsed'
<1> SUFFICES ASSUME Parsed, [Next]_vars PROVE Parsed'
  OBVIOUS
<1>0. TypeOK' /\ priority \in [Category -> Priority] /\ adjusted \subseteq Category
  BY TypeKept, TypeParts DEF Parsed, Levels
<1>1. CASE UNCHANGED vars
  BY <1>1, <1>0, CallKeepsParsed DEF vars, init
<1>2. CASE RdkLoggerInit
  BY <1>2, <1>0, InitStepKeepsParsed
<1>3. ASSUME NEW c \in Modules, NEW level \in MessageLevels, Log(c, level)
      PROVE  Parsed'
  BY <1>3, <1>0, CallKeepsParsed, CategoryAssumption DEF Log, Pinned
<1>4. ASSUME NEW c \in Modules, NEW level \in MessageLevels, IsLogLevelEnabled(c, level)
      PROVE  Parsed'
  BY <1>4, <1>0, CallKeepsParsed DEF IsLogLevelEnabled, log4c
<1>5. ASSUME NEW c \in Modules, GetLevel(c) PROVE Parsed'
  BY <1>5, <1>0, CallKeepsParsed DEF GetLevel, log4c
<1>6. ASSUME NEW c \in Adjustable, NEW level \in RuntimeLevels,
             NEW call \in {"set", "enable", "disable"}, SetLevel(call, c, level)
      PROVE  Parsed'
  BY <1>6, <1>0, CallKeepsParsed DEF SetLevel
<1>7. ASSUME NEW c \in Adjustable, NEW level \in RuntimeLevels,
             NEW usable \in BOOLEAN, ExtInit(c, level, usable)
      PROVE  Parsed'
  BY <1>7, <1>0, CallKeepsParsed DEF ExtInit, log4c
<1> QED
  BY <1>1, <1>2, <1>3, <1>4, <1>5, <1>6, <1>7
     DEF Next, SetLogLevel, EnableLogLevel

(* Parsed holds in every behaviour. *)
LEMMA ParsedAlways == Spec => []Parsed
BY ParsedInitially, ParsedKept, PTL DEF Spec

(***************************************************************************)
(* What debug.ini says of a module wins over messages logged while it is   *)
(* read.                                                                   *)
(***************************************************************************)
THEOREM ConfigWinsHolds == Spec => []ConfigWins
<1>1. Parsed => ConfigWins
  BY ReadIsTyped DEF Parsed, Settled, InForce, LastReadFor, ConfigWins, LastLineFor
<1> QED
  BY <1>1, ParsedAlways, PTL

(***************************************************************************)
(* The copy of LOG.RDK's priority that pins unset modules is up to date    *)
(* for as long as no call sets LOG.RDK itself.                             *)
(***************************************************************************)
THEOREM FallbackIsRootHolds == Spec => []FallbackIsRoot
<1>1. Parsed => FallbackIsRoot
  BY DEF Parsed
<1> QED
  BY <1>1, ParsedAlways, PTL

-----------------------------------------------------------------------------
(* What a category with a priority of its own enforces.                      *)
LEMMA OwnPriorityRules ==
  ASSUME NEW own \in [Category -> Priority], NEW c \in Category, own[c] # NOTSET
  PROVE  Chained(own, c) = own[c]
<1>1. Ancestry[c] \in Seq(Category) /\ Len(Ancestry[c]) > 0 /\ Ancestry[c][1] = c
  BY CategoryAssumption
<1> DEFINE path == Ancestry[c]
           Found(i) == own[path[i]] # NOTSET \/ i = Len(path)
           First(i) == Found(i) /\ \A j \in 1 .. (i - 1) : ~ Found(j)
<1>2. First(1) /\ 1 \in 1 .. Len(path)
  BY <1>1
<1>3. \A i \in 1 .. Len(path) : First(i) => i = 1
  BY <1>1
<1>4. (CHOOSE i \in 1 .. Len(path) : First(i)) = 1
  BY <1>2, <1>3
<1> QED
  BY <1>1, <1>4 DEF Chained

(* A priority lets through the levels that its level lets through. *)
LEMMA PriorityAgrees ==
  ASSUME NEW p \in Priority \ {NOTSET, UNKNOWN}, NEW level \in MessageLevel
  PROVE  p >= LevelToPriority(level) <=> Passes(PriorityToLevel(p), level)
BY DEF Priority, MessagePriority, MessageLevel, LevelToPriority, PriorityToLevel,
       Passes, NOTSET, UNKNOWN, SILENT, FATAL, ERROR, WARN, NOTICE, INFO, DEBUG,
       TRACE, NONE

(* Without calls that ask for NONE no category ever gets the priority that   *)
(* NONE is translated to.                                                    *)
NeverUnknown ==
  gRootPriority # UNKNOWN /\ \A c \in Category : priority[c] # UNKNOWN

(* No level but NONE, and no value in the file, has the priority UNKNOWN. *)
LEMMA KnownTables ==
  /\ \A l \in Level \ {NONE} : LevelToPriority(l) # UNKNOWN
  /\ \A v \in Setting : SettingPriority(v) # UNKNOWN
BY DEF LevelToPriority, SettingPriority, Level, MessageLevel, Setting,
       Unrecognised, UNKNOWN, SILENT, FATAL, ERROR, WARN, NOTICE, INFO, DEBUG,
       TRACE, NONE

(* Without calls for NONE no category gets that priority. *)
LEMMA NeverUnknownKept ==
  ASSUME NONE \notin RuntimeLevels, TypeOK, NeverUnknown, [Next]_vars
  PROVE  NeverUnknown'
<1>0. /\ priority \in [Category -> Priority] /\ gRootCat \in {NoCategory, RdkRoot}
      /\ RuntimeLevels \subseteq Level \ {NONE}
      /\ LevelToPriority(WARN) # UNKNOWN
  BY KnownTables, InputAssumption DEF TypeOK, LevelToPriority, WARN, FATAL, ERROR,
     UNKNOWN
<1>1. CASE UNCHANGED vars
  BY <1>1 DEF vars, NeverUnknown
<1>2. CASE RdkLoggerInit
  <2>1. CASE ParseDefault \/ ParseModule
    BY <2>1, <1>0, LineRead, KnownTables DEF ParseDefault, ParseModule, NeverUnknown
  <2>2. CASE StartBackend
    BY <2>2, <1>0 DEF StartBackend, NeverUnknown
  <2>3. CASE OpenConfig \/ PublishDefault \/ SkipLine \/ FinishInit \/ FailInit
    BY <2>3, <1>0, CategoryAssumption DEF OpenConfig, PublishDefault, SkipLine,
       FinishInit, FailInit, NeverUnknown, log4c
  <2> QED
    BY <1>2, <2>1, <2>2, <2>3 DEF RdkLoggerInit
<1>3. ASSUME NEW c \in Modules, NEW level \in MessageLevels, Log(c, level)
      PROVE  NeverUnknown'
  BY <1>3, <1>0 DEF Log, Pinned, NeverUnknown
<1>4. ASSUME NEW c \in Modules, NEW level \in MessageLevels,
             IsLogLevelEnabled(c, level) \/ GetLevel(c)
      PROVE  NeverUnknown'
  BY <1>4 DEF IsLogLevelEnabled, GetLevel, NeverUnknown, log4c
<1>5. ASSUME NEW c \in Modules, GetLevel(c) PROVE NeverUnknown'
  BY <1>5 DEF GetLevel, NeverUnknown, log4c
<1>6. ASSUME NEW c \in Adjustable, NEW level \in RuntimeLevels,
             NEW call \in {"set", "enable", "disable"}, SetLevel(call, c, level)
      PROVE  NeverUnknown'
  BY <1>6, <1>0, KnownTables DEF SetLevel, NeverUnknown
<1>7. ASSUME NEW c \in Adjustable, NEW level \in RuntimeLevels,
             NEW usable \in BOOLEAN, ExtInit(c, level, usable)
      PROVE  NeverUnknown'
  BY <1>7, <1>0, KnownTables DEF ExtInit, NeverUnknown, log4c
<1> QED
  BY <1>1, <1>2, <1>3, <1>4, <1>5, <1>6, <1>7
     DEF Next, SetLogLevel, EnableLogLevel

(* What is told is what is enforced, in any state without that priority. *)
LEMMA ReportedIsEnforcedNow ==
  ASSUME TypeOK, NeverUnknown
  PROVE  ReportedIsEnforced
<1> SUFFICES ASSUME gRootPriority # NOTSET,
                    NEW c \in Category, NEW level \in MessageLevel
             PROVE  WouldLog(c, level) <=> Passes(Reported(c), level)
  BY DEF ReportedIsEnforced
<1>0. Decider(c) = c /\ c # NoCategory
  BY CategoryAssumption DEF Decider
<1>1. priority \in [Category -> Priority] /\ gRootPriority \in Priority
  BY DEF TypeOK
<1> DEFINE p == IF priority[c] = NOTSET THEN gRootPriority ELSE priority[c]
<1>2. p \in Priority \ {NOTSET, UNKNOWN}
  BY <1>1 DEF NeverUnknown
<1>3. Pinned(c) \in [Category -> Priority] /\ Pinned(c)[c] = p
  BY <1>1 DEF Pinned
<1>4. Chained(Pinned(c), c) = p
  BY <1>2, <1>3, OwnPriorityRules
<1> QED
  BY <1>0, <1>2, <1>4, PriorityAgrees DEF WouldLog, Enabled, Reported

(***************************************************************************)
(* What rdk_logger_get_logLevel tells and what RDK_LOG enforces can differ *)
(* for one reason only, whatever is called and in what order: a category   *)
(* or the fallback has the priority 1000 that NONE is translated to.       *)
(***************************************************************************)
THEOREM ReportedUnlessUnknown == Spec => [](NeverUnknown => ReportedIsEnforced)
<1>1. TypeOK => (NeverUnknown => ReportedIsEnforced)
  BY ReportedIsEnforcedNow
<1> QED
  BY <1>1, TypeCorrect, PTL

(***************************************************************************)
(* rdk_logger_get_logLevel tells the level that RDK_LOG enforces, in any   *)
(* hierarchy of names and at any moment of an initialisation, provided no  *)
(* call asks for NONE.                                                     *)
(***************************************************************************)
THEOREM ReportedIsEnforcedHolds ==
  ASSUME NONE \notin RuntimeLevels
  PROVE  Spec => []ReportedIsEnforced
<1>1. Init => NeverUnknown
  BY DEF Init, NeverUnknown, LevelToPriority, NOTSET, UNKNOWN, WARN, FATAL, ERROR
<1>2. TypeOK /\ NeverUnknown /\ [Next]_vars => NeverUnknown'
  BY NeverUnknownKept
<1>3. TypeOK /\ NeverUnknown => ReportedIsEnforced
  BY ReportedIsEnforcedNow
<1> QED
  BY <1>1, <1>2, <1>3, TypeCorrect, PTL DEF Spec

-----------------------------------------------------------------------------
(* Messages under the empty name.                                            *)

(* From the opening of the first file on LOG.RDK stands in for a name that   *)
(* log4c has no category for.                                                *)
RootFound ==
  step \in {"line", "fallback", "failed"} \/ isLogInited => gRootCat = RdkRoot

(* Every step keeps it: only opening a file writes gRootCat. *)
LEMMA RootFoundKept == RootFound /\ [Next]_vars => RootFound'
<1> SUFFICES ASSUME RootFound, [Next]_vars PROVE RootFound'
  OBVIOUS
<1>1. CASE RdkLoggerInit
  BY <1>1 DEF RootFound, RdkLoggerInit, StartBackend, OpenConfig, ParseDefault,
     PublishDefault, ParseModule, SkipLine, FinishInit, FailInit, AtLine
<1>2. CASE UNCHANGED init
  BY <1>2 DEF RootFound, init
<1>3. UNCHANGED init \/ RdkLoggerInit
  BY DEF Next, vars, init, Log, IsLogLevelEnabled, GetLevel, SetLogLevel,
     EnableLogLevel, SetLevel, ExtInit
<1> QED
  BY <1>1, <1>2, <1>3

(* What decides on such a message in a state the parser can leave. *)
LEMMA NamelessNow ==
  ASSUME Parsed, RootFound
  PROVE  NamelessLikeUnset
<1> SUFFICES ASSUME isLogInited, RdkRoot \notin adjusted, gRootPriority # NOTSET,
                    NEW c \in Category, NEW level \in MessageLevel,
                    priority[c] = NOTSET
             PROVE  WouldLog(NoName, level) <=> WouldLog(c, level)
  BY DEF NamelessLikeUnset
<1>1. /\ priority \in [Category -> Priority] /\ gRootPriority \in Priority
      /\ RdkRoot \in Category /\ gRootPriority = priority[RdkRoot]
  BY CategoryAssumption DEF Parsed, TypeOK, FallbackIsRoot
<1>2. /\ Decider(NoName) = RdkRoot /\ Pinned(NoName) = priority
      /\ Decider(c) = c /\ RdkRoot # NoCategory /\ c # NoCategory
  BY CategoryAssumption DEF Decider, RootFound, Pinned
<1>3. Chained(priority, RdkRoot) = gRootPriority
  BY <1>1, OwnPriorityRules
<1>4. Chained(Pinned(c), c) = gRootPriority
  <2>1. Pinned(c) \in [Category -> Priority] /\ Pinned(c)[c] = gRootPriority
    BY <1>1 DEF Pinned
  <2> QED
    BY <2>1, OwnPriorityRules
<1> QED
  BY <1>2, <1>3, <1>4 DEF WouldLog, Enabled

(***************************************************************************)
(* A message under the empty name is treated as one of a module nobody has *)
(* configured, whatever was logged or set before and however often the     *)
(* initialisation was tried.                                               *)
(***************************************************************************)
THEOREM NamelessLikeUnsetHolds == Spec => []NamelessLikeUnset
<1>1. Init => RootFound
  BY DEF Init, RootFound
<1>2. Parsed /\ RootFound => NamelessLikeUnset
  BY NamelessNow
<1> QED
  BY <1>1, <1>2, RootFoundKept, ParsedAlways, PTL DEF Spec

-----------------------------------------------------------------------------
(* Before the first rdk_logger_init that succeeds.                           *)

Warning == LevelToPriority(WARN)

(* Until a file is read, LOG.RDK has WARN from the moment log4c is up, the   *)
(* fallback and all that was pinned to it WARN or nothing, and nothing has   *)
(* an appender while log4c is not up.  The fallback is behind only between   *)
(* a successful loading of log4c and the end of the same call.               *)
Quiet ==
  /\ ~ backendReady /\ ~ isLogInited => appending = {}
  /\ ~ isLogInited /\ step \in {"idle", "open", "failed"} /\ RdkRoot \notin adjusted
     =>
       /\ backendReady => priority[RdkRoot] = Warning
       /\ gRootPriority \in {Warning, NOTSET}
       /\ step = "idle" /\ backendReady => gRootPriority = Warning
       /\ \A c \in Category \ adjusted : priority[c] \in {Warning, NOTSET}

(* A failed initialisation, and what is called between two, keep it. *)
LEMMA QuietKept ==
  ASSUME TypeOK, Quiet, [Next]_vars
  PROVE  Quiet'
<1>0. priority \in [Category -> Priority] /\ RdkRoot \in Category
  BY CategoryAssumption DEF TypeOK
<1>1. CASE UNCHANGED vars
  BY <1>1 DEF Quiet, vars, Warning
<1>2. CASE StartBackend
  BY <1>2, <1>0 DEF StartBackend, Quiet, Warning
<1>3. CASE OpenConfig
  BY <1>3 DEF OpenConfig, Quiet, Warning, log4c
<1>4. CASE ParseDefault \/ PublishDefault \/ ParseModule \/ SkipLine
  BY <1>4 DEF ParseDefault, PublishDefault, ParseModule, SkipLine, AtLine, Quiet,
     log4c
<1>5. CASE FinishInit
  BY <1>5 DEF FinishInit, Quiet
<1>6. CASE FailInit
  BY <1>6, <1>0 DEF FailInit, Quiet, Warning, log4c
<1>7. ASSUME NEW c \in Modules, NEW level \in MessageLevels, Log(c, level)
      PROVE  Quiet'
  <2>1. UNCHANGED << appending, backendReady, gRootPriority, isLogInited, step,
                     adjusted >>
    BY <1>7 DEF Log, init
  <2>2. priority' = priority \/ priority' = Pinned(c)
    BY <1>7 DEF Log
  <2>3. \A d \in Category :
          \/ priority'[d] = priority[d]
          \/ priority[d] = NOTSET /\ priority'[d] = gRootPriority
    BY <2>2, <1>0 DEF Pinned
  <2>4. Warning # NOTSET
    BY DEF Warning, LevelToPriority, WARN, FATAL, ERROR, NOTSET
  <2> QED
    BY <2>1, <2>3, <2>4, <1>0 DEF Quiet, Warning
<1>8. ASSUME NEW c \in Modules, NEW level \in MessageLevels,
             IsLogLevelEnabled(c, level)
      PROVE  Quiet'
  BY <1>8 DEF IsLogLevelEnabled, Quiet, Warning, log4c, init
<1>9. ASSUME NEW c \in Modules, GetLevel(c) PROVE Quiet'
  BY <1>9 DEF GetLevel, Quiet, Warning, log4c, init
<1>10. ASSUME NEW c \in Adjustable, NEW level \in RuntimeLevels,
              NEW call \in {"set", "enable", "disable"}, SetLevel(call, c, level)
       PROVE  Quiet'
  BY <1>10, <1>0 DEF SetLevel, Quiet, Warning, init
<1>11. ASSUME NEW c \in Adjustable, NEW level \in RuntimeLevels,
              NEW usable \in BOOLEAN, ExtInit(c, level, usable)
       PROVE  Quiet'
  BY <1>11 DEF ExtInit, Quiet, init
<1> QED
  BY <1>1, <1>2, <1>3, <1>4, <1>5, <1>6, <1>7, <1>8, <1>9, <1>10, <1>11
     DEF Next, RdkLoggerInit, SetLogLevel, EnableLogLevel

(* In such a state a category that nobody has set lets WARN and above pass. *)
LEMMA QuietNow ==
  ASSUME TypeOK, Quiet
  PROVE  WarnUntilInit
<1> SUFFICES ASSUME step = "idle", ~ isLogInited, RdkRoot \notin adjusted,
                    NEW c \in (Category \cup {NoName}) \ adjusted,
                    NEW level \in MessageLevel, WouldLog(c, level),
                    Appenders(Decider(c)) # {}
             PROVE  level <= WARN
  BY DEF WarnUntilInit
<1>1. /\ priority \in [Category -> Priority] /\ gRootPriority \in Priority
      /\ RdkRoot \in Category /\ gRootCat \in {NoCategory, RdkRoot}
      /\ NoName \notin Category /\ NoCategory \notin Category
  BY CategoryAssumption DEF TypeOK
<1>2. backendReady
  BY DEF Quiet, Appenders
<1>3. /\ gRootPriority = Warning /\ priority[RdkRoot] = Warning
      /\ \A d \in Category \ adjusted : priority[d] \in {Warning, NOTSET}
  BY <1>2 DEF Quiet
<1>4. Warning = 400 /\ NOTSET = 900
  BY DEF Warning, LevelToPriority, FATAL, ERROR, WARN, NOTICE, INFO, DEBUG, TRACE,
     NOTSET, UNKNOWN
<1>5. /\ Decider(c) \in Category
      /\ Pinned(c) \in [Category -> Priority]
      /\ Pinned(c)[Decider(c)] = Warning
  BY <1>1, <1>3, <1>4 DEF WouldLog, Decider, Pinned
<1>6. Chained(Pinned(c), Decider(c)) = 400
  BY <1>4, <1>5, OwnPriorityRules
<1>7. 400 >= LevelToPriority(level)
  BY <1>6 DEF WouldLog, Enabled
<1> QED
  BY <1>7 DEF LevelToPriority, MessageLevel, FATAL, ERROR, WARN, NOTICE, INFO,
     DEBUG, TRACE

(***************************************************************************)
(* However often rdk_logger_init has failed, and whatever was logged in    *)
(* between, nothing below WARN is printed before it succeeds, but of       *)
(* modules that a call has set.                                            *)
(***************************************************************************)
THEOREM WarnUntilInitHolds == Spec => []WarnUntilInit
<1>1. Init => Quiet
  BY DEF Init, Quiet, Warning
<1>2. TypeOK /\ Quiet /\ [Next]_vars => Quiet'
  BY QuietKept
<1>3. TypeOK /\ Quiet => WarnUntilInit
  BY QuietNow
<1> QED
  BY <1>1, <1>2, <1>3, TypeCorrect, PTL DEF Spec

-----------------------------------------------------------------------------
(* Appenders.                                                                *)

(* Once log4c is up LOG.RDK has an appender for good; any other category     *)
(* that has one, and no other but LOG.RDK, keeps its messages to itself.     *)
OneOutlet ==
  /\ backendReady => RdkRoot \in appending
  /\ appending \subseteq Adjustable \cup {RdkRoot}
  /\ appending \cap additive \subseteq {RdkRoot}
  /\ Category \ additive \subseteq appending

(* Every step keeps the way of each message to one appender. *)
LEMMA OneOutletKept ==
  ASSUME TypeOK, OneOutlet, [Next]_vars
  PROVE  OneOutlet'
<1> USE DEF OneOutlet
<1>1. CASE UNCHANGED << appending, additive, backendReady >>
  BY <1>1
<1>2. CASE StartBackend
  BY <1>2 DEF StartBackend
<1>3. ASSUME NEW c \in Adjustable, NEW level \in RuntimeLevels,
             NEW usable \in BOOLEAN, ExtInit(c, level, usable)
      PROVE  OneOutlet'
  <2>1. backendReady' = backendReady
    BY <1>3 DEF ExtInit, init
  <2> DEFINE d == IF c = NoCategory THEN gRootCat ELSE c
  <2>2. CASE d \in Category /\ usable
    <3>1. appending' = appending \cup {d} /\ additive' = additive \ {d}
      BY <1>3, <2>2 DEF ExtInit
    <3>2. d \in Adjustable \cup {RdkRoot}
      BY <2>2, CategoryAssumption DEF TypeOK
    <3> QED
      BY <2>1, <3>1, <3>2
  <2>3. CASE ~ (d \in Category /\ usable)
    BY <1>3, <2>1, <2>3 DEF ExtInit, log4c
  <2> QED
    BY <2>2, <2>3
<1> QED
  BY <1>1, <1>2, <1>3 DEF Next, vars, RdkLoggerInit, OpenConfig, ParseDefault,
     PublishDefault, ParseModule, SkipLine, FinishInit, FailInit, Log,
     IsLogLevelEnabled, GetLevel, SetLogLevel, EnableLogLevel, SetLevel, log4c,
     init

(* On the way up from a module of LOG.RDK log4c comes to one category with an *)
(* appender at most: only LOG.RDK passes messages on to another, and nothing *)
(* above it has one.                                                         *)
LEMMA OnlyOutlet ==
  ASSUME OneOutlet, NEW c \in RdkModules \cup {RdkRoot},
         NEW m \in Appenders(c), NEW i \in Appenders(c)
  PROVE  m = i
<1> DEFINE path == Ancestry[c]
<1>1. path \in Seq(Category)
  BY CategoryAssumption
<1>2. PICK r \in 1 .. Len(path) :
        /\ path[r] = RdkRoot
        /\ \A j \in 1 .. Len(path) :
             /\ path[j] = RdkRoot => j = r
             /\ j > r => path[j] \notin Adjustable
  BY TreeAssumption
<1>3. ASSUME NEW x \in Appenders(c), NEW y \in Appenders(c), x < y
      PROVE  FALSE
  <2>1. /\ x \in 1 .. Len(path) /\ path[x] \in appending
        /\ y \in 1 .. Len(path) /\ path[y] \in appending
        /\ \A j \in 1 .. (y - 1) : path[j] \in additive
    BY DEF Appenders
  <2>2. x \in 1 .. (y - 1)
    BY <1>1, <1>3, <2>1
  <2>3. path[x] = RdkRoot
    BY <2>1, <2>2 DEF OneOutlet
  <2>4. path[y] \notin Adjustable /\ path[y] # RdkRoot
    BY <1>2, <1>3, <2>1, <2>3
  <2> QED
    BY <2>1, <2>4 DEF OneOutlet
<1>4. m \in Nat /\ i \in Nat
  BY <1>1 DEF Appenders
<1> QED
  BY <1>3, <1>4

(* Once log4c is up it comes to LOG.RDK's at the latest. *)
LEMMA SomeOutlet ==
  ASSUME OneOutlet, backendReady, NEW c \in RdkModules \cup {RdkRoot}
  PROVE  Appenders(c) # {}
<1> DEFINE path == Ancestry[c]
           Holding == { i \in 1 .. Len(path) : path[i] \in appending }
<1>1. path \in Seq(Category)
  BY CategoryAssumption
<1>2. PICK m \in Holding : \A i \in Holding : m <= i
  <2>1. Holding # {} /\ Holding \in SUBSET Nat
    BY <1>1, TreeAssumption DEF OneOutlet
  <2> HIDE DEF Holding
  <2> QED
    BY <2>1, LeastElement
<1>3. \A j \in 1 .. (m - 1) : path[j] \in additive
  <2> SUFFICES ASSUME NEW j \in 1 .. (m - 1) PROVE path[j] \in additive
    OBVIOUS
  <2>1. j \in 1 .. Len(path) /\ j \notin Holding
    BY <1>1, <1>2
  <2> QED
    BY <1>1, <2>1 DEF OneOutlet
<1>4. m \in Appenders(c)
  BY <1>2, <1>3 DEF Appenders
<1> QED
  BY <1>4

(***************************************************************************)
(* A message for LOG.RDK or below never reaches two appenders, in whatever *)
(* order parents and children were given their own, and once log4c is up   *)
(* it reaches one.                                                         *)
(***************************************************************************)
THEOREM OneAppenderHolds == Spec => []OneAppender
<1>1. Init => OneOutlet
  BY DEF Init, OneOutlet
<1>2. TypeOK /\ OneOutlet /\ [Next]_vars => OneOutlet'
  BY OneOutletKept
<1>3. OneOutlet => OneAppender
  <2> SUFFICES ASSUME OneOutlet, NEW c \in RdkModules \cup {RdkRoot}
               PROVE  /\ Cardinality(Appenders(c)) <= 1
                      /\ backendReady => Appenders(c) # {}
    BY DEF OneAppender
  <2>1. CASE Appenders(c) = {}
    BY <2>1, SomeOutlet, FS_EmptySet
  <2>2. CASE Appenders(c) # {}
    <3>1. PICK m : Appenders(c) = {m}
      BY <2>2, OnlyOutlet
    <3>2. Cardinality(Appenders(c)) = 1
      BY <3>1, FS_Singleton
    <3> QED
      BY <2>2, <3>2
  <2> QED
    BY <2>1, <2>2
<1> QED
  BY <1>1, <1>2, <1>3, TypeCorrect, PTL DEF Spec

=============================================================================
