-------------------------- MODULE LevelPolicy_proofs --------------------------
(***************************************************************************)
(* LevelControl implements LevelPolicy wherever it is used as documented:  *)
(* for every debug.ini, set of modules, and sequence of calls.             *)
(***************************************************************************)
EXTENDS LevelControl_proofs

(* How many lines have been applied.  A line for DEFAULT counts as soon as   *)
(* LOG.RDK has its priority, before gRootPriority has.                       *)
Applied == IF step = "fallback" THEN line ELSE line - 1

DefaultsRead ==
  { i \in 1 .. Applied : /\ file[i].name = DefaultCategory
                         /\ file[i].value # Unrecognised }

IsReading == step \in {"line", "fallback"}

(* While initialisation goes on, every priority is what the lines applied so *)
(* far make it and log4crc's otherwise: nobody logs yet, so nothing is       *)
(* pinned, and a retry after a missing file finds all as it was.             *)
ModulesFollowFile ==
  ~ isLogInited =>
    \A c \in RdkModules \ {DefaultCategory} :
      (IsReading => \A i \in 1 .. Applied : file[i].name # c)
        => priority[c] = NOTSET

RootFollowsFile ==
  /\ ~ isLogInited /\ backendReady /\ (IsReading => DefaultsRead = {})
       => priority[RdkRoot] = LevelToPriority(WARN)
  /\ IsReading =>
       \A i \in DefaultsRead : (\A j \in DefaultsRead : j <= i)
         => priority[RdkRoot] = SettingPriority(file[i].value)

(* Calls come after initialisation, name modules only and never ask for      *)
(* silence; so LOG.RDK, and the copy of its priority, are always set.        *)
Orderly ==
  /\ adjusted \subseteq Adjustable
  /\ ~ isLogInited => adjusted = {}
  /\ step # "idle" \/ isLogInited => backendReady
  /\ IsReading => file \in Files
  /\ backendReady => priority[RdkRoot] # NOTSET
  /\ gRootPriority # NOTSET

Documented ==
  Parsed /\ NeverUnknown /\ Orderly /\ ModulesFollowFile /\ RootFollowsFile

-----------------------------------------------------------------------------
(* A step is one of rdk_logger_init before it has succeeded, a call after,   *)
(* or none at all.                                                           *)
LEMMA StepsInOrder ==
  ASSUME DocumentedUse, Parsed, [Next]_vars
  PROVE  \/ ~ isLogInited /\ RdkLoggerInit
         \/ isLogInited /\ UNCHANGED init
         \/ UNCHANGED vars
<1>1. CASE RdkLoggerInit
  BY <1>1 DEF Parsed, Settled, RdkLoggerInit, StartBackend, OpenConfig,
     ParseDefault, PublishDefault, ParseModule, SkipLine, FinishInit, FailInit,
     AtLine
<1>2. CASE Next /\ ~ RdkLoggerInit
  BY <1>2 DEF DocumentedUse, Next, MayCall, Log, IsLogLevelEnabled, GetLevel,
     SetLogLevel, EnableLogLevel, SetLevel, ExtInit
<1> QED
  BY <1>1, <1>2

(* What documented use says of the constants. *)
LEMMA DocumentedTypes ==
  ASSUME DocumentedUse
  PROVE  /\ RdkRoot \notin Adjustable /\ Adjustable \subseteq Category
         /\ Modules \subseteq Category /\ RdkRoot \in Category
         /\ LevelToPriority(WARN) # NOTSET
         /\ \A l \in RuntimeLevels : l \in Level \ {NONE} /\ LevelToPriority(l) # NOTSET
<1>1. RdkRoot \notin Adjustable /\ Adjustable \subseteq Category
  BY CategoryAssumption DEF DocumentedUse
<1>2. Modules \subseteq Category /\ RdkRoot \in Category
  BY CategoryAssumption DEF DocumentedUse
<1>3. \A l \in Level : LevelToPriority(l) # NOTSET
  BY Tables
<1> QED
  BY <1>1, <1>2, <1>3, InputAssumption, Distinct DEF DocumentedUse

(* Every step keeps the order of documented use. *)
LEMMA OrderlyKept ==
  ASSUME DocumentedUse, Parsed, Orderly, [Next]_vars
  PROVE  Orderly'
<1> USE DEF Orderly
<1>0. /\ priority \in [Category -> Priority]
      /\ gRootCat \in {NoCategory, RdkRoot}
      /\ step \in {"idle", "open", "line", "fallback", "failed"}
  BY DEF Parsed, TypeOK
<1>1. CASE ~ isLogInited /\ RdkLoggerInit
  <2> USE DEF IsReading
  <2>1. CASE StartBackend
    <3>1. backendReady' /\ step' = "open" /\ UNCHANGED << adjusted, isLogInited, gRootPriority >>
      BY <2>1 DEF StartBackend, DocumentedUse
    <3>2. priority'[RdkRoot] # NOTSET
      BY <1>0, <2>1, DocumentedTypes DEF StartBackend, DocumentedUse
    <3> QED
      BY <1>1, <3>1, <3>2
  <2>2. CASE OpenConfig
    BY <1>1, <2>2 DEF OpenConfig, log4c
  <2>3. CASE ParseDefault
    BY <1>0, <1>1, <2>3, LineRead, Tables, DocumentedTypes
       DEF ParseDefault, AtLine, Parsed
  <2>4. CASE ParseModule
    BY <1>0, <1>1, <2>4, CategoryAssumption DEF ParseModule, AtLine
  <2>5. CASE PublishDefault \/ SkipLine
    BY <1>1, <2>5 DEF PublishDefault, SkipLine, AtLine, log4c
  <2>6. CASE FinishInit \/ FailInit
    BY <1>1, <2>6 DEF FinishInit, FailInit, log4c
  <2> QED
    BY <1>1, <2>1, <2>2, <2>3, <2>4, <2>5, <2>6 DEF RdkLoggerInit
<1>2. CASE isLogInited /\ UNCHANGED init /\ Next
  <2>1. backendReady /\ ~ IsReading
    BY <1>2 DEF Parsed, Settled, IsReading
  <2>2. ~ RdkLoggerInit
    BY <1>2 DEF Parsed, Settled, RdkLoggerInit, StartBackend, OpenConfig,
       ParseDefault, PublishDefault, ParseModule, SkipLine, FinishInit, FailInit,
       AtLine
  <2>3. ASSUME UNCHANGED gRootPriority, adjusted' \subseteq Adjustable,
               priority'[RdkRoot] # NOTSET
        PROVE  Orderly'
    BY <1>2, <2>1, <2>3 DEF init, IsReading
  <2>4. ASSUME NEW c \in Modules, NEW level \in MessageLevels, Log(c, level)
        PROVE  Orderly'
    BY <1>0, <2>1, <2>3, <2>4, DocumentedTypes DEF Log, Pinned
  <2>5. ASSUME NEW c \in Modules, NEW level \in MessageLevels,
               IsLogLevelEnabled(c, level)
        PROVE  Orderly'
    BY <2>1, <2>3, <2>5 DEF IsLogLevelEnabled, log4c
  <2>6. ASSUME NEW c \in Modules, GetLevel(c) PROVE Orderly'
    BY <2>1, <2>3, <2>6 DEF GetLevel, log4c
  <2>7. ASSUME NEW c \in Adjustable, NEW level \in RuntimeLevels,
               NEW call \in {"set", "enable", "disable"}, SetLevel(call, c, level)
        PROVE  Orderly'
    BY <1>0, <2>1, <2>3, <2>7, DocumentedTypes DEF SetLevel
  <2>8. ASSUME NEW c \in Adjustable, NEW level \in RuntimeLevels,
               NEW usable \in BOOLEAN, ExtInit(c, level, usable)
        PROVE  Orderly'
    <3>1. c # NoCategory /\ c # RdkRoot
      BY DocumentedTypes, CategoryAssumption
    <3> QED
      BY <1>0, <2>1, <2>3, <2>8, <3>1, DocumentedTypes DEF ExtInit, log4c
  <2> QED
    BY <1>2, <2>2, <2>4, <2>5, <2>6, <2>7, <2>8, DocumentedTypes
       DEF Next, SetLogLevel, EnableLogLevel
<1>3. CASE UNCHANGED vars
  BY <1>3 DEF vars, IsReading
<1> QED
  BY <1>1, <1>2, <1>3, StepsInOrder

(* One more line is applied. *)
LEMMA NextLine ==
  ASSUME Parsed, AtLine
  PROVE  /\ line \in 1 .. Len(file) /\ file \in Seq(Line)
         /\ Applied = line - 1
         /\ 1 .. line = (1 .. Applied) \cup {line}
         /\ line \notin 1 .. Applied
         /\ \A i \in 1 .. Applied : i < line
<1>1. line \in 1 .. Len(file) /\ file \in Seq(Line)
  BY LineRead DEF Parsed
<1> QED
  BY <1>1 DEF Applied, AtLine

(* During initialisation the levels are what the lines read so far say. *)
LEMMA FollowKept ==
  ASSUME DocumentedUse, Parsed, Orderly, ModulesFollowFile, RootFollowsFile,
         [Next]_vars
  PROVE  ModulesFollowFile' /\ RootFollowsFile'
<1>0. /\ priority \in [Category -> Priority] /\ RdkRoot \in Category \ RdkModules
      /\ DefaultCategory \in RdkModules /\ RdkModules \subseteq Category
      /\ step \in {"idle", "open", "line", "fallback", "failed"}
      /\ line \in Nat \ {0}
  BY CategoryAssumption DEF Parsed, TypeOK
<1>1. CASE ~ isLogInited /\ RdkLoggerInit
  <2>1. CASE StartBackend
    <3>1. /\ ~ IsReading /\ ~ IsReading' /\ ~ isLogInited'
          /\ \A c \in RdkModules : priority'[c] = priority[c]
      BY <1>0, <1>1, <2>1 DEF StartBackend, IsReading
    <3>2. ModulesFollowFile'
      BY <1>1, <3>1 DEF ModulesFollowFile
    <3>3. priority'[RdkRoot] = LevelToPriority(WARN)
      BY <1>0, <1>1, <2>1, <3>1 DEF StartBackend, RootFollowsFile, DocumentedUse
    <3> QED
      BY <3>1, <3>2, <3>3 DEF RootFollowsFile
  <2>2. CASE OpenConfig
    <3>1. /\ ~ IsReading /\ UNCHANGED << priority, backendReady, isLogInited >>
          /\ IsReading' => Applied' = 0
      BY <1>0, <2>2 DEF OpenConfig, log4c, IsReading, Applied
    <3>2. ModulesFollowFile'
      BY <1>1, <3>1 DEF ModulesFollowFile
    <3>3. IsReading' => DefaultsRead' = {}
      BY <3>1 DEF DefaultsRead
    <3> QED
      BY <1>1, <3>1, <3>2, <3>3 DEF RootFollowsFile
  <2>3. CASE ParseDefault
    <3>1. /\ IsReading /\ IsReading' /\ UNCHANGED << file, backendReady, isLogInited >>
          /\ Applied' = line
          /\ file[line].name = DefaultCategory
          /\ \A c \in RdkModules : priority'[c] = priority[c]
      BY <1>0, <2>3 DEF ParseDefault, AtLine, IsReading, Applied
    <3>2. ModulesFollowFile'
      <4>1. \A i \in 1 .. Applied : i \in 1 .. Applied'
        BY <2>3, <3>1, NextLine DEF ParseDefault
      <4> QED
        BY <1>1, <3>1, <4>1 DEF ModulesFollowFile
    <3>3. CASE file[line].value = Unrecognised
      <4>1. DefaultsRead' = DefaultsRead /\ UNCHANGED priority
        BY <2>3, <3>1, <3>3, NextLine DEF ParseDefault, DefaultsRead
      <4> QED
        BY <3>1, <3>2, <4>1 DEF RootFollowsFile
    <3>4. CASE file[line].value # Unrecognised
      <4>1. line \in DefaultsRead' /\ \A i \in DefaultsRead' : i <= line
        BY <1>0, <2>3, <3>1, <3>4, NextLine DEF ParseDefault, DefaultsRead
      <4>2. priority'[RdkRoot] = SettingPriority(file[line].value)
        BY <1>0, <2>3, <3>4 DEF ParseDefault
      <4>3. \A i \in DefaultsRead' : (\A j \in DefaultsRead' : j <= i) => i = line
        BY <1>0, <3>1, <4>1 DEF DefaultsRead
      <4> QED
        BY <3>1, <3>2, <4>1, <4>2, <4>3 DEF RootFollowsFile
    <3> QED
      BY <3>3, <3>4
  <2>4. CASE PublishDefault
    <3>1. /\ IsReading /\ IsReading'
          /\ UNCHANGED << file, priority, backendReady, isLogInited >>
          /\ Applied' = Applied
      BY <1>0, <2>4 DEF PublishDefault, log4c, IsReading, Applied
    <3>2. DefaultsRead' = DefaultsRead
      BY <3>1 DEF DefaultsRead
    <3> QED
      BY <3>1, <3>2 DEF ModulesFollowFile, RootFollowsFile
  <2>5. CASE ParseModule \/ SkipLine
    <3>1. /\ IsReading /\ IsReading' /\ AtLine
          /\ UNCHANGED << file, backendReady, isLogInited >>
          /\ Applied' = line
          /\ file[line].name # DefaultCategory
          /\ \A c \in Category \ {file[line].name} : priority'[c] = priority[c]
          /\ priority'[RdkRoot] = priority[RdkRoot]
      BY <1>0, <2>5 DEF ParseModule, SkipLine, AtLine, IsReading, Applied, log4c
    <3>2. ModulesFollowFile'
      <4>1. line \in 1 .. Applied' /\ \A i \in 1 .. Applied : i \in 1 .. Applied'
        BY <3>1, NextLine
      <4> QED
        BY <1>0, <1>1, <3>1, <4>1 DEF ModulesFollowFile
    <3>3. DefaultsRead' = DefaultsRead
      BY <3>1, NextLine DEF DefaultsRead
    <3> QED
      BY <3>1, <3>2, <3>3 DEF RootFollowsFile
  <2>6. CASE FinishInit
    BY <2>6 DEF FinishInit, ModulesFollowFile, RootFollowsFile, IsReading
  <2>7. CASE FailInit
    BY <2>7 DEF FailInit, ModulesFollowFile, RootFollowsFile, IsReading, log4c
  <2> QED
    BY <1>1, <2>1, <2>2, <2>3, <2>4, <2>5, <2>6, <2>7 DEF RdkLoggerInit
<1>2. CASE isLogInited /\ UNCHANGED init
  BY <1>2 DEF ModulesFollowFile, RootFollowsFile, IsReading, init, Parsed, Settled
<1>3. CASE UNCHANGED vars
  <2>1. DefaultsRead' = DefaultsRead /\ Applied' = Applied
    BY <1>3 DEF vars, DefaultsRead, Applied
  <2> QED
    BY <1>3, <2>1 DEF vars, ModulesFollowFile, RootFollowsFile, IsReading
<1> QED
  BY <1>1, <1>2, <1>3, StepsInOrder

(* The whole invariant of documented use. *)
LEMMA DocumentedAlways ==
  ASSUME DocumentedUse
  PROVE  Spec => []Documented
<1>1. Init => Documented
  <2> SUFFICES ASSUME Init PROVE Documented
    OBVIOUS
  <2>1. Parsed
    BY ParsedInitially
  <2>2. NeverUnknown /\ gRootPriority # NOTSET
    BY DEF Init, NeverUnknown, LevelToPriority, NOTSET, UNKNOWN, WARN, FATAL, ERROR
  <2>3. Orderly
    BY <2>2 DEF Init, Orderly, IsReading
  <2>4. ModulesFollowFile /\ RootFollowsFile
    BY CategoryAssumption DEF Init, ModulesFollowFile, RootFollowsFile, IsReading
  <2> QED
    BY <2>1, <2>2, <2>3, <2>4 DEF Documented
<1>2. Documented /\ [Next]_vars => Documented'
  BY ParsedKept, NeverUnknownKept, OrderlyKept, FollowKept
     DEF Documented, Parsed, DocumentedUse
<1> QED
  BY <1>1, <1>2, PTL DEF Spec

-----------------------------------------------------------------------------
(* Both specifications use one table of levels. *)
LEMMA SameTables ==
  /\ Policy!WARN = WARN /\ Policy!NONE = NONE
  /\ Policy!Unrecognised = Unrecognised /\ Policy!MessageLevel = MessageLevel
BY DEF Policy!WARN, Policy!NONE, Policy!Unrecognised, Policy!MessageLevel,
       WARN, NONE, Unrecognised, MessageLevel

(* The level a setting stands for is the one its priority is reported as. *)
LEMMA SettingIsMeant ==
  /\ \A v \in Setting : PriorityToLevel(SettingPriority(v)) = Policy!Meant(v)
  /\ \A l \in Level \ {NONE} : PriorityToLevel(LevelToPriority(l)) = l
BY DEF PriorityToLevel, SettingPriority, LevelToPriority, Policy!Meant, Setting,
       Level, MessageLevel, Unrecognised, SILENT, FATAL, ERROR, WARN, NOTICE, INFO,
       DEBUG, TRACE, NONE, Policy!MessageLevel, Policy!NONE

(* The last of the lines for a module is the greatest of their numbers. *)
LEMMA LastOfIsLast ==
  ASSUME NEW n \in Nat, NEW indices \in SUBSET (1 .. n), indices # {}
  PROVE  /\ Policy!LastOf(indices) \in indices
         /\ \A j \in indices : j <= Policy!LastOf(indices)
<1>1. \E i \in indices : \A j \in indices : j <= i
  <2>1. indices \in SUBSET Int /\ n \in Int /\ \A i \in indices : i <= n
    OBVIOUS
  <2> QED
    BY <2>1, GreatestElement
<1> QED
  BY <1>1 DEF Policy!LastOf

(* rdk_logger_init gives each module the level the file means for it. *)
LEMMA FinishConfigures ==
  ASSUME DocumentedUse, Documented, ~ isLogInited, FinishInit
  PROVE  Policy!Configure
<1>0. /\ TypeOK /\ priority \in [Category -> Priority]
      /\ file \in Files /\ file \in Seq(Line) /\ line \in Nat \ {0}
      /\ RdkRoot \in Category \ RdkModules /\ Modules \subseteq RdkModules \ {DefaultCategory}
      /\ RdkModules \subseteq Category
  BY CategoryAssumption, InputAssumption DEF Documented, Parsed, TypeOK, Orderly,
     IsReading, FinishInit, DocumentedUse
<1>1. /\ IsReading /\ backendReady /\ adjusted = {} /\ line = Len(file) + 1
      /\ Applied = Len(file)
  BY <1>0 DEF Documented, Parsed, InForce, Orderly, IsReading, FinishInit, Applied
<1>2. /\ UNCHANGED << priority, answer >> /\ gRootPriority' = priority[RdkRoot]
      /\ isLogInited' = TRUE
  BY DEF FinishInit, log4c
<1>3. Len(file) \in Nat /\ \A i \in 1 .. Len(file) : file[i].value \in Setting
  <2>1. Len(file) \in Nat /\ \A i \in 1 .. Len(file) : file[i] \in Line
    BY <1>0
  <2> QED
    BY <2>1 DEF Line
<1>4. PriorityToLevel(priority[RdkRoot]) = Policy!DefaultOf(file)
  <2> DEFINE at == { i \in 1 .. Len(file) : file[i].name = DefaultCategory
                                            /\ file[i].value # Unrecognised }
  <2>1. at = DefaultsRead
    BY <1>1 DEF DefaultsRead
  <2>2. CASE at = {}
    <3>1. priority[RdkRoot] = LevelToPriority(WARN)
      BY <1>1, <2>1, <2>2 DEF Documented, RootFollowsFile
    <3>2. WARN \in Level \ {NONE}
      BY DEF WARN, NONE, Level
    <3> QED
      BY <2>2, <3>1, <3>2, SettingIsMeant, SameTables DEF Policy!DefaultOf
  <2>3. CASE at # {}
    <3>1. /\ Policy!LastOf(at) \in at
          /\ \A j \in at : j <= Policy!LastOf(at)
      <4>1. at \in SUBSET (1 .. Len(file))
        OBVIOUS
      <4> HIDE DEF at
      <4> QED
        BY <1>3, <2>3, <4>1, LastOfIsLast
    <3>2. priority[RdkRoot] = SettingPriority(file[Policy!LastOf(at)].value)
      BY <1>1, <2>1, <3>1 DEF Documented, RootFollowsFile
    <3>3. PriorityToLevel(priority[RdkRoot]) = Policy!Meant(file[Policy!LastOf(at)].value)
      BY <1>3, <3>1, <3>2, SettingIsMeant
    <3> QED
      BY <2>3, <3>3, SameTables DEF Policy!DefaultOf
  <2> QED
    BY <2>2, <2>3
<1>5. ASSUME NEW m \in Modules
      PROVE  Reported(m)' = Policy!LevelOf(file, m)
  <2> DEFINE at == { i \in 1 .. Len(file) : file[i].name = m }
  <2>1. CASE at = {}
    <3>1. priority[m] = NOTSET
      BY <1>0, <1>1, <2>1 DEF Documented, ModulesFollowFile
    <3> QED
      BY <1>2, <1>4, <2>1, <3>1 DEF Reported, Policy!LevelOf
  <2>2. CASE at # {}
    <3> DEFINE i == Policy!LastOf(at)
    <3>1. i \in at /\ \A j \in at : j <= i
      <4>1. at \in SUBSET (1 .. Len(file))
        OBVIOUS
      <4> HIDE DEF at
      <4> QED
        BY <1>3, <2>2, <4>1, LastOfIsLast
    <3>2. LastReadFor(m, i) /\ i \in 1 .. (line - 1)
      <4> HIDE DEF i
      <4> QED
        BY <1>3, <1>1, <3>1 DEF LastReadFor
    <3>3. priority[m] = SettingPriority(file[i].value)
      <4> HIDE DEF i
      <4> QED
        BY <1>0, <1>1, <3>2 DEF Documented, Parsed, InForce, IsReading
    <3>4. priority[m] # NOTSET
      BY <1>3, <3>1, <3>3, Tables
    <3>5. Reported(m)' = Policy!Meant(file[i].value)
      BY <1>2, <1>3, <3>1, <3>3, <3>4, SettingIsMeant DEF Reported
    <3> QED
      BY <2>2, <3>5 DEF Policy!LevelOf
  <2> QED
    BY <2>1, <2>2
<1>6. EffectiveLevel' = [m \in Modules |-> Policy!LevelOf(file, m)]
  BY <1>2, <1>5 DEF EffectiveLevel
<1> QED
  BY <1>0, <1>2, <1>6 DEF Policy!Configure

(* After initialisation rdk_dbg_enabled, which pins nothing, answers as      *)
(* RDK_LOG would: what an unset module inherits is what it would be given.   *)
LEMMA EnabledAgrees ==
  ASSUME DocumentedUse, Documented, isLogInited, NEW c \in Modules,
         NEW level \in MessageLevel
  PROVE  Enabled(priority, c, level) <=> Passes(Reported(c), level)
<1>0. /\ priority \in [Category -> Priority] /\ gRootPriority \in Priority
      /\ c \in Category /\ Ancestry[c] \in Seq(Category)
      /\ Len(Ancestry[c]) > 1 /\ Ancestry[c][1] = c /\ Ancestry[c][2] = RdkRoot
      /\ RdkRoot \notin adjusted
  BY CategoryAssumption, DocumentedTypes
     DEF Documented, Parsed, Orderly, TypeOK, DocumentedUse
<1>1. gRootPriority = priority[RdkRoot] /\ gRootPriority # NOTSET
  BY <1>0 DEF Documented, Parsed, FallbackIsRoot, Orderly
<1> DEFINE p == IF priority[c] = NOTSET THEN gRootPriority ELSE priority[c]
<1>2. p \in Priority \ {NOTSET, UNKNOWN}
  BY <1>0, <1>1 DEF Documented, NeverUnknown
<1>3. Chained(priority, c) = p
  <2>1. CASE priority[c] # NOTSET
    BY <1>0, <2>1, OwnPriorityRules
  <2>2. CASE priority[c] = NOTSET
    <3> DEFINE path == Ancestry[c]
               Found(i) == priority[path[i]] # NOTSET \/ i = Len(path)
               First(i) == Found(i) /\ \A j \in 1 .. (i - 1) : ~ Found(j)
    <3>1. First(2) /\ 2 \in 1 .. Len(path) /\ ~ Found(1)
      BY <1>0, <1>1, <2>2
    <3>2. \A i \in 1 .. Len(path) : First(i) => i = 2
      BY <1>0, <3>1
    <3>3. (CHOOSE i \in 1 .. Len(path) : First(i)) = 2
      BY <3>1, <3>2
    <3> QED
      BY <1>0, <1>1, <2>2, <3>3 DEF Chained
  <2> QED
    BY <2>1, <2>2
<1> QED
  BY <1>2, <1>3, PriorityAgrees DEF Enabled, Reported

(* RDK_LOG too, whatever it pins. *)
LEMMA LogAgrees ==
  ASSUME DocumentedUse, Documented, NEW c \in Modules, NEW level \in MessageLevel
  PROVE  WouldLog(c, level) <=> Passes(Reported(c), level)
<1>1. ReportedIsEnforced /\ gRootPriority # NOTSET /\ c \in Category
  BY ReportedIsEnforcedNow, DocumentedTypes DEF Documented, Parsed, Orderly
<1> QED
  BY <1>1 DEF ReportedIsEnforced

(* The two modules compare a level with a threshold alike. *)
LEMMA SamePasses ==
  ASSUME NEW threshold, NEW level
  PROVE  Policy!Passes(threshold, level) = Passes(threshold, level)
BY SameTables DEF Policy!Passes, Passes

(* A call of the library that answers and leaves every level as it was. *)
LEMMA LevelsStay ==
  ASSUME isLogInited, UNCHANGED init, \A m \in Modules : Reported(m)' = Reported(m)
  PROVE  UNCHANGED << EffectiveLevel, isLogInited >>
BY DEF EffectiveLevel, init

(* One that sets the level of a module, to a level other than NONE. *)
LEMMA LevelChanges ==
  ASSUME DocumentedUse, Documented, isLogInited, UNCHANGED << init, gRootPriority >>,
         NEW c \in Adjustable, NEW l \in RuntimeLevels,
         priority' = [priority EXCEPT ![c] = LevelToPriority(l)]
  PROVE  /\ EffectiveLevel' = [EffectiveLevel EXCEPT ![c] = l]
         /\ UNCHANGED isLogInited
<1>0. /\ priority \in [Category -> Priority] /\ c \in Modules
      /\ Modules \subseteq Category
      /\ LevelToPriority(l) # NOTSET /\ PriorityToLevel(LevelToPriority(l)) = l
  BY DocumentedTypes, SettingIsMeant DEF Documented, Parsed, TypeOK, DocumentedUse
<1>1. Reported(c)' = l
  BY <1>0 DEF Reported
<1>2. \A m \in Modules \ {c} : Reported(m)' = Reported(m)
  BY <1>0 DEF Reported
<1> QED
  BY <1>0, <1>1, <1>2 DEF EffectiveLevel, init

-----------------------------------------------------------------------------
(* A message, or the question whether it would be printed. *)
LEMMA AskStep ==
  ASSUME DocumentedUse, Documented, isLogInited, UNCHANGED init,
         NEW c \in Modules, NEW level \in MessageLevels,
         Log(c, level) \/ IsLogLevelEnabled(c, level)
  PROVE  \E call \in {"log", "enabled"} : Policy!Ask(call, c, level)
<1>0. /\ priority \in [Category -> Priority] /\ c \in Category
      /\ Modules \subseteq Category
      /\ level # NONE => level \in MessageLevel
      /\ EffectiveLevel[c] = Reported(c)
  BY DocumentedTypes, InputAssumption
     DEF Documented, Parsed, TypeOK, EffectiveLevel, Level, MessageLevel, NONE
<1>1. \A m \in Modules : Reported(m)' = Reported(m)
  <2>1. CASE Log(c, level)
    BY <1>0, <2>1 DEF Log, Pinned, Reported
  <2>2. CASE IsLogLevelEnabled(c, level)
    BY <2>2 DEF IsLogLevelEnabled, Reported, log4c
  <2> QED
    BY <2>1, <2>2
<1>2. UNCHANGED << EffectiveLevel, isLogInited >>
  BY <1>1, LevelsStay
<1> DEFINE told == level # NONE /\ Passes(Reported(c), level)
<1>3. CASE Log(c, level)
  <2>1. answer' = Told("log", c, level, told)
    <3>1. CASE level = NONE
      BY <1>3, <3>1 DEF Log, Told
    <3>2. CASE level # NONE
      <4>1. WouldLog(c, level) = told
        BY <1>0, <3>2, LogAgrees DEF WouldLog, Enabled
      <4> QED
        BY <1>3, <3>2, <4>1 DEF Log, Told
    <3> QED
      BY <3>1, <3>2
  <2> QED
    BY <1>0, <1>2, <2>1, SamePasses, SameTables DEF Policy!Ask, Policy!Answers, Told
<1>4. CASE IsLogLevelEnabled(c, level)
  <2>1. answer' = Told("enabled", c, level, told)
    <3>1. SaysEnabled(c, level) = told
      BY <1>0, EnabledAgrees DEF SaysEnabled
    <3> QED
      BY <1>4, <3>1 DEF IsLogLevelEnabled
  <2> QED
    BY <1>0, <1>2, <2>1, SamePasses, SameTables DEF Policy!Ask, Policy!Answers, Told
<1> QED
  BY <1>3, <1>4

(* The question for the level. *)
LEMMA ReportStep ==
  ASSUME DocumentedUse, Documented, isLogInited, UNCHANGED init,
         NEW c \in Modules, GetLevel(c)
  PROVE  Policy!Report(c)
<1>1. UNCHANGED << EffectiveLevel, isLogInited >>
  BY LevelsStay DEF GetLevel, log4c, Reported
<1>2. EffectiveLevel[c] = Reported(c) /\ c \in Category
  BY DocumentedTypes DEF EffectiveLevel
<1> QED
  BY <1>1, <1>2 DEF GetLevel, Told, Policy!Report, Policy!Answers

(* A call that sets a level. *)
LEMMA ChangeStep ==
  ASSUME DocumentedUse, Documented, isLogInited, UNCHANGED init,
         NEW c \in Adjustable, NEW level \in RuntimeLevels,
         NEW call \in {"set", "enable", "ext_init"},
         UNCHANGED gRootPriority,
         priority' = [priority EXCEPT ![c] = LevelToPriority(level)],
         answer' = Told(call, c, level, TRUE)
  PROVE  Policy!Change(call, c, level)
BY LevelChanges DEF Policy!Change, Policy!Answers, Told

(* rdk_logger_ext_init sets a level too, unless its file cannot be used. *)
LEMMA ExtInitStep ==
  ASSUME DocumentedUse, Documented, isLogInited, UNCHANGED init,
         NEW c \in Adjustable, NEW level \in RuntimeLevels,
         NEW usable \in BOOLEAN, ExtInit(c, level, usable)
  PROVE  Policy!Change("ext_init", c, level) \/ Policy!Refuse(c, level)
<1>1. c # NoCategory /\ c \in Category
  BY DocumentedTypes, CategoryAssumption
<1>2. CASE usable
  BY <1>1, <1>2, ChangeStep DEF ExtInit
<1>3. CASE ~ usable
  <2>1. UNCHANGED << log4c, gRootPriority >> /\ answer' = Told("ext_init", c, level, FALSE)
    BY <1>3 DEF ExtInit
  <2>2. UNCHANGED << EffectiveLevel, isLogInited >>
    BY <2>1, LevelsStay DEF log4c, Reported
  <2> QED
    BY <2>1, <2>2 DEF Policy!Refuse, Policy!Answers, Told
<1> QED
  BY <1>2, <1>3

(* Every step is a step of the policy, or none. *)
LEMMA StepImplements ==
  ASSUME DocumentedUse, Documented, [Next]_vars
  PROVE  [Policy!Next]_(Policy!vars)
<1>1. CASE ~ isLogInited /\ RdkLoggerInit
  <2>1. CASE FinishInit
    BY <1>1, <2>1, FinishConfigures DEF Policy!Next
  <2>2. CASE ~ FinishInit
    <3>1. UNCHANGED << isLogInited, answer >>
      BY <1>1, <2>2 DEF RdkLoggerInit, StartBackend, OpenConfig, ParseDefault,
         PublishDefault, ParseModule, SkipLine, FailInit
    <3>2. UNCHANGED EffectiveLevel
      BY <1>1, <3>1 DEF EffectiveLevel
    <3> QED
      BY <3>1, <3>2 DEF Policy!vars
  <2> QED
    BY <2>1, <2>2
<1>2. CASE UNCHANGED vars
  BY <1>2 DEF vars, Policy!vars, EffectiveLevel, Reported
<1>3. CASE Next /\ isLogInited /\ UNCHANGED init
  <2>1. ~ RdkLoggerInit
    BY <1>3 DEF Documented, Parsed, Settled, RdkLoggerInit, StartBackend, OpenConfig,
       ParseDefault, PublishDefault, ParseModule, SkipLine, FinishInit, FailInit,
       AtLine
  <2>2. ASSUME NEW c \in Modules, NEW level \in MessageLevels,
               Log(c, level) \/ IsLogLevelEnabled(c, level)
        PROVE  Policy!Next
    BY <1>3, <2>2, AskStep DEF Policy!Next
  <2>3. ASSUME NEW c \in Modules, GetLevel(c) PROVE Policy!Next
    BY <1>3, <2>3, ReportStep DEF Policy!Next
  <2>4. ASSUME NEW c \in Adjustable, NEW level \in RuntimeLevels,
               NEW call \in {"set", "enable"}, SetLevel(call, c, level)
        PROVE  Policy!Next
    <3>1. Policy!Change(call, c, level)
      BY <1>3, <2>4, ChangeStep, DocumentedTypes, CategoryAssumption DEF SetLevel
    <3> QED
      BY <3>1 DEF Policy!Next, DocumentedUse
  <2>5. ASSUME NEW c \in Adjustable, NEW level \in RuntimeLevels,
               NEW usable \in BOOLEAN, ExtInit(c, level, usable)
        PROVE  Policy!Next
    <3>1. Policy!Change("ext_init", c, level) \/ Policy!Refuse(c, level)
      BY <1>3, <2>5, ExtInitStep
    <3> QED
      BY <3>1 DEF Policy!Next, DocumentedUse
  <2> QED
    BY <1>3, <2>1, <2>2, <2>3, <2>4, <2>5, DocumentedTypes
       DEF Next, SetLogLevel, EnableLogLevel, DocumentedUse
<1> QED
  BY <1>1, <1>2, <1>3, StepsInOrder DEF Documented

(***************************************************************************)
(* LevelControl implements LevelPolicy under DocumentedUse, for any        *)
(* debug.ini: one level per module, set by the file and then by the calls  *)
(* that name it, is what RDK_LOG, rdk_dbg_enabled and                      *)
(* rdk_logger_get_logLevel all answer from.                                *)
(***************************************************************************)
THEOREM ImplementsPolicyHolds ==
  ASSUME DocumentedUse
  PROVE  Spec => ImplementsPolicy
<1>1. Init => Policy!Init
  BY SameTables DEF Init, Policy!Init, EffectiveLevel, Told
<1>2. Documented /\ [Next]_vars => [Policy!Next]_(Policy!vars)
  BY StepImplements
<1> QED
  BY <1>1, <1>2, DocumentedAlways, PTL DEF Spec, Policy!Spec, ImplementsPolicy

=============================================================================
