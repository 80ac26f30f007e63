---------------------------- MODULE LevelControl ----------------------------
(***************************************************************************)
(* Which messages a process lets through: the priority of every log4c      *)
(* category, the fallback gRootPriority, and every call of the library     *)
(* that reads or writes them (rdk_debug_priv.c, rdk_debug.c,               *)
(* rdk_logger_init.c).                                                     *)
(*                                                                         *)
(* A call that takes gLoggingMutex is one step.  rdk_logger_init is not:   *)
(* it holds gInitMutex only, so the calls of other threads fall between    *)
(* the lines of the file it is reading, and between the two assignments    *)
(* that one LOG.RDK.DEFAULT line makes.                                    *)
(***************************************************************************)
EXTENDS LogLevels, Sequences, FiniteSets

CONSTANTS
  Category,         (* names log4c_category_get is ever given                *)
  Ancestry,         (* Ancestry[c]: c, its parent, ... up to log4c's root    *)
  RdkModules,       (* those whose name starts with "LOG.RDK."               *)
  RdkRoot,          (* "LOG.RDK"                                             *)
  DefaultCategory,  (* "LOG.RDK.DEFAULT"                                     *)
  Files,            (* contents debug.ini may have: sequences of settings    *)
  EarlyCalls,       (* may threads call the library before init is over?     *)
  BackendMayFail,   (* may log4c_init fail?                                  *)
  Modules,          (* the names the callers log to and ask about            *)
  Adjustable,       (* the names they set or extend at run time              *)
  RuntimeLevels,    (* the levels they ask for then                          *)
  EnableFlags,      (* the flags they give rdk_logger_enable_logLevel        *)
  MessageLevels     (* the levels of the messages they log                   *)

NoCategory == "NULL"
NoName == ""

(* What a caller may give for a module: log4c_category_get answers NULL for  *)
(* the empty name, and for NULL itself.                                      *)
GivenName == Category \cup {NoName, NoCategory}

Line == [name : Category, value : Setting]

ASSUME CategoryAssumption ==
  /\ RdkModules \subseteq Category
  /\ RdkRoot \in Category \ RdkModules
  /\ DefaultCategory \in RdkModules
  /\ NoCategory \notin Category /\ NoName \notin Category
  /\ Ancestry \in [Category -> Seq(Category)]
  /\ \A c \in Category : Len(Ancestry[c]) > 0 /\ Ancestry[c][1] = c
  /\ Modules \subseteq GivenName
  /\ Adjustable \subseteq GivenName

(* The tree of names: LOG.RDK stands once above itself and each LOG.RDK.*    *)
(* name, and callers give nothing above it an appender.                      *)
ASSUME TreeAssumption ==
  \A c \in RdkModules \cup {RdkRoot} : \E i \in 1 .. Len(Ancestry[c]) :
    /\ Ancestry[c][i] = RdkRoot
    /\ \A j \in 1 .. Len(Ancestry[c]) :
         /\ Ancestry[c][j] = RdkRoot => j = i
         /\ j > i => Ancestry[c][j] \notin Adjustable

ASSUME InputAssumption ==
  /\ Files \subseteq Seq(Line)
  /\ EarlyCalls \in BOOLEAN
  /\ BackendMayFail \in BOOLEAN
  /\ RuntimeLevels \subseteq Level
  /\ EnableFlags \subseteq BOOLEAN
  /\ MessageLevels \subseteq Level

VARIABLES
  priority,       (* each category's own priority (log4c)                    *)
  appending,      (* the categories that have an appender (log4c)            *)
  additive,       (* the categories that pass messages on to their parent    *)
  backendReady,   (* rdk_dbg_priv_init's static isInited                     *)
  gRootCat,
  gRootPriority,
  isLogInited,
  step,           (* where rdk_logger_init is; "idle" when gInitMutex is free *)
  file, line,     (* the file it reads and the line it has come to           *)
  answer,         (* what the last call of the library told its caller       *)
  adjusted        (* history: categories set by a call rather than the file  *)

log4c == << priority, appending, additive >>
init  == << backendReady, gRootCat, isLogInited, step, file, line >>
vars  == << priority, appending, additive, backendReady, gRootCat,
            gRootPriority, isLogInited, step, file, line, answer, adjusted >>

-----------------------------------------------------------------------------
(* What log4c answers about a category.                                      *)

(* log4c_category_get_chainedpriority: the first priority on the way up that *)
(* is set.                                                                   *)
Chained(own, c) ==
  LET path  == Ancestry[c]
      Found(i) == own[path[i]] # NOTSET \/ i = Len(path)
      first == CHOOSE i \in 1 .. Len(path) :
                 Found(i) /\ \A j \in 1 .. (i - 1) : ~ Found(j)
  IN  own[path[first]]

(* log4c_category_is_priority_enabled *)
Enabled(own, c, level) == Chained(own, c) >= LevelToPriority(level)

(* The appenders log4c_category_vlog hands a message for c to. *)
Appenders(c) ==
  LET path == Ancestry[c]
  IN  { i \in 1 .. Len(path) : /\ path[i] \in appending
                               /\ \A j \in 1 .. (i - 1) : path[j] \in additive }

Told(call, c, level, result) ==
  [call |-> call, module |-> c, level |-> level, result |-> result]

-----------------------------------------------------------------------------
(* rdk_logger_init and what it calls.                                        *)

(* rdk_dbg_priv_init: log4c_init loads log4crc, which gives LOG.RDK its      *)
(* console appender and the priority WARN.  It is tried again by the next    *)
(* rdk_logger_init when it fails.                                            *)
StartBackend ==
  /\ step = "idle" /\ ~ isLogInited
  /\ step' = "open"
  /\ \/ /\ ~ backendReady
        /\ backendReady' = TRUE
        /\ priority'  = [priority EXCEPT ![RdkRoot] = LevelToPriority(WARN)]
        /\ appending' = appending \cup {RdkRoot}
     \/ /\ backendReady \/ BackendMayFail
        /\ UNCHANGED << backendReady, priority, appending >>
  /\ UNCHANGED << additive, gRootCat, gRootPriority, isLogInited, file, line,
                  answer, adjusted >>

(* rdk_dbg_priv_config up to the opening of the file, which may be missing. *)
OpenConfig ==
  /\ step = "open"
  /\ gRootCat' = RdkRoot
  /\ \/ /\ file' \in Files /\ line' = 1
        /\ step' = "line"
     \/ /\ step' = "failed"
        /\ UNCHANGED << file, line >>
  /\ UNCHANGED << log4c, backendReady, gRootPriority, isLogInited, answer,
                  adjusted >>

AtLine == step = "line" /\ line <= Len(file)

(* A LOG.RDK.DEFAULT line sets LOG.RDK's priority ... *)
ParseDefaultAdvances ==         \* slip: already moves to the next line
  /\ AtLine /\ file[line].name = DefaultCategory
  /\ priority' = IF file[line].value = Unrecognised THEN priority
                 ELSE [priority EXCEPT ![RdkRoot] =
                         SettingPriority(file[line].value)]
  /\ step' = "fallback" /\ line' = line + 1
  /\ UNCHANGED << appending, additive, backendReady, gRootCat, gRootPriority,
                  isLogInited, file, answer, adjusted >>

ParseDefault ==
  /\ AtLine /\ file[line].name = DefaultCategory
  /\ priority' = IF file[line].value = Unrecognised THEN priority
                 ELSE [priority EXCEPT ![RdkRoot] =
                         SettingPriority(file[line].value)]
  /\ step' = "fallback"
  /\ UNCHANGED << appending, additive, backendReady, gRootCat, gRootPriority,
                  isLogInited, file, line, answer, adjusted >>

(* ... and then copies it to gRootPriority. *)
PublishDefault ==
  /\ step = "fallback"
  /\ gRootPriority' = priority[RdkRoot]
  /\ step' = "line" /\ line' = line + 1
  /\ UNCHANGED << log4c, backendReady, gRootCat, isLogInited, file, answer,
                  adjusted >>

(* Any other LOG.RDK.* line: the module gets the priority, whatever it had.  *)
ParseModuleOnlyIfUnset ==       \* slip: a category that has one keeps it
  /\ AtLine /\ file[line].name \in RdkModules \ {DefaultCategory}
  /\ priority' = IF priority[file[line].name] # NOTSET THEN priority
                 ELSE [priority EXCEPT ![file[line].name] =
                         SettingPriority(file[line].value)]
  /\ line' = line + 1
  /\ adjusted' = adjusted \ {file[line].name}
  /\ UNCHANGED << appending, additive, backendReady, gRootCat, gRootPriority,
                  isLogInited, step, file, answer >>

ParseModule ==
  /\ AtLine /\ file[line].name \in RdkModules \ {DefaultCategory}
  /\ priority' = [priority EXCEPT ![file[line].name] =
                    SettingPriority(file[line].value)]
  /\ line' = line + 1
  /\ adjusted' = adjusted \ {file[line].name}
  /\ UNCHANGED << appending, additive, backendReady, gRootCat, gRootPriority,
                  isLogInited, step, file, answer >>

(* A line for any other name, LOG.RDK itself included, is passed over. *)
SkipLine ==
  /\ AtLine /\ file[line].name \notin RdkModules
  /\ line' = line + 1
  /\ UNCHANGED << log4c, backendReady, gRootCat, gRootPriority, isLogInited,
                  step, file, answer, adjusted >>

(* The end of the file: rdk_dbg_priv_config reads gRootPriority once more    *)
(* and rdk_logger_init raises isLogInited.                                   *)
FinishInitKeepsFallback ==      \* slip: trusts what the lines left in it
  /\ step = "line" /\ line > Len(file)
  /\ isLogInited' = TRUE
  /\ step' = "idle"
  /\ UNCHANGED << log4c, backendReady, gRootCat, gRootPriority, file, line,
                  answer, adjusted >>

FinishInit ==
  /\ step = "line" /\ line > Len(file)
  /\ gRootPriority' = priority[RdkRoot]
  /\ isLogInited' = TRUE
  /\ step' = "idle"
  /\ UNCHANGED << log4c, backendReady, gRootCat, file, line, answer, adjusted >>

(* The file could not be opened: RDK_FAILURE, and a later call may retry;    *)
(* gRootPriority is read all the same.                                       *)
FailInitHalfway ==              \* slip: stops at a bad line, the others stay
  /\ step = "failed" \/ AtLine
  /\ gRootPriority' = priority[RdkRoot]
  /\ step' = "idle"
  /\ UNCHANGED << log4c, backendReady, gRootCat, isLogInited, file, line,
                  answer, adjusted >>

FailInit ==
  /\ step = "failed"
  /\ gRootPriority' = priority[RdkRoot]
  /\ step' = "idle"
  /\ UNCHANGED << log4c, backendReady, gRootCat, isLogInited, file, line,
                  answer, adjusted >>

RdkLoggerInit ==
  \/ StartBackend
  \/ OpenConfig
  \/ ParseDefault
  \/ PublishDefault
  \/ ParseModule
  \/ SkipLine
  \/ FinishInit
  \/ FailInit

-----------------------------------------------------------------------------
(* The calls any thread may make, each under gLoggingMutex.                  *)

MayCall == EarlyCalls \/ isLogInited

(* The category that decides on an RDK_LOG for c and carries it: gRootCat    *)
(* for the empty name, none for NULL.                                        *)
DeciderOrNone(c) ==             \* slip: a name without category has no root
  IF c = NoName THEN NoCategory ELSE c

Decider(c) == IF c = NoName THEN gRootCat ELSE c

(* The priorities it leaves behind: the first message of a category that has *)
(* no priority of its own gives it gRootPriority.                            *)
Pinned(c) ==
  IF c \in Category /\ priority[c] = NOTSET
  THEN [priority EXCEPT ![c] = gRootPriority]
  ELSE priority

(* Would an RDK_LOG of this level be let through now? *)
WouldLog(c, level) ==
  Decider(c) # NoCategory /\ Enabled(Pinned(c), Decider(c), level)

(* rdk_dbg_priv_log; a message of level NONE, or for NULL, returns before    *)
(* the mutex.                                                                *)
Log(c, level) ==
  /\ MayCall
  /\ IF level = NONE
     THEN /\ answer' = Told("log", c, level, FALSE)
          /\ UNCHANGED priority
     ELSE /\ priority' = Pinned(c)
          /\ answer' = Told("log", c, level, WouldLog(c, level))
  /\ UNCHANGED << appending, additive, gRootPriority, init, adjusted >>

(* rdk_logger_is_logLevel_enabled: a name without a category is not.         *)
SaysEnabled(c, level) ==
  level # NONE /\ c \in Category /\ Enabled(priority, c, level)

IsLogLevelEnabled(c, level) ==
  /\ MayCall
  /\ answer' = Told("enabled", c, level, SaysEnabled(c, level))
  /\ UNCHANGED << log4c, gRootPriority, init, adjusted >>

(* rdk_dbg_priv_set_level, which also serves the requests of rdklogctrl; it  *)
(* sets nothing for the empty name and reports success.                      *)
SetLevel(call, c, level) ==
  /\ MayCall
  /\ IF c \in Category
     THEN /\ priority' = [priority EXCEPT ![c] = LevelToPriority(level)]
          /\ adjusted' = adjusted \cup {c}
     ELSE UNCHANGED << priority, adjusted >>
  /\ answer' = Told(call, c, level, c # NoCategory)
  /\ UNCHANGED << appending, additive, gRootPriority, init >>

SetLogLevel(c, level) == SetLevel("set", c, level)

(* rdk_logger_enable_logLevel passes its flag to nobody. *)
EnableLogLevel(c, level, enable) ==
  SetLevel(IF enable THEN "enable" ELSE "disable", c, level)

(* rdk_dbg_priv_get_level *)
ReportedChained(c) ==           \* slip: asks log4c for the inherited priority
  PriorityToLevel(Chained(priority, c))

Reported(c) ==
  PriorityToLevel(IF priority[c] = NOTSET THEN gRootPriority ELSE priority[c])

GetLevel(c) ==
  /\ MayCall
  /\ answer' = IF c \in Category THEN Told("get", c, Reported(c), TRUE)
               ELSE Told("get", c, NONE, FALSE)
  /\ UNCHANGED << log4c, gRootPriority, init, adjusted >>

(* rdk_logger_ext_init once its own RDK_LOGGER_INIT has succeeded.  A NULL   *)
(* module means gRootCat; the empty name has no category, and a FILE output  *)
(* without a policy gets no appender: both are refused and change nothing.   *)
ExtInitKeepsAdditive(module, level, usable) ==   \* slip: additivity left on
  /\ isLogInited /\ step = "idle"
  /\ LET c == IF module = NoCategory THEN gRootCat ELSE module
     IN  IF c \in Category /\ usable
         THEN /\ appending' = appending \cup {c}
              /\ priority'  = [priority EXCEPT ![c] = LevelToPriority(level)]
              /\ adjusted'  = adjusted \cup {c}
              /\ answer'    = Told("ext_init", c, level, TRUE)
         ELSE /\ answer'    = Told("ext_init", module, level, FALSE)
              /\ UNCHANGED << priority, appending, adjusted >>
  /\ UNCHANGED << additive, gRootPriority, init >>

ExtInit(module, level, usable) ==
  /\ isLogInited /\ step = "idle"
  /\ LET c == IF module = NoCategory THEN gRootCat ELSE module
     IN  IF c \in Category /\ usable
         THEN /\ appending' = appending \cup {c}
              /\ additive'  = additive \ {c}
              /\ priority'  = [priority EXCEPT ![c] = LevelToPriority(level)]
              /\ adjusted'  = adjusted \cup {c}
              /\ answer'    = Told("ext_init", c, level, TRUE)
         ELSE /\ answer'    = Told("ext_init", module, level, FALSE)
              /\ UNCHANGED << log4c, adjusted >>
  /\ UNCHANGED << gRootPriority, init >>

-----------------------------------------------------------------------------
Init ==
  /\ priority = [c \in Category |-> NOTSET]
  /\ appending = {}
  /\ additive = Category
  /\ backendReady = FALSE
  /\ gRootCat = NoCategory
  /\ gRootPriority = LevelToPriority(WARN)
  /\ isLogInited = FALSE
  /\ step = "idle" /\ file = << >> /\ line = 1
  /\ answer = Told("none", RdkRoot, NONE, FALSE)
  /\ adjusted = {}

Next ==
  \/ RdkLoggerInit
  \/ \E c \in Modules, level \in MessageLevels : Log(c, level)
  \/ \E c \in Modules, level \in MessageLevels : IsLogLevelEnabled(c, level)
  \/ \E c \in Modules : GetLevel(c)
  \/ \E c \in Adjustable, level \in RuntimeLevels : SetLogLevel(c, level)
  \/ \E c \in Adjustable, level \in RuntimeLevels, enable \in EnableFlags :
       EnableLogLevel(c, level, enable)
  \/ \E c \in Adjustable, level \in RuntimeLevels, usable \in BOOLEAN :
       ExtInit(c, level, usable)

Spec == Init /\ [][Next]_vars

-----------------------------------------------------------------------------
(* The variables hold what the code can put into them. *)
TypeOK ==
  /\ priority \in [Category -> Priority]
  /\ appending \subseteq Category
  /\ additive \subseteq Category
  /\ backendReady \in BOOLEAN
  /\ gRootCat \in {NoCategory, RdkRoot}
  /\ gRootPriority \in Priority
  /\ isLogInited \in BOOLEAN
  /\ step \in {"idle", "open", "line", "fallback", "failed"}
  /\ file \in Files \cup {<< >>}
  /\ line \in Nat \ {0}
  /\ step = "fallback" => line <= Len(file)
  /\ answer \in [call : {"none", "log", "enabled", "set", "enable", "disable",
                         "get", "ext_init"},
                 module : GivenName, level : Level, result : BOOLEAN]
  /\ adjusted \subseteq Category

(* What debug.ini says of a module wins over whatever the module picked up   *)
(* before or while the file was read: once rdk_logger_init has returned, a   *)
(* module named in the file has the priority of the last line naming it,     *)
(* unless a call has set it since (the pinning of rdk_debug_priv.c:655       *)
(* against the loop of rdk_logger_parse_config).                             *)
LastLineFor(c, i) ==
  file[i].name = c /\ \A j \in (i + 1) .. Len(file) : file[j].name # c

ConfigWins ==
  isLogInited =>
    \A c \in RdkModules \ ({DefaultCategory} \cup adjusted) :
      \A i \in 1 .. Len(file) :
        LastLineFor(c, i) => priority[c] = SettingPriority(file[i].value)

(* gRootPriority, the copy that pins unset modules, agrees with the          *)
(* priority LOG.RDK really has for as long as no call sets LOG.RDK itself,   *)
(* whatever order early messages and the lines of the file came in.          *)
FallbackIsRoot ==
  isLogInited /\ RdkRoot \notin adjusted => gRootPriority = priority[RdkRoot]

(* A message logged under the empty name, for which log4c has no category    *)
(* and LOG.RDK stands in, is let through exactly when one of a module nobody *)
(* has configured yet would be: LOG.RDK's priority decides on the one, its   *)
(* copy gRootPriority on the other (rdk_debug_priv.c:648-659).               *)
NamelessLikeUnset ==
  isLogInited /\ RdkRoot \notin adjusted /\ gRootPriority # NOTSET =>
    \A c \in Category, level \in MessageLevel :
      priority[c] = NOTSET => (WouldLog(NoName, level) <=> WouldLog(c, level))

(* The levels a level lets through, by include/rdk_logger.h. *)
Passes(threshold, level) == threshold # NONE /\ level <= threshold

(* rdk_logger_get_logLevel tells the level that RDK_LOG will enforce, for    *)
(* nested module names, unconfigured ones, silenced ones and at any point of *)
(* an rdk_logger_init on another thread; the fallback must have been read    *)
(* from a LOG.RDK that has a priority.                                       *)
ReportedIsEnforced ==
  gRootPriority # NOTSET =>
    \A c \in Category, level \in MessageLevel :
      WouldLog(c, level) <=> Passes(Reported(c), level)

(* A message for LOG.RDK or below never reaches two appenders, and from the  *)
(* moment log4c is up it reaches one, its module's own or LOG.RDK's console, *)
(* in whatever order parents and children were given appenders of their own  *)
(* (log4c hands it to every appender up to the first category that is not    *)
(* additive).                                                                *)
OneAppender ==
  \A c \in RdkModules \cup {RdkRoot} :
    /\ Cardinality(Appenders(c)) <= 1
    /\ backendReady => Appenders(c) # {}

(* Between calls of rdk_logger_init none of which has succeeded, nothing     *)
(* below WARN is printed but of modules a call has set: however often        *)
(* loading log4c or opening the file has failed, in whatever order, and      *)
(* whatever was pinned in between to the gRootPriority a failure left.       *)
(* (docs/README.md:196 says that nothing at all is; the code prints WARN and *)
(* above as soon as log4c is up.)                                            *)
WarnUntilInit ==
  step = "idle" /\ ~ isLogInited /\ RdkRoot \notin adjusted =>
    \A c \in (Category \cup {NoName}) \ adjusted, level \in MessageLevel :
      WouldLog(c, level) => level <= WARN \/ Appenders(Decider(c)) = {}

-----------------------------------------------------------------------------
(* The promise of LevelPolicy, for callers that stay within DocumentedUse.   *)

(* Modules are flat LOG.RDK.<NAME> names, the library is called after it is  *)
(* initialised, log4crc loads, and at run time only modules are adjusted,    *)
(* never to NONE and never by "disabling".                                   *)
DocumentedUse ==
  /\ ~ EarlyCalls /\ ~ BackendMayFail
  /\ Modules \subseteq RdkModules \ {DefaultCategory}
  /\ \A m \in Modules : Len(Ancestry[m]) > 1 /\ Ancestry[m][2] = RdkRoot
  /\ Adjustable \subseteq Modules
  /\ NONE \notin RuntimeLevels
  /\ EnableFlags \subseteq {TRUE}

EffectiveLevel ==
  [m \in Modules |-> IF isLogInited THEN Reported(m) ELSE WARN]

Policy == INSTANCE LevelPolicy
            WITH level <- EffectiveLevel, configured <- isLogInited

(* RDK_LOG, rdk_dbg_enabled and rdk_logger_get_logLevel all answer from one  *)
(* level per module, set by the file and then by the calls that name it, in  *)
(* spite of pinning, of gRootPriority's being a copy, of the order of the    *)
(* lines and of NONE having two representations.                             *)
ImplementsPolicy == DocumentedUse /\ Policy!Spec

-----------------------------------------------------------------------------
(* What the documents say and the code does not do.                          *)

(* docs/API_DOCUMENTATION.md:372, "Disable all logging": no message of a     *)
(* module set to NONE is let through.                                        *)
NoneSilences ==
  \A c \in Modules \cap Category :
    Reported(c) = NONE => \A level \in MessageLevel : ~ WouldLog(c, level)

(* include/rdk_logger.h:199: rdk_dbg_enabled checks whether logging is       *)
(* enabled, so it agrees with what RDK_LOG would do.                         *)
EnabledMeansLogged ==
  isLogInited =>
    \A c \in Modules, level \in MessageLevel :
      SaysEnabled(c, level) <=> WouldLog(c, level)

=============================================================================
