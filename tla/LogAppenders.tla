---------------------------- MODULE LogAppenders ----------------------------
(***************************************************************************)
(* Where messages go and how they look: the appenders and layouts that     *)
(* rdk_dbg_priv_ext_init gives to categories, the rolling-file data it     *)
(* allocates and frees, and the appender functions log4c calls back        *)
(* (rdk_debug_priv.c).  Everything here happens under gLoggingMutex, so    *)
(* each call is one step.  The process has been initialised; which         *)
(* messages are let through is LevelControl's concern.                     *)
(***************************************************************************)
EXTENDS LogLevels, Sequences, FiniteSets

CONSTANTS
  Category,      (* names of categories                                      *)
  Ancestry,      (* Ancestry[c]: c, its parent, ... up to log4c's root       *)
  RdkRoot,       (* "LOG.RDK", what a NULL module stands for                 *)
  FileName,      (* FileName[c]: "<c>.file", cut to 127 characters           *)
  PrintName,     (* PrintName[c]: "<c>.print", cut likewise                  *)
  Configurable,  (* the modules ext_init is called for                       *)
  Outputs, Formats, Targets,  (* what it is asked for; a target is a         *)
                              (* directory and a file prefix                 *)
  Block,         (* addresses malloc may return                              *)
  NULL,
  Stdout         (* the stream a console appender keeps                      *)

Console == "rdk_console"         \* log4crc's appender of LOG.RDK

Name == {Console} \cup { FileName[c] : c \in Category }
                  \cup { PrintName[c] : c \in Category }

(* A file appender's name is never that of a console, syslog or journal one: *)
(* true of categories of at most 125 characters.  No name ext_init makes is  *)
(* log4crc's "rdk_console".                                                  *)
ASSUME KindsApart ==
  \A c, d \in Category : /\ FileName[c] \notin {Console, PrintName[d]}
                         /\ PrintName[c] # Console

(* The modules ext_init is called for are LOG.RDK and names below it, as the *)
(* documents have it: never "LOG" or the root of log4c's tree.               *)
ASSUME RootOnTop ==
  \A c \in Category : \A i, j \in 1 .. Len(Ancestry[c]) :
    i < j /\ Ancestry[c][i] = RdkRoot
      => Ancestry[c][j] \notin Configurable \cup {RdkRoot}

ASSUME AppenderAssumption ==
  /\ RdkRoot \in Category
  /\ Configurable \subseteq Category
  /\ Ancestry \in [Category -> Seq(Category)]
  /\ NULL \notin Block \cup Targets \cup Name \cup {Stdout}
  /\ NULL \notin {"stdout", "syslog", "journal"}
  /\ Stdout \notin Block
  /\ Targets # {}

-----------------------------------------------------------------------------
(* The tables: output to appender type, format to layout, layout to the      *)
(* function that renders it, and what that function writes.                  *)

Output == {"CONSOLE", "SYSLOG", "JOURNAL", "FILE"}
Format == {"PLAINTEXT", "WITH_TS", "WITH_TID", "WITH_TS_TID",
           "DETAIL_WITH_TS", "DETAIL_WITHOUT_TS"}
Type   == {"stream", "to_console", "to_syslog", "to_journal", "rollingfile"}
Layout == {"default", "rdk_plaintext", "rdk_with_ts", "rdk_with_tid",
           "rdk_with_ts_tid", "rdk_detail_with_ts", "rdk_detail_without_ts"}

PrintType(output) ==
  CASE output = "CONSOLE" -> "to_console"
    [] output = "SYSLOG"  -> "to_syslog"
    [] output = "JOURNAL" -> "to_journal"

LayoutOfByFormat(format) == format   \* slip: a name log4crc does not define

LayoutOf(format) ==
  CASE format = "WITH_TS"           -> "rdk_with_ts"
    [] format = "WITH_TID"          -> "rdk_with_tid"
    [] format = "WITH_TS_TID"       -> "rdk_with_ts_tid"
    [] format = "DETAIL_WITH_TS"    -> "rdk_detail_with_ts"
    [] format = "DETAIL_WITHOUT_TS" -> "rdk_detail_without_ts"
    [] OTHER                        -> "rdk_plaintext"

(* The layout names and types of log4crc, and the layout functions. *)
RenderedAs(layout) ==
  CASE layout = "rdk_with_ts"           -> "WITH_TS"
    [] layout = "rdk_with_tid"          -> "WITH_TID"
    [] layout = "rdk_with_ts_tid"       -> "WITH_TS_TID"
    [] layout = "rdk_detail_with_ts"    -> "DETAIL_WITH_TS"
    [] layout = "rdk_detail_without_ts" -> "DETAIL_WITHOUT_TS"
    [] OTHER                            -> "PLAINTEXT"

(* The branches of rdk_format_log. *)
Fields(format) ==
  CASE format = "DETAIL_WITHOUT_TS" ->
         << "priority", "module", "tid", "message" >>
    [] format = "DETAIL_WITH_TS" ->
         << "timestamp", "priority", "module", "tid", "message" >>
    [] format = "WITH_TS_TID" ->
         << "timestamp", "priority", "tid", "message" >>
    [] format = "WITH_TS" -> << "timestamp", "priority", "message" >>
    [] format = "WITH_TID" -> << "priority", "tid", "message" >>
    [] OTHER -> << "priority", "message" >>

(* get_syslog_priority: LOG_EMERG = 0 ... LOG_DEBUG = 7. *)
SyslogPriority(priority) ==
  CASE priority = 0   -> 0
    [] priority = 300 -> 3
    [] priority = 400 -> 4
    [] priority = 500 -> 5
    [] priority = 600 -> 6
    [] OTHER          -> 7

-----------------------------------------------------------------------------
VARIABLES
  appender,   (* each name's type, layout, data, and whether it is open      *)
  routed,     (* the appender of each category, or NULL                      *)
  additive,   (* the categories that pass messages on to their parent        *)
  heap,       (* the rolling-file data at each address, or Free              *)
  bound,      (* the data each name's rolling policy works on                *)
  sent        (* what the last call wrote, and where                         *)

vars == << appender, routed, additive, heap, bound, sent >>

Free == [target |-> NULL, rolls |-> FALSE]
Live(block) == heap[block] # Free

(* What log4c_appender_get makes of a name it has not seen. *)
NewAppender ==
  [type |-> "stream", layout |-> "default", udata |-> NULL, open |-> FALSE]

-----------------------------------------------------------------------------
(* rdk_dbg_priv_ext_init.                                                    *)

(* gRootCat stands in for a NULL module. *)
CategoryOf(module) == IF module = NULL THEN RdkRoot ELSE module

(* The end of the function: the category gets the appender and keeps its     *)
(* messages from its parent.                                                 *)
RouteKeepsAdditive(c, name) ==  \* slip: additivity left on
  /\ routed' = [routed EXCEPT ![c] = name]
  /\ UNCHANGED additive

Route(c, name) ==
  /\ routed' = [routed EXCEPT ![c] = name]
  /\ additive' = additive \ {c}

(* CONSOLE, SYSLOG, JOURNAL: only the type changes.  The appender stays      *)
(* open and keeps its stream.                                                *)
ExtInitPrint(module, output, format) ==
  /\ LET name == PrintName[CategoryOf(module)]
     IN  /\ appender' = [appender EXCEPT
                ![name] = [@ EXCEPT !.type = PrintType(output),
                                    !.layout = LayoutOf(format)]]
         /\ Route(CategoryOf(module), name)
  /\ sent' = {}
  /\ UNCHANGED << heap, bound >>

(* FILE: the appender is closed, its data freed, and new data made, which    *)
(* may fail; then the appender is left without any.  Nobody looks at the     *)
(* result of log4c_appender_close: an appender it fails on still counts as   *)
(* open to log4c, so no file is ever opened for its new data, and it behaves *)
(* like one whose file is not usable at any Log to come.                     *)
Freed(block) == IF block \in Block THEN [heap EXCEPT ![block] = Free] ELSE heap

ReplaceFileLeaks(name, format, target, rolls) ==  \* slip: old data not freed
  \E new \in {NULL} \cup { b \in Block : ~ Live(b) } :
    /\ appender' = [appender EXCEPT
           ![name] = [type |-> "rollingfile", layout |-> LayoutOf(format),
                      udata |-> new, open |-> FALSE]]
    /\ heap' = IF new = NULL THEN heap
               ELSE [heap EXCEPT ![new] = [target |-> target, rolls |-> rolls]]

ReplaceFileKeepsPointer(name, format, target, rolls) ==
                               \* slip: the pointer outlives what it points to
  LET old == appender[name].udata
  IN  \E new \in {NULL} \cup { b \in Block : Freed(old)[b] = Free } :
        /\ appender' = [appender EXCEPT
               ![name] = [type |-> "rollingfile", layout |-> LayoutOf(format),
                          udata |-> IF new = NULL THEN old ELSE new,
                          open |-> FALSE]]
        /\ heap' = IF new = NULL THEN Freed(old)
                   ELSE [Freed(old) EXCEPT
                           ![new] = [target |-> target, rolls |-> rolls]]

ReplaceFileStaysOpen(name, format, target, rolls) ==  \* slip: not closed first
  LET old == appender[name].udata
  IN  \E new \in {NULL} \cup { b \in Block : Freed(old)[b] = Free } :
        /\ appender' = [appender EXCEPT
               ![name] = [type |-> "rollingfile", layout |-> LayoutOf(format),
                          udata |-> new, open |-> @.open]]
        /\ heap' = IF new = NULL THEN Freed(old)
                   ELSE [Freed(old) EXCEPT
                           ![new] = [target |-> target, rolls |-> rolls]]

ReplaceFile(name, format, target, rolls) ==
  LET old == appender[name].udata
  IN  \E new \in {NULL} \cup { b \in Block : Freed(old)[b] = Free } :
        /\ appender' = [appender EXCEPT
               ![name] = [type |-> "rollingfile", layout |-> LayoutOf(format),
                          udata |-> new, open |-> FALSE]]
        /\ heap' = IF new = NULL THEN Freed(old)
                   ELSE [Freed(old) EXCEPT
                           ![new] = [target |-> target, rolls |-> rolls]]

(* rolls: fileCountMax is positive, so a rolling policy is attached. *)
ExtInitFile(module, format, target, rolls) ==
  /\ ReplaceFile(FileName[CategoryOf(module)], format, target, rolls)
  /\ Route(CategoryOf(module), FileName[CategoryOf(module)])
  /\ sent' = {}
  /\ UNCHANGED bound

(* A FILE output without a policy, a NULL configuration, or a category (that *)
(* of the empty name) or appender that log4c cannot make: RDK_FAILURE before *)
(* anything is changed.                                                      *)
ExtInitRefused ==
  /\ sent' = {}
  /\ UNCHANGED << appender, routed, additive, heap, bound >>

-----------------------------------------------------------------------------
(* A message that is let through.                                            *)

(* log4c_category_vlog: every appender up to the first category that is not  *)
(* additive.  A message without a category of its own goes LOG.RDK's way.    *)
Reached(c) ==
  LET path == Ancestry[c]
  IN  { routed[path[i]] : i \in { i \in 1 .. Len(path) :
          \A j \in 1 .. (i - 1) : path[j] \in additive } } \ {NULL}

(* log4c_appender_open, and the open functions.  A rolling file without data *)
(* does not open, nor one that is not usable: its directory cannot be used,  *)
(* or the last close failed.                                                 *)
Opened(a, usable) ==
  IF a.open THEN a
  ELSE [a EXCEPT
          !.open  = a.type = "rollingfile" => usable /\ a.udata # NULL,
          !.udata = IF a.type = "to_console" /\ @ = NULL THEN Stdout ELSE @]

(* The append functions: where a record ends up.  A console appender prints  *)
(* to whatever stream its data is, or to stdout.                             *)
Destination(a) ==
  CASE a.type = "to_console" /\ a.udata \in {NULL, Stdout} -> "stdout"
    [] a.type = "to_syslog"   -> "syslog"
    [] a.type = "to_journal"  -> "journal"
    [] a.type = "rollingfile" /\ a.udata \in Block -> heap[a.udata].target
    [] OTHER -> NULL

Record(a) == [to |-> Destination(a), fields |-> Fields(RenderedAs(a.layout))]

Log(c, usable) ==
  LET after == [n \in Name |-> IF n \in Reached(c)
                               THEN Opened(appender[n], usable)
                               ELSE appender[n]]
  IN  /\ appender' = after
      /\ bound' = [n \in Name |->
           IF /\ ~ appender[n].open /\ after[n].open
              /\ after[n].type = "rollingfile" /\ heap[after[n].udata].rolls
           THEN after[n].udata ELSE bound[n]]
      /\ sent' = { Record(after[n]) : n \in { n \in Reached(c) : after[n].open } }
  /\ UNCHANGED << routed, additive, heap >>

-----------------------------------------------------------------------------
(* After log4crc: LOG.RDK prints on the console. *)
Init ==
  /\ appender = [n \in Name |->
       IF n = Console
       THEN [NewAppender EXCEPT !.type = "to_console",
                                !.layout = "rdk_detail_without_ts"]
       ELSE NewAppender]
  /\ routed = [c \in Category |-> IF c = RdkRoot THEN Console ELSE NULL]
  /\ additive = Category
  /\ heap = [b \in Block |-> Free]
  /\ bound = [n \in Name |-> NULL]
  /\ sent = {}

ExtInit ==
  \/ \E module \in Configurable \cup {NULL}, output \in Outputs \ {"FILE"},
        format \in Formats : ExtInitPrint(module, output, format)
  \/ \E module \in Configurable \cup {NULL}, format \in Formats,
        target \in Targets, rolls \in BOOLEAN :
       "FILE" \in Outputs /\ ExtInitFile(module, format, target, rolls)
  \/ ExtInitRefused

Next ==
  \/ ExtInit
  \/ \E c \in Category, usable \in BOOLEAN : Log(c, usable)

Spec == Init /\ [][Next]_vars

-----------------------------------------------------------------------------
(* The variables hold what the code can put into them. *)
TypeOK ==
  /\ appender \in [Name -> [type : Type, layout : Layout,
                            udata : Block \cup {NULL, Stdout}, open : BOOLEAN]]
  /\ routed \in [Category -> Name \cup {NULL}]
  /\ additive \subseteq Category
  /\ heap \in [Block -> [target : Targets \cup {NULL}, rolls : BOOLEAN]]
  /\ bound \in [Name -> Block \cup {NULL}]

(* Data never outlives its type or its allocation, over any sequence of      *)
(* calls that re-initialise appenders, open ones included, and even when     *)
(* memory runs out half-way: what a rolling file writes through and what the *)
(* next call frees (rdk_debug_priv.c:465-470) is live rolling data, and what *)
(* a console appender prints to is a stream.                                 *)
DataFitsType ==
  \A n \in Name :
    LET a == appender[n]
    IN  IF a.type = "rollingfile"
        THEN a.udata # NULL => a.udata \in Block /\ Live(a.udata)
        ELSE a.udata \in {NULL, Stdout}

(* Rolling data is neither leaked nor shared: a live block is the data of    *)
(* exactly one appender, so re-initialising any other appender leaves it     *)
(* alone.                                                                    *)
HeldOnce ==
  \A b \in Block : Live(b) =>
    \E n \in Name : /\ appender[n].udata = b
                    /\ \A m \in Name \ {n} : appender[m].udata # b

(* A file that is open has data to write through, and its rolling policy,    *)
(* found by name and reused from call to call, works on the data the file    *)
(* has now and not on data freed since.                                      *)
PolicyIsBound ==
  \A n \in Name :
    LET a == appender[n]
    IN  a.open /\ a.type = "rollingfile" =>
          /\ a.udata \in Block
          /\ heap[a.udata].rolls => bound[n] = a.udata

-----------------------------------------------------------------------------
(* The promise of LogRouting, where no two categories share a name.          *)

NamesDiffer ==
  \A c, d \in Category :
    c # d => FileName[c] # FileName[d] /\ PrintName[c] # PrintName[d]

RouteOf(c) ==
  IF routed[c] = NULL THEN [to |-> NULL, format |-> "PLAINTEXT"]
  ELSE LET a == appender[routed[c]]
       IN  [to |-> Destination(a), format |-> RenderedAs(a.layout)]

Configured == { c \in Category : routed[c] # NULL }

Routing == INSTANCE LogRouting
             WITH route <- [c \in Category |-> RouteOf(c)],
                  configured <- Configured

(* A message goes to one place, with the fields documented for its format:   *)
(* those of the last successful ext_init for its module, or for the nearest  *)
(* enclosing one, whatever was configured, reopened or written in between.   *)
ImplementsRouting == NamesDiffer /\ Routing!Spec

=============================================================================
