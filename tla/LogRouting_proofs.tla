------------------------- MODULE LogRouting_proofs -------------------------
(***************************************************************************)
(* LogAppenders implements LogRouting: where the messages of a category go *)
(* and what they show is what the last ext_init for the nearest configured *)
(* module asked for, for any hierarchy, formats, targets and addresses.    *)
(***************************************************************************)
EXTENDS LogAppenders_proofs

(* A category has the appender its own name stands for; LOG.RDK starts with  *)
(* log4crc's.                                                                *)
RoutedByName ==
  \A c \in Category : \/ routed[c] \in {NULL, FileName[c], PrintName[c]}
                      \/ c = RdkRoot /\ routed[c] = Console

(* The appender of a category has the type its name stands for. *)
TypedByName ==
  \A c \in Configured :
    /\ appender[routed[c]].type # "stream"
    /\ appender[routed[c]].type = "rollingfile" <=> routed[c] = FileName[c]

(* Categories stop passing messages on when they are configured: all but     *)
(* LOG.RDK, which is configured from the start.                              *)
PassedOnly ==
  /\ RdkRoot \in Configured
  /\ Configured \subseteq Configurable \cup {RdkRoot}
  /\ Category \ additive \subseteq Configured
  /\ Configured \cap additive \subseteq {RdkRoot}

LiveHasTarget == \A b \in Block : Live(b) => heap[b].target \in Targets

Routes == Safe /\ RoutedByName /\ TypedByName /\ PassedOnly /\ LiveHasTarget

-----------------------------------------------------------------------------
(* The initial state: LOG.RDK prints on the console. *)
LEMMA InitRoutes == Init => Routes
<1> SUFFICES ASSUME Init PROVE Routes
  OBVIOUS
<1>1. Safe
  BY InitSafe
<1>2. Configured = {RdkRoot} /\ routed[RdkRoot] = Console
  BY AppenderAssumption, Names DEF Init, Configured
<1>3. RoutedByName
  BY DEF Init, RoutedByName
<1>4. TypedByName
  BY <1>2, KindsApart, Names, AppenderAssumption
  DEF Init, TypedByName, NewAppender
<1>5. PassedOnly
  BY <1>2 DEF Init, PassedOnly
<1>6. LiveHasTarget
  BY DEF Init, LiveHasTarget, Live
<1> QED  BY <1>1, <1>3, <1>4, <1>5, <1>6 DEF Routes

(* Giving c an appender of its own name takes that name from no other        *)
(* category.                                                                 *)
LEMMA OthersKeepTheirs ==
  ASSUME NamesDiffer, Routes, NEW c \in Category,
         NEW name \in {FileName[c], PrintName[c]},
         NEW d \in Category, d # c, d \in Configured
  PROVE  routed[d] \in Name \ {name}
<1>1. routed[d] \in {FileName[d], PrintName[d], Console}
  BY DEF Routes, RoutedByName, Configured
<1> QED  BY <1>1, Names, KindsApart DEF NamesDiffer

(* What Route does to the hierarchy. *)
LEMMA RoutePasses ==
  ASSUME NamesDiffer, Routes, NEW module \in Configurable \cup {NULL},
         NEW name \in {FileName[CategoryOf(module)],
                       PrintName[CategoryOf(module)]},
         Route(CategoryOf(module), name)
  PROVE  /\ routed' = [routed EXCEPT ![CategoryOf(module)] = name]
         /\ Configured' = Configured \cup {CategoryOf(module)}
         /\ RoutedByName' /\ PassedOnly'
<1> DEFINE c == CategoryOf(module)
<1>1. c \in Category /\ c \in Configurable \cup {RdkRoot}
  BY ModuleIsCategory DEF CategoryOf
<1>2. name \in Name /\ name # NULL
  BY <1>1, Names, AppenderAssumption
<1>3. routed \in [Category -> Name \cup {NULL}] /\ additive \subseteq Category
  BY DEF Routes, Safe, TypeOK
<1>4. /\ routed' = [routed EXCEPT ![c] = name]
      /\ additive' = additive \ {c}
  BY DEF Route
<1> HIDE DEF c
<1>5. \A d \in Category : routed'[d] = IF d = c THEN name ELSE routed[d]
  BY <1>3, <1>4
<1>6. Configured' = Configured \cup {c}
  BY <1>1, <1>2, <1>5 DEF Configured
<1>7. RoutedByName'
  <2> SUFFICES ASSUME NEW d \in Category
               PROVE  \/ routed'[d] \in {NULL, FileName[d], PrintName[d]}
                      \/ d = RdkRoot /\ routed'[d] = Console
    BY DEF RoutedByName
  <2> QED  BY <1>5 DEF Routes, RoutedByName, c
<1>8. PassedOnly'
  BY <1>1, <1>3, <1>4, <1>6 DEF Routes, PassedOnly
<1> QED  BY <1>4, <1>6, <1>7, <1>8 DEF c

-----------------------------------------------------------------------------
(* Layouts and destinations, read back as formats and places. *)

(* Whatever layout an appender has shows the fields of some format. *)
LEMMA LayoutsShowFormats ==
  \A layout : /\ RenderedAs(layout) \in Format
              /\ Fields(RenderedAs(layout)) = Routing!Shows(RenderedAs(layout))
<1>1. \A layout : RenderedAs(layout) \in Format
  BY DEF RenderedAs, Format
<1>2. \A format \in Format : RenderedAs(LayoutOf(format)) = format
  BY DEF Format, LayoutOf, RenderedAs
<1> QED  BY <1>1, <1>2, LayoutsAsDocumented

(* Where the records of an appender that is not a stream go. *)
LEMMA Destinations ==
  ASSUME NEW a, a.type \in Type \ {"stream"},
         IF a.type = "rollingfile"
           THEN a.udata # NULL => a.udata \in Block /\ Live(a.udata)
           ELSE a.udata \in {NULL, Stdout},
         LiveHasTarget
  PROVE  /\ a.type = "to_console" => Destination(a) = "stdout"
         /\ a.type = "to_syslog"  => Destination(a) = "syslog"
         /\ a.type = "to_journal" => Destination(a) = "journal"
         /\ a.type = "rollingfile" =>
              Destination(a) = IF a.udata = NULL THEN NULL
                               ELSE heap[a.udata].target
         /\ a.type = "rollingfile" /\ a.udata # NULL => Destination(a) \in Targets
         /\ a.type # "rollingfile" \/ a.udata # NULL => Destination(a) # NULL
<1>1. CASE a.type = "to_console"
  BY <1>1, AppenderAssumption DEF Destination
<1>2. CASE a.type = "to_syslog"
  BY <1>2, AppenderAssumption DEF Destination
<1>3. CASE a.type = "to_journal"
  BY <1>3, AppenderAssumption DEF Destination
<1>4. CASE a.type = "rollingfile"
  BY <1>4, AppenderAssumption DEF Destination, LiveHasTarget
<1> QED  BY <1>1, <1>2, <1>3, <1>4 DEF Type

(* The appender of a configured category. *)
LEMMA RoutedFits ==
  ASSUME Routes, NEW d \in Configured
  PROVE  LET a == appender[routed[d]]
         IN  /\ routed[d] \in Name
             /\ a.type \in Type \ {"stream"}
             /\ IF a.type = "rollingfile"
                THEN a.udata # NULL => a.udata \in Block /\ Live(a.udata)
                ELSE a.udata \in {NULL, Stdout}
<1>1. routed[d] \in Name
  BY DEF Routes, Safe, TypeOK, Configured
<1> QED  BY <1>1 DEF Routes, Safe, TypeOK, DataFitsType, TypedByName

-----------------------------------------------------------------------------
(* A call of ext_init changes the route of one category: to the format and   *)
(* a place it asked for.                                                     *)
LEMMA PrintConfigures ==
  ASSUME NamesDiffer, Routes,
         NEW module \in Configurable \cup {NULL},
         NEW output \in Output \ {"FILE"}, NEW format \in Format,
         ExtInitPrint(module, output, format)
  PROVE  /\ Routes'
         /\ \A target \in Targets :
              Routing!Configure(CategoryOf(module), output, target, format)
<1> DEFINE c == CategoryOf(module)
           name == PrintName[c]
<1>1. c \in Category /\ name \in Name
  BY ModuleIsCategory, Names
<1>2. Safe'
  BY PrintSafe DEF Routes
<1>3. /\ Route(c, name)
      /\ appender' = [appender EXCEPT
             ![name] = [@ EXCEPT !.type = PrintType(output),
                                 !.layout = LayoutOf(format)]]
      /\ heap' = heap /\ sent' = {}
  BY DEF ExtInitPrint
<1>4. /\ routed' = [routed EXCEPT ![c] = name]
      /\ Configured' = Configured \cup {c}
      /\ RoutedByName' /\ PassedOnly'
  BY <1>3, RoutePasses
<1>5. PrintType(output) \in Type \ {"stream", "rollingfile"}
  BY DEF PrintType, Output, Type
<1>6. /\ appender'[name].type = PrintType(output)
      /\ appender'[name].layout = LayoutOf(format)
      /\ \A n \in Name \ {name} : appender'[n] = appender[n]
  BY <1>1, <1>3 DEF Routes, Safe, TypeOK
<1>7. routed \in [Category -> Name \cup {NULL}]
  BY DEF Routes, Safe, TypeOK
<1>8. LiveHasTarget'
  BY <1>3 DEF Routes, LiveHasTarget, Live
<1>9. name # FileName[c] /\ name # NULL
  BY <1>1, KindsApart, AppenderAssumption
<1> HIDE DEF name, c
<1>10. routed'[c] = name /\ \A d \in Category \ {c} : routed'[d] = routed[d]
  BY <1>1, <1>4, <1>7
<1>11. \A d \in Configured \ {c} : routed[d] \in Name \ {name}
  BY <1>1, OthersKeepTheirs DEF Configured, name
<1>12. TypedByName'
  <2> SUFFICES ASSUME NEW d \in Configured'
               PROVE  /\ appender'[routed'[d]].type # "stream"
                      /\ appender'[routed'[d]].type = "rollingfile"
                           <=> routed'[d] = FileName[d]
    BY DEF TypedByName
  <2>1. CASE d = c
    BY <1>5, <1>6, <1>9, <1>10, <2>1
  <2>2. CASE d # c
    BY <1>4, <1>6, <1>10, <1>11, <2>2 DEF Routes, TypedByName, Configured
  <2> QED  BY <2>1, <2>2
<1>13. Routes'
  BY <1>2, <1>4, <1>8, <1>12 DEF Routes
<1>14. ASSUME NEW d \in Category \ {c} PROVE RouteOf(d)' = RouteOf(d)
  BY <1>3, <1>6, <1>10, <1>11 DEF RouteOf, Destination, Configured
<1>15. Destination(appender[name])' = CASE output = "CONSOLE" -> "stdout"
                                        [] output = "SYSLOG"  -> "syslog"
                                        [] output = "JOURNAL" -> "journal"
  <2>1. appender'[name].udata \in {NULL, Stdout}
    BY <1>1, <1>2, <1>5, <1>6 DEF Safe, DataFitsType
  <2> QED  BY <1>6, <2>1, AppenderAssumption DEF PrintType, Destination, Output
<1>16. RenderedAs(appender'[name].layout) = format
  BY <1>6 DEF Format, LayoutOf, RenderedAs
<1>17. RouteOf(c)' = [to |-> Destination(appender[name])', format |-> format]
  BY <1>9, <1>10, <1>16 DEF RouteOf
<1> DEFINE route == [d \in Category |-> RouteOf(d)]
<1>18. route' = [route EXCEPT
                   ![c] = [to |-> Destination(appender[name])', format |-> format]]
  BY <1>1, <1>14, <1>17
<1>19. ASSUME NEW target \in Targets
       PROVE  Destination(appender[name])' \in Routing!Places(output, target)
  BY <1>15 DEF Output, Routing!Places
<1> HIDE DEF route
<1>20. ASSUME NEW target \in Targets
       PROVE  Routing!Configure(c, output, target, format)
  BY <1>3, <1>4, <1>18, <1>19 DEF Routing!Configure, route
<1> QED  BY <1>13, <1>20 DEF c


(* The data of an appender that is not re-initialised is left alone. *)
LEMMA FileKeepsOthers ==
  ASSUME Safe, NEW name \in Name, NEW format, NEW target \in Targets,
         NEW rolls \in BOOLEAN, ReplaceFile(name, format, target, rolls)
  PROVE  /\ \A n \in Name \ {name} :
              /\ appender'[n] = appender[n]
              /\ appender[n].udata \in Block =>
                   heap'[appender[n].udata] = heap[appender[n].udata]
         /\ appender'[name].type = "rollingfile"
         /\ appender'[name].layout = LayoutOf(format)
         /\ \/ appender'[name].udata = NULL
            \/ /\ appender'[name].udata \in Block
               /\ heap'[appender'[name].udata].target = target
         /\ \A b \in Block : heap'[b] # Free =>
              heap'[b] = heap[b] \/ heap'[b].target = target
<1> DEFINE old == appender[name].udata
<1>1. PICK new \in {NULL} \cup { b \in Block : Freed(old)[b] = Free } :
        /\ appender' = [appender EXCEPT
               ![name] = [type |-> "rollingfile", layout |-> LayoutOf(format),
                          udata |-> new, open |-> FALSE]]
        /\ heap' = IF new = NULL THEN Freed(old)
                   ELSE [Freed(old) EXCEPT
                           ![new] = [target |-> target, rolls |-> rolls]]
  BY DEF ReplaceFile
<1>2. heap \in [Block -> [target : Targets \cup {NULL}, rolls : BOOLEAN]]
  BY DEF Safe, TypeOK
<1>3. Freed(old) \in [Block -> [target : Targets \cup {NULL}, rolls : BOOLEAN]]
  BY <1>2 DEF Freed, Free
<1>4. /\ \A n \in Name \ {name} : appender'[n] = appender[n]
      /\ appender'[name].type = "rollingfile"
      /\ appender'[name].layout = LayoutOf(format)
      /\ appender'[name].udata = new
  BY <1>1 DEF Safe, TypeOK
<1>5. new \in Block => heap'[new].target = target
  BY <1>1, <1>3, AppenderAssumption
<1>6. ASSUME NEW n \in Name \ {name}, appender[n].udata \in Block
      PROVE  heap'[appender[n].udata] = heap[appender[n].udata]
  <2>1. Live(appender[n].udata) /\ appender[n].udata # old
    BY <1>6, OwnBlock DEF Safe
  <2>2. Freed(old)[appender[n].udata] = heap[appender[n].udata]
    BY <1>2, <1>6, <2>1 DEF Freed
  <2>3. appender[n].udata # new
    BY <1>6, <2>1, <2>2, AppenderAssumption DEF Live
  <2> QED  BY <1>1, <1>3, <1>6, <2>2, <2>3
<1>7. ASSUME NEW b \in Block, heap'[b] # Free
      PROVE  heap'[b] = heap[b] \/ heap'[b].target = target
  <2>1. CASE b = new
    BY <1>5, <2>1
  <2>2. CASE b # new
    BY <1>1, <1>2, <1>3, <1>7, <2>2 DEF Freed, Free
  <2> QED  BY <2>1, <2>2
<1> QED  BY <1>4, <1>5, <1>6, <1>7

(* A file: to the target asked for, or nowhere when memory runs out. *)
LEMMA FileConfigures ==
  ASSUME NamesDiffer, Routes,
         NEW module \in Configurable \cup {NULL}, NEW format \in Format,
         NEW target \in Targets, NEW rolls \in BOOLEAN,
         ExtInitFile(module, format, target, rolls)
  PROVE  /\ Routes'
         /\ Routing!Configure(CategoryOf(module), "FILE", target, format)
<1> DEFINE c == CategoryOf(module)
           name == FileName[c]
<1>1. c \in Category /\ name \in Name
  BY ModuleIsCategory, Names
<1>2. Safe'
  BY FileSafe DEF Routes
<1>3. ReplaceFile(name, format, target, rolls) /\ Route(c, name) /\ sent' = {}
  BY DEF ExtInitFile
<1>4. /\ routed' = [routed EXCEPT ![c] = name]
      /\ Configured' = Configured \cup {c}
      /\ RoutedByName' /\ PassedOnly'
  BY <1>3, RoutePasses
<1>5. /\ \A n \in Name \ {name} :
           /\ appender'[n] = appender[n]
           /\ appender[n].udata \in Block =>
                heap'[appender[n].udata] = heap[appender[n].udata]
      /\ appender'[name].type = "rollingfile"
      /\ appender'[name].layout = LayoutOf(format)
      /\ \/ appender'[name].udata = NULL
         \/ /\ appender'[name].udata \in Block
            /\ heap'[appender'[name].udata].target = target
      /\ \A b \in Block : heap'[b] # Free =>
           heap'[b] = heap[b] \/ heap'[b].target = target
  BY <1>1, <1>3, FileKeepsOthers DEF Routes
<1>6. routed \in [Category -> Name \cup {NULL}]
  BY DEF Routes, Safe, TypeOK
<1>7. LiveHasTarget'
  BY <1>5 DEF Routes, LiveHasTarget, Live, Free
<1>8. name # NULL
  BY <1>1, AppenderAssumption
<1> HIDE DEF name, c
<1>9. routed'[c] = name /\ \A d \in Category \ {c} : routed'[d] = routed[d]
  BY <1>1, <1>4, <1>6
<1>10. \A d \in Configured \ {c} : routed[d] \in Name \ {name}
  BY <1>1, OthersKeepTheirs DEF Configured, name
<1>11. TypedByName'
  <2> SUFFICES ASSUME NEW d \in Configured'
               PROVE  /\ appender'[routed'[d]].type # "stream"
                      /\ appender'[routed'[d]].type = "rollingfile"
                           <=> routed'[d] = FileName[d]
    BY DEF TypedByName
  <2>1. CASE d = c
    BY <1>5, <1>9, <2>1 DEF name
  <2>2. CASE d # c
    BY <1>4, <1>5, <1>9, <1>10, <2>2 DEF Routes, TypedByName, Configured
  <2> QED  BY <2>1, <2>2
<1>12. Routes'
  BY <1>2, <1>4, <1>7, <1>11 DEF Routes
<1>13. ASSUME NEW d \in Category \ {c} PROVE RouteOf(d)' = RouteOf(d)
  <2>1. CASE routed[d] = NULL
    BY <1>9, <2>1 DEF RouteOf
  <2>2. CASE routed[d] # NULL
    <3>1. /\ routed'[d] = routed[d]
          /\ appender'[routed[d]] = appender[routed[d]]
          /\ appender[routed[d]].udata \in Block =>
               heap'[appender[routed[d]].udata] = heap[appender[routed[d]].udata]
      BY <1>5, <1>9, <1>10, <2>2 DEF Configured
    <3>2. Destination(appender[routed[d]])' = Destination(appender[routed[d]])
      BY <3>1 DEF Destination
    <3> QED  BY <2>2, <3>1, <3>2 DEF RouteOf
  <2> QED  BY <2>1, <2>2
<1>14. Destination(appender[name])' \in {target, NULL}
  BY <1>5, AppenderAssumption DEF Destination
<1>15. RenderedAs(appender'[name].layout) = format
  BY <1>5 DEF Format, LayoutOf, RenderedAs
<1>16. RouteOf(c)' = [to |-> Destination(appender[name])', format |-> format]
  BY <1>8, <1>9, <1>15 DEF RouteOf
<1> DEFINE route == [d \in Category |-> RouteOf(d)]
<1>17. route' = [route EXCEPT
                   ![c] = [to |-> Destination(appender[name])', format |-> format]]
  BY <1>1, <1>13, <1>16
<1>18. Destination(appender[name])' \in Routing!Places("FILE", target)
  BY <1>14 DEF Routing!Places
<1> HIDE DEF route
<1>19. Routing!Configure(c, "FILE", target, format)
  BY <1>3, <1>4, <1>17, <1>18 DEF Routing!Configure, route
<1> QED  BY <1>12, <1>19 DEF c

-----------------------------------------------------------------------------
(* A message.                                                                *)

(* The appenders a message reaches are those of the nearest configured       *)
(* category: below it every category passes the message on, and it keeps the *)
(* message, but for LOG.RDK, above which nothing is configured.              *)
LEMMA NearestIsReached ==
  ASSUME Routes, NEW c \in Category
  PROVE  Reached(c) = { routed[d] : d \in Routing!Nearest(c) }
<1> DEFINE path == Ancestry[c]
           Passed == { i \in 1 .. Len(path) :
                         \A j \in 1 .. (i - 1) : path[j] \in additive }
           First == { i \in 1 .. Len(path) :
                        /\ path[i] \in Configured
                        /\ \A j \in 1 .. (i - 1) : path[j] \notin Configured }
<1>1. path \in Seq(Category)
  BY AppenderAssumption
<1>2. /\ Len(path) \in Nat
      /\ \A i \in 1 .. Len(path) : path[i] \in Category
      /\ \A i \in 1 .. Len(path) : \A j \in 1 .. (i - 1) : j \in 1 .. Len(path) /\ j < i
  BY <1>1
<1>3. /\ Reached(c) = { routed[path[i]] : i \in Passed } \ {NULL}
      /\ Routing!Nearest(c) = { path[i] : i \in First }
  BY DEF Reached, Routing!Nearest
<1>4. First = { i \in Passed : path[i] \in Configured }
  <2>1. ASSUME NEW i \in First PROVE i \in Passed
    BY <1>2 DEF Routes, PassedOnly
  <2>2. ASSUME NEW i \in Passed, path[i] \in Configured,
               NEW j \in 1 .. (i - 1), path[j] \in Configured
        PROVE  FALSE
    <3>1. path[j] = RdkRoot
      BY <2>2 DEF Routes, PassedOnly
    <3>2. path[i] \notin Configurable \cup {RdkRoot}
      BY <1>2, <3>1, RootOnTop
    <3> QED  BY <2>2, <3>2 DEF Routes, PassedOnly
  <2> QED  BY <2>1, <2>2
<1>5. \A i \in Passed : routed[path[i]] # NULL <=> path[i] \in Configured
  BY <1>2 DEF Configured
<1> HIDE DEF Passed, First, path
<1> QED  BY <1>3, <1>4, <1>5

(* No more than one category is the nearest. *)
LEMMA NearestIsOne ==
  ASSUME NEW c \in Category,
         NEW d \in Routing!Nearest(c), NEW e \in Routing!Nearest(c)
  PROVE  d = e /\ d \in Configured
<1> DEFINE path == Ancestry[c]
<1>1. PICK i \in 1 .. Len(path) :
        /\ d = path[i] /\ path[i] \in Configured
        /\ \A j \in 1 .. (i - 1) : path[j] \notin Configured
  BY DEF Routing!Nearest
<1>2. PICK k \in 1 .. Len(path) :
        /\ e = path[k] /\ path[k] \in Configured
        /\ \A j \in 1 .. (k - 1) : path[j] \notin Configured
  BY DEF Routing!Nearest
<1>3. ~ i < k /\ ~ k < i
  BY <1>1, <1>2
<1> QED  BY <1>1, <1>2, <1>3

(* A message opens appenders and writes; routes stay. *)
LEMMA LogKeepsRoutes ==
  ASSUME Routes, NEW c \in Category, NEW usable \in BOOLEAN, Log(c, usable)
  PROVE  /\ Routes' /\ Configured' = Configured
         /\ \A d \in Category : RouteOf(d)' = RouteOf(d)
<1>1. Safe'
  BY LogSafe DEF Routes
<1>2. routed' = routed /\ additive' = additive /\ heap' = heap
  BY DEF Log
<1>3. ASSUME NEW n \in Name
      PROVE  /\ appender'[n].type = appender[n].type
             /\ appender'[n].layout = appender[n].layout
             /\ \/ appender'[n].udata = appender[n].udata
                \/ appender[n].udata = NULL /\ appender'[n].udata = Stdout
                     /\ appender[n].type = "to_console"
  <2>1. appender[n] \in [type : Type, layout : Layout,
                         udata : Block \cup {NULL, Stdout}, open : BOOLEAN]
    BY DEF Routes, Safe, TypeOK
  <2>2. appender'[n] = Opened(appender[n], usable) \/ appender'[n] = appender[n]
    BY DEF Log
  <2> QED  BY <2>1, <2>2 DEF Opened
<1>4. \A d \in Configured : routed[d] \in Name
  BY DEF Configured, Routes, Safe, TypeOK
<1>5. Configured' = Configured
  BY <1>2 DEF Configured
<1>6. TypedByName'
  BY <1>2, <1>3, <1>4, <1>5 DEF Routes, TypedByName
<1>7. RoutedByName' /\ PassedOnly' /\ LiveHasTarget'
  BY <1>2, <1>5 DEF Routes, RoutedByName, PassedOnly, LiveHasTarget, Live
<1>8. ASSUME NEW d \in Category PROVE RouteOf(d)' = RouteOf(d)
  <2>1. CASE d \notin Configured
    BY <1>2, <2>1 DEF RouteOf, Configured
  <2>2. CASE d \in Configured
    <3> DEFINE a == appender[routed[d]]
    <3>1. /\ a'.type = a.type /\ a'.layout = a.layout
          /\ \/ a'.udata = a.udata
             \/ a.udata = NULL /\ a'.udata = Stdout /\ a.type = "to_console"
      BY <1>2, <1>3, <1>4, <2>2
    <3>2. Destination(a)' = Destination(a)
      BY <1>2, <3>1, AppenderAssumption DEF Destination
    <3> QED  BY <1>2, <3>1, <3>2 DEF RouteOf
  <2> QED  BY <2>1, <2>2
<1> QED  BY <1>1, <1>5, <1>6, <1>7, <1>8 DEF Routes

(* What is written is what the nearest configured category's route says, or  *)
(* nothing when that is a file that cannot be opened.                        *)
LEMMA LogRoutes ==
  ASSUME Routes, NEW c \in Category, NEW usable \in BOOLEAN, Log(c, usable)
  PROVE  Routing!Log(c)
<1> DEFINE route == [d \in Category |-> RouteOf(d)]
           Near == Routing!Nearest(c)
           open == { n \in Reached(c) : appender'[n].open }
<1>1. /\ Routes' /\ Configured' = Configured
      /\ \A d \in Category : RouteOf(d)' = RouteOf(d)
  BY LogKeepsRoutes
<1>2. route' = route
  BY <1>1
<1>3. Reached(c) = { routed[d] : d \in Near }
  BY NearestIsReached
<1>4. heap' = heap /\ routed' = routed
  BY DEF Log
<1>5. /\ \A n \in Name : appender'[n] = IF n \in Reached(c)
                                        THEN Opened(appender[n], usable)
                                        ELSE appender[n]
      /\ sent' = { [to |-> Destination(appender[n])',
                    fields |-> Fields(RenderedAs(appender'[n].layout))] :
                   n \in open }
  <2>1. Reached(c) \subseteq Name
    BY <1>3, NearestIsOne, RoutedFits
  <2> DEFINE after == [n \in Name |-> IF n \in Reached(c)
                                      THEN Opened(appender[n], usable)
                                      ELSE appender[n]]
  <2>2. /\ appender' = after
        /\ sent' = { Record(after[n]) : n \in { n \in Reached(c) : after[n].open } }
    BY DEF Log
  <2>3. \A n \in Name : Record(after[n]) =
          [to |-> Destination(appender[n])',
           fields |-> Fields(RenderedAs(appender'[n].layout))]
    BY <1>4, <2>2 DEF Record, Destination
  <2> HIDE DEF after
  <2>4. sent' = { [to |-> Destination(appender[n])',
                    fields |-> Fields(RenderedAs(appender'[n].layout))] :
                   n \in open }
    BY <2>1, <2>2, <2>3
  <2> QED  BY <2>2, <2>4 DEF after
<1> HIDE DEF route, Near, open
<1>6. CASE Near = {}
  <2>1. sent' = {}
    BY <1>3, <1>5, <1>6 DEF open
  <2> QED  BY <1>1, <1>2, <1>6, <2>1 DEF Routing!Log, route, Near
<1>7. CASE Near # {}
  <2>1. PICK d \in Near : TRUE
    BY <1>7
  <2>2. Near = {d} /\ d \in Configured /\ d \in Category
    BY <2>1, NearestIsOne DEF Near, Configured
  <2>3. PICK n : n = routed[d] /\ Reached(c) = {n}
    BY <1>3, <2>2
  <2>4. /\ n \in Name
        /\ appender'[n].type \in Type \ {"stream"}
        /\ IF appender'[n].type = "rollingfile"
           THEN appender'[n].udata # NULL =>
                  appender'[n].udata \in Block /\ Live(appender'[n].udata)
           ELSE appender'[n].udata \in {NULL, Stdout}
    <3>1. n \in Name
      BY <2>2, <2>3, RoutedFits
    <3>2. appender'[n].type \in Type /\ appender'[n].type # "stream"
      BY <1>1, <1>4, <2>2, <2>3, <3>1 DEF Routes, Safe, TypeOK, TypedByName
    <3> QED  BY <1>1, <1>4, <3>1, <3>2 DEF Routes, Safe, DataFitsType, Live, Free
  <2>5. appender[n] \in [type : Type, layout : Layout,
                         udata : Block \cup {NULL, Stdout}, open : BOOLEAN]
    BY <2>4 DEF Routes, Safe, TypeOK
  <2>6. appender'[n] = Opened(appender[n], usable)
    BY <1>5, <2>3, <2>4
  <2>7. appender'[n].open /\ appender'[n].type = "rollingfile"
          => appender'[n].udata # NULL
    BY <1>1, <2>4, AppenderAssumption DEF Routes, Safe, OpenHasData
  <2>8. ~ appender'[n].open => appender'[n].type = "rollingfile"
    BY <2>5, <2>6 DEF Opened
  <2>9. /\ appender'[n].type # "rollingfile" \/ appender'[n].udata # NULL
             => Destination(appender'[n]) # NULL
        /\ appender'[n].type = "rollingfile" =>
             Destination(appender'[n]) \in Targets \cup {NULL}
    BY <2>4, Destinations DEF Routes
  <2>10. /\ route[d] = [to |-> Destination(appender'[n]),
                        format |-> RenderedAs(appender'[n].layout)]
         /\ Destination(appender'[n]) = Destination(appender[n])'
    <3>1. RouteOf(d)' = [to |-> Destination(appender[n])',
                         format |-> RenderedAs(appender'[n].layout)]
      BY <1>4, <2>2, <2>3 DEF RouteOf, Configured
    <3>2. Destination(appender'[n]) = Destination(appender[n])'
      BY <1>4 DEF Destination
    <3> QED  BY <1>1, <2>2, <3>1, <3>2 DEF route
  <2>11. Fields(RenderedAs(appender'[n].layout)) = Routing!Shows(route[d].format)
    BY <2>10, LayoutsShowFormats
  <2>12. CASE appender'[n].open
    <3>1. route[d].to # NULL
      BY <2>7, <2>9, <2>10, <2>12
    <3>2. open = {n}
      BY <2>3, <2>12 DEF open
    <3>3. sent' = { [to |-> Destination(appender[n])',
                     fields |-> Fields(RenderedAs(appender'[n].layout))] }
      BY <1>5, <3>2
    <3>4. { e \in Near : route[e].to # NULL } = {d}
      BY <2>2, <3>1
    <3>5. sent' = { [to |-> route[e].to, fields |-> Routing!Shows(route[e].format)] :
                    e \in { e \in Near : route[e].to # NULL } }
      BY <2>10, <2>11, <3>3, <3>4
    <3> QED  BY <1>1, <1>2, <3>5 DEF Routing!Log, route, Near
  <2>13. CASE ~ appender'[n].open
    <3>1. sent' = {}
      BY <1>5, <2>3, <2>13 DEF open
    <3>2. route[d].to \in Targets \cup {NULL}
      BY <2>8, <2>9, <2>10, <2>13
    <3> QED  BY <1>1, <1>2, <2>2, <3>1, <3>2 DEF Routing!Log, route, Near
  <2> QED  BY <2>12, <2>13
<1> QED  BY <1>6, <1>7

-----------------------------------------------------------------------------
(* The outputs and formats callers name exist, and no two categories have    *)
(* an appender name in common.                                               *)
NamedUse == NamesDiffer /\ Outputs \subseteq Output /\ Formats \subseteq Format

(* The initial states agree. *)
LEMMA InitRouting == Init => Routing!Init
<1> SUFFICES ASSUME Init PROVE Routing!Init
  OBVIOUS
<1>1. Routes
  BY InitRoutes
<1>2. Configured = {RdkRoot} /\ routed[RdkRoot] = Console /\ sent = {}
  BY AppenderAssumption, Names DEF Init, Configured
<1>3. /\ appender[Console].type = "to_console"
      /\ appender[Console].layout = "rdk_detail_without_ts"
  BY Names DEF Init, NewAppender
<1>4. RouteOf(RdkRoot) = [to |-> "stdout", format |-> "DETAIL_WITHOUT_TS"]
  <2>1. Destination(appender[Console]) = "stdout"
    BY <1>1, <1>2, <1>3, RoutedFits, Destinations DEF Routes
  <2>2. RenderedAs("rdk_detail_without_ts") = "DETAIL_WITHOUT_TS"
    BY DEF RenderedAs
  <2> QED  BY <1>2, <1>3, <2>1, <2>2, AppenderAssumption, Names DEF RouteOf
<1>5. \A d \in Category \ {RdkRoot} :
        RouteOf(d) = [to |-> NULL, format |-> "PLAINTEXT"]
  BY <1>2 DEF RouteOf, Configured
<1> QED  BY <1>2, <1>4, <1>5 DEF Routing!Init

(* Every step is a step of LogRouting, or leaves what it speaks of alone. *)
LEMMA NextRouting ==
  ASSUME NamedUse, Routes, [Next]_vars
  PROVE  Routes' /\ [Routing!Next]_(Routing!vars)
<1> DEFINE route == [d \in Category |-> RouteOf(d)]
<1>1. ASSUME NEW module \in Configurable \cup {NULL}
      PROVE  CategoryOf(module) \in Configurable \cup {RdkRoot}
  BY DEF CategoryOf
<1>2. CASE \E module \in Configurable \cup {NULL}, output \in Outputs \ {"FILE"},
              format \in Formats : ExtInitPrint(module, output, format)
  <2>1. PICK module \in Configurable \cup {NULL}, output \in Outputs \ {"FILE"},
             format \in Formats : ExtInitPrint(module, output, format)
    BY <1>2
  <2>2. output \in Output \ {"FILE"} /\ format \in Format
    BY DEF NamedUse
  <2>3. Routes'
    BY <2>1, <2>2, PrintConfigures DEF NamedUse
  <2>4. PICK target \in Targets : TRUE
    BY AppenderAssumption
  <2>5. Routing!Configure(CategoryOf(module), output, target, format)
    BY <2>1, <2>2, PrintConfigures DEF NamedUse
  <2>6. Routing!Next
    BY <1>1, <2>5 DEF Routing!Next
  <2> QED  BY <2>3, <2>6
<1>3. CASE \E module \in Configurable \cup {NULL}, format \in Formats,
              target \in Targets, rolls \in BOOLEAN :
             "FILE" \in Outputs /\ ExtInitFile(module, format, target, rolls)
  <2>1. PICK module \in Configurable \cup {NULL}, format \in Formats,
             target \in Targets, rolls \in BOOLEAN :
          "FILE" \in Outputs /\ ExtInitFile(module, format, target, rolls)
    BY <1>3
  <2>2. format \in Format
    BY DEF NamedUse
  <2>3. Routes' /\ Routing!Configure(CategoryOf(module), "FILE", target, format)
    BY <2>1, <2>2, FileConfigures DEF NamedUse
  <2>4. Routing!Next
    BY <1>1, <2>1, <2>3 DEF Routing!Next
  <2> QED  BY <2>3, <2>4
<1>4. ASSUME UNCHANGED << appender, routed, additive, heap, bound >>
      PROVE  Routes' /\ route' = route /\ Configured' = Configured
  <2>1. Safe'
    BY <1>4, StutterSafe DEF Routes
  <2>2. Configured' = Configured
    BY <1>4 DEF Configured
  <2>3. RoutedByName' /\ TypedByName' /\ PassedOnly' /\ LiveHasTarget'
    BY <1>4, <2>2
    DEF Routes, RoutedByName, TypedByName, PassedOnly, LiveHasTarget, Live
  <2>4. route' = route
    BY <1>4 DEF RouteOf, Destination
  <2> QED  BY <2>1, <2>2, <2>3, <2>4 DEF Routes
<1>5. CASE ExtInitRefused
  <2>1. Routes' /\ route' = route /\ Configured' = Configured /\ sent' = {}
    BY <1>4, <1>5 DEF ExtInitRefused
  <2>2. Routing!Refuse
    BY <2>1 DEF Routing!Refuse
  <2> QED  BY <2>1, <2>2 DEF Routing!Next
<1>6. CASE \E c \in Category, usable \in BOOLEAN : Log(c, usable)
  <2>1. PICK c \in Category, usable \in BOOLEAN : Log(c, usable)
    BY <1>6
  <2>2. Routes' /\ Routing!Log(c)
    BY <2>1, LogKeepsRoutes, LogRoutes
  <2> QED  BY <2>2 DEF Routing!Next
<1>7. CASE UNCHANGED vars
  <2>1. Routes' /\ route' = route /\ Configured' = Configured /\ sent' = sent
    BY <1>4, <1>7 DEF vars
  <2> QED  BY <2>1 DEF Routing!vars
<1> QED  BY <1>2, <1>3, <1>5, <1>6, <1>7 DEF Next, ExtInit

(* A message goes to one place with the fields documented for its format:    *)
(* those of the last successful ext_init for its module, or for the nearest  *)
(* enclosing one, over any sequence of calls, messages, failed allocations   *)
(* and files that cannot be opened.                                          *)
THEOREM ImplementsRoutingHolds == ASSUME NamedUse PROVE Spec => ImplementsRouting
<1>1. Init => Routes
  BY InitRoutes
<1>2. Routes /\ [Next]_vars => Routes' /\ [Routing!Next]_(Routing!vars)
  BY NextRouting
<1>3. Init => Routing!Init
  BY InitRouting
<1>4. NamesDiffer
  BY DEF NamedUse
<1> QED  BY <1>1, <1>2, <1>3, <1>4, PTL DEF Spec, ImplementsRouting, Routing!Spec

=============================================================================
