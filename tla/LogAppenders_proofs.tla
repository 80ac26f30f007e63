------------------------ MODULE LogAppenders_proofs ------------------------
(***************************************************************************)
(* The data of appenders, for any categories, hierarchy, formats and       *)
(* addresses: types, DataFitsType, HeldOnce and PolicyIsBound; and the     *)
(* tables of formats and syslog priorities.                                *)
(***************************************************************************)
EXTENDS LogAppenders, TLAPS

(* Only names of files ever become rolling files. *)
Kinds ==
  \A n \in Name : appender[n].type = "rollingfile" =>
    \E c \in Category : n = FileName[c]

(* An open rolling file has data: the half of PolicyIsBound that its other   *)
(* half, and the types, rest on.                                             *)
OpenHasData ==
  \A n \in Name : appender[n].open /\ appender[n].type = "rollingfile"
                    => appender[n].udata \in Block

Safe == /\ TypeOK
        /\ DataFitsType
        /\ HeldOnce
        /\ Kinds
        /\ OpenHasData
        /\ PolicyIsBound

-----------------------------------------------------------------------------
(* No two appenders have the same block. *)
LEMMA OwnBlock ==
  ASSUME TypeOK, DataFitsType, HeldOnce,
         NEW n \in Name, NEW m \in Name, n # m, appender[n].udata \in Block
  PROVE  /\ Live(appender[n].udata)
         /\ appender[m].udata # appender[n].udata
<1>1. appender[n].type = "rollingfile"
  BY AppenderAssumption DEF DataFitsType
<1>2. Live(appender[n].udata)
  BY <1>1, AppenderAssumption DEF DataFitsType
<1> QED  BY <1>2 DEF HeldOnce

(* The names of appenders are names. *)
LEMMA Names ==
  /\ Console \in Name
  /\ \A c \in Category : FileName[c] \in Name /\ PrintName[c] \in Name
BY DEF Name

(* What rdk_logger_ext_init configures is a category. *)
LEMMA ModuleIsCategory ==
  ASSUME NEW module \in Configurable \cup {NULL}
  PROVE  CategoryOf(module) \in Category
BY AppenderAssumption DEF CategoryOf

(* The tables from outputs to types and from formats to layouts. *)
LEMMA TypesOfTables ==
  /\ \A output \in Output \ {"FILE"} :
       PrintType(output) \in Type \ {"rollingfile"}
  /\ \A format : LayoutOf(format) \in Layout
BY DEF PrintType, LayoutOf, Output, Type, Layout

-----------------------------------------------------------------------------
(* Safe holds before the first call. *)
LEMMA InitSafe == Init => Safe
<1> SUFFICES ASSUME Init PROVE Safe
  OBVIOUS
<1> USE DEF Init, NewAppender
<1>1. TypeOK
  BY AppenderAssumption, Names DEF TypeOK, Type, Layout, Free
<1>2. \A n \in Name : /\ appender[n].type # "rollingfile"
                      /\ appender[n].udata = NULL
  OBVIOUS
<1>3. DataFitsType /\ Kinds /\ OpenHasData /\ PolicyIsBound
  BY <1>2 DEF DataFitsType, Kinds, OpenHasData, PolicyIsBound
<1>4. HeldOnce
  BY DEF HeldOnce, Live
<1> QED  BY <1>1, <1>3, <1>4 DEF Safe

(* A console, syslog or journal output only touches an appender without data *)
(* of its own.                                                               *)
LEMMA PrintSafe ==
  ASSUME Safe, NEW module \in Configurable \cup {NULL},
         NEW output \in Output \ {"FILE"}, NEW format,
         ExtInitPrint(module, output, format)
  PROVE  Safe'
<1> DEFINE c == CategoryOf(module)
           name == PrintName[c]
<1>1. c \in Category /\ name \in Name
  BY ModuleIsCategory, Names
<1>2. appender[name].type # "rollingfile"
  BY <1>1, KindsApart DEF Safe, Kinds
<1>3. appender[name].udata \in {NULL, Stdout}
  BY <1>1, <1>2 DEF Safe, DataFitsType
<1>4. /\ appender' = [appender EXCEPT
             ![name] = [@ EXCEPT !.type = PrintType(output),
                                 !.layout = LayoutOf(format)]]
      /\ heap' = heap /\ bound' = bound
      /\ routed' = [routed EXCEPT ![c] = name]
      /\ additive' = additive \ {c}
  BY DEF ExtInitPrint, Route
<1>5. TypeOK'
  BY <1>1, <1>4, TypesOfTables DEF Safe, TypeOK
<1>6. /\ \A n \in Name \ {name} : appender'[n] = appender[n]
      /\ appender'[name].type # "rollingfile"
      /\ appender'[name].udata = appender[name].udata
  BY <1>1, <1>4, TypesOfTables DEF Safe, TypeOK
<1> HIDE DEF name
<1>7. DataFitsType'
  BY <1>3, <1>4, <1>6 DEF Safe, DataFitsType, Live
<1>8. HeldOnce'
  BY <1>4, <1>6 DEF Safe, HeldOnce, Live
<1>9. Kinds' /\ OpenHasData' /\ PolicyIsBound'
  BY <1>4, <1>6 DEF Safe, Kinds, OpenHasData, PolicyIsBound
<1> QED  BY <1>5, <1>7, <1>8, <1>9 DEF Safe

(* A file output frees the block of its own appender and no other, and what  *)
(* malloc returns belongs to nobody.                                         *)
LEMMA FileSafe ==
  ASSUME Safe, NEW module \in Configurable \cup {NULL}, NEW format,
         NEW target \in Targets, NEW rolls \in BOOLEAN,
         ExtInitFile(module, format, target, rolls)
  PROVE  Safe'
<1> DEFINE c == CategoryOf(module)
           name == FileName[c]
           old == appender[name].udata
<1>1. c \in Category /\ name \in Name
  BY ModuleIsCategory, Names
<1>2. PICK new \in {NULL} \cup { b \in Block : Freed(old)[b] = Free } :
        /\ appender' = [appender EXCEPT
               ![name] = [type |-> "rollingfile", layout |-> LayoutOf(format),
                          udata |-> new, open |-> FALSE]]
        /\ heap' = IF new = NULL THEN Freed(old)
                   ELSE [Freed(old) EXCEPT
                           ![new] = [target |-> target, rolls |-> rolls]]
  BY DEF ExtInitFile, ReplaceFile
<1>3. /\ bound' = bound
      /\ routed' = [routed EXCEPT ![c] = name]
      /\ additive' = additive \ {c}
  BY DEF ExtInitFile, Route
<1>4. heap \in [Block -> [target : Targets \cup {NULL}, rolls : BOOLEAN]]
  BY DEF Safe, TypeOK
<1>5. Freed(old) \in [Block -> [target : Targets \cup {NULL}, rolls : BOOLEAN]]
  BY <1>4 DEF Freed, Free
<1>6. heap' \in [Block -> [target : Targets \cup {NULL}, rolls : BOOLEAN]]
  BY <1>2, <1>5
<1>7. appender' \in [Name -> [type : Type, layout : Layout,
                              udata : Block \cup {NULL, Stdout}, open : BOOLEAN]]
  BY <1>1, <1>2, TypesOfTables DEF Safe, TypeOK, Type
<1>8. TypeOK'
  BY <1>1, <1>3, <1>6, <1>7 DEF Safe, TypeOK
<1>9. /\ \A n \in Name \ {name} : appender'[n] = appender[n]
      /\ appender'[name].type = "rollingfile"
      /\ appender'[name].udata = new
      /\ ~ appender'[name].open
  BY <1>1, <1>2 DEF Safe, TypeOK
<1>10. new \in Block => heap'[new] # Free
  <2> SUFFICES ASSUME new \in Block PROVE heap'[new] # Free
    OBVIOUS
  <2>1. heap'[new] = [target |-> target, rolls |-> rolls]
    BY <1>2, <1>5, AppenderAssumption
  <2> QED  BY <2>1, AppenderAssumption DEF Free
(* What becomes of the blocks of the other appenders. *)
<1>11. ASSUME NEW n \in Name \ {name}, appender[n].udata \in Block
       PROVE  /\ appender[n].udata # new
              /\ heap'[appender[n].udata] = heap[appender[n].udata]
  <2>1. Live(appender[n].udata) /\ appender[n].udata # old
    BY <1>1, <1>11, OwnBlock DEF Safe
  <2>2. Freed(old)[appender[n].udata] = heap[appender[n].udata]
    BY <1>4, <1>11, <2>1 DEF Freed
  <2>3. appender[n].udata # new
    BY <1>11, <2>1, <2>2, AppenderAssumption DEF Live
  <2> QED  BY <1>2, <1>5, <1>11, <2>2, <2>3
<1>12. ASSUME NEW b \in Block, b # new, heap'[b] # Free
       PROVE  heap'[b] = heap[b] /\ b # old
  BY <1>2, <1>4, <1>5, <1>12 DEF Live, Free, Freed
<1>13. DataFitsType'
  <2> SUFFICES ASSUME NEW n \in Name
               PROVE  IF appender'[n].type = "rollingfile"
                      THEN appender'[n].udata # NULL =>
                             /\ appender'[n].udata \in Block
                             /\ heap'[appender'[n].udata] # Free
                      ELSE appender'[n].udata \in {NULL, Stdout}
    BY DEF DataFitsType, Live, Free
  <2>1. CASE n = name
    BY <1>2, <1>9, <1>10, <2>1
  <2>2. CASE n # name
    BY <1>9, <1>11, <2>2 DEF Safe, DataFitsType, Live, Free
  <2> QED  BY <2>1, <2>2
<1>14. HeldOnce'
  <2> SUFFICES ASSUME NEW b \in Block, heap'[b] # Free
               PROVE  \E n \in Name : /\ appender'[n].udata = b
                                      /\ \A m \in Name \ {n} : appender'[m].udata # b
    BY DEF HeldOnce, Live, Free
  <2>1. CASE b = new
    BY <1>1, <1>9, <1>11, <2>1
  <2>2. CASE b # new
    <3>1. heap[b] # Free /\ b # old
      BY <1>12, <2>2 DEF Live
    <3>2. PICK n \in Name : /\ appender[n].udata = b
                            /\ \A m \in Name \ {n} : appender[m].udata # b
      BY <3>1 DEF Safe, HeldOnce, Live
    <3>3. n # name
      BY <3>1, <3>2
    <3> QED  BY <1>9, <2>2, <3>2, <3>3
  <2> QED  BY <2>1, <2>2
<1>15. Kinds'
  BY <1>1, <1>9 DEF Safe, Kinds
<1>16. OpenHasData'
  BY <1>9 DEF Safe, OpenHasData
<1>17. PolicyIsBound'
  <2> SUFFICES ASSUME NEW n \in Name, appender'[n].open,
                      appender'[n].type = "rollingfile",
                      heap'[appender'[n].udata].rolls
               PROVE  bound'[n] = appender'[n].udata
    BY <1>16 DEF PolicyIsBound, OpenHasData
  <2>1. n # name /\ appender'[n] = appender[n]
    BY <1>9
  <2>2. appender[n].udata \in Block
    BY <2>1 DEF Safe, OpenHasData
  <2> QED  BY <1>3, <1>11, <2>1, <2>2 DEF Safe, PolicyIsBound
<1> QED  BY <1>8, <1>13, <1>14, <1>15, <1>16, <1>17 DEF Safe

(* A message opens appenders: data changes only from none to stdout. *)
LEMMA LogSafe ==
  ASSUME Safe, NEW c \in Category, NEW usable \in BOOLEAN, Log(c, usable)
  PROVE  Safe'
<1> DEFINE after == [n \in Name |-> IF n \in Reached(c)
                                    THEN Opened(appender[n], usable)
                                    ELSE appender[n]]
<1>1. /\ appender' = after
      /\ bound' = [n \in Name |->
           IF /\ ~ appender[n].open /\ after[n].open
              /\ after[n].type = "rollingfile" /\ heap[after[n].udata].rolls
           THEN after[n].udata ELSE bound[n]]
      /\ routed' = routed /\ additive' = additive /\ heap' = heap
  BY DEF Log
<1>2. ASSUME NEW n \in Name
      PROVE  /\ appender'[n] \in [type : Type, layout : Layout,
                                  udata : Block \cup {NULL, Stdout}, open : BOOLEAN]
             /\ appender'[n].type = appender[n].type
             /\ \/ appender'[n].udata = appender[n].udata
                \/ /\ appender[n].type # "rollingfile"
                   /\ appender[n].udata = NULL /\ appender'[n].udata = Stdout
             /\ appender[n].open => appender'[n] = appender[n]
             /\ appender'[n].open /\ ~ appender[n].open
                  /\ appender[n].type = "rollingfile" => appender'[n].udata # NULL
  <2>1. appender[n] \in [type : Type, layout : Layout,
                         udata : Block \cup {NULL, Stdout}, open : BOOLEAN]
    BY DEF Safe, TypeOK
  <2>2. appender'[n] = Opened(appender[n], usable) \/ appender'[n] = appender[n]
    BY <1>1
  <2>3. CASE appender'[n] = appender[n]
    BY <2>1, <2>3
  <2>4. CASE appender'[n] = Opened(appender[n], usable)
    BY <2>1, <2>4 DEF Opened
  <2> QED  BY <2>2, <2>3, <2>4
<1> HIDE DEF after
<1>3. DataFitsType'
  BY <1>1, <1>2 DEF Safe, DataFitsType, Live
<1>4. HeldOnce'
  <2>1. \A n \in Name, b \in Block :
          appender'[n].udata = b <=> appender[n].udata = b
    BY <1>2, AppenderAssumption
  <2> QED  BY <1>1, <2>1 DEF Safe, HeldOnce, Live
<1>5. Kinds'
  BY <1>2 DEF Safe, Kinds
<1>6. OpenHasData'
  <2> SUFFICES ASSUME NEW n \in Name, appender'[n].open,
                      appender'[n].type = "rollingfile"
               PROVE  appender'[n].udata \in Block
    BY DEF OpenHasData
  <2> QED  BY <1>2, <1>3 DEF Safe, OpenHasData, DataFitsType
<1>7. TypeOK'
  <2>1. appender' = [n \in Name |-> appender'[n]]
    BY <1>1 DEF after
  <2>2. appender' \in [Name -> [type : Type, layout : Layout,
                                udata : Block \cup {NULL, Stdout}, open : BOOLEAN]]
    BY <1>2, <2>1
  <2>3. bound' = [n \in Name |->
           IF /\ ~ appender[n].open /\ appender'[n].open
              /\ appender'[n].type = "rollingfile"
              /\ heap[appender'[n].udata].rolls
           THEN appender'[n].udata ELSE bound[n]]
    BY <1>1
  <2>4. bound' \in [Name -> Block \cup {NULL}]
    BY <1>6, <2>3 DEF Safe, TypeOK, OpenHasData
  <2> QED  BY <1>1, <2>2, <2>4 DEF Safe, TypeOK
<1>8. PolicyIsBound'
  <2> SUFFICES ASSUME NEW n \in Name, appender'[n].open,
                      appender'[n].type = "rollingfile",
                      heap'[appender'[n].udata].rolls
               PROVE  bound'[n] = appender'[n].udata
    BY <1>6 DEF PolicyIsBound, OpenHasData
  <2>1. bound'[n] = IF ~ appender[n].open THEN appender'[n].udata ELSE bound[n]
    BY <1>1
  <2>2. CASE appender[n].open
    BY <1>1, <1>2, <2>1, <2>2 DEF Safe, PolicyIsBound
  <2> QED  BY <2>1, <2>2
<1> QED  BY <1>3, <1>4, <1>5, <1>6, <1>7, <1>8 DEF Safe

(* It is about five of the variables only. *)
LEMMA StutterSafe ==
  ASSUME Safe, UNCHANGED << appender, routed, additive, heap, bound >>
  PROVE  Safe'
BY DEF Safe, TypeOK, DataFitsType, HeldOnce, Live, Kinds, OpenHasData,
       PolicyIsBound

(* ext_init is asked for outputs that exist. *)
LEMMA SafeInductive ==
  ASSUME Outputs \subseteq Output, Safe, [Next]_vars
  PROVE  Safe'
<1>1. CASE \E module \in Configurable \cup {NULL}, output \in Outputs \ {"FILE"},
              format \in Formats : ExtInitPrint(module, output, format)
  BY <1>1, PrintSafe
<1>2. CASE \E module \in Configurable \cup {NULL}, format \in Formats,
              target \in Targets, rolls \in BOOLEAN :
             ExtInitFile(module, format, target, rolls)
  BY <1>2, FileSafe
<1>3. CASE ExtInitRefused
  BY <1>3, StutterSafe DEF ExtInitRefused
<1>4. CASE \E c \in Category, usable \in BOOLEAN : Log(c, usable)
  BY <1>4, LogSafe
<1>5. CASE UNCHANGED vars
  BY <1>5, StutterSafe DEF vars
<1> QED  BY <1>1, <1>2, <1>3, <1>4, <1>5 DEF Next, ExtInit

(* Safe holds in every behaviour. *)
LEMMA SafeHolds == ASSUME Outputs \subseteq Output PROVE Spec => []Safe
BY InitSafe, SafeInductive, PTL DEF Spec

-----------------------------------------------------------------------------
(* The types of the appender state. *)
THEOREM TypeCorrect == ASSUME Outputs \subseteq Output PROVE Spec => []TypeOK
<1>1. Safe => TypeOK
  BY DEF Safe
<1> QED  BY <1>1, SafeHolds, PTL

(* What an appender writes through, or the next ext_init frees, is live data *)
(* of its type, however many categories, calls, messages and failed          *)
(* allocations came before.                                                  *)
THEOREM DataFitsTypeHolds ==
  ASSUME Outputs \subseteq Output PROVE Spec => []DataFitsType
<1>1. Safe => DataFitsType
  BY DEF Safe
<1> QED  BY <1>1, SafeHolds, PTL

(* ext_init neither leaks rolling data nor frees another appender's. *)
THEOREM HeldOnceHolds ==
  ASSUME Outputs \subseteq Output PROVE Spec => []HeldOnce
<1>1. Safe => HeldOnce
  BY DEF Safe
<1> QED  BY <1>1, SafeHolds, PTL

(* The rolling policy of an open file works on that file's own data. *)
THEOREM PolicyIsBoundHolds ==
  ASSUME Outputs \subseteq Output PROVE Spec => []PolicyIsBound
<1>1. Safe => PolicyIsBound
  BY DEF Safe
<1> QED  BY <1>1, SafeHolds, PTL

-----------------------------------------------------------------------------
(* Every format a caller can name is given the layout that shows the fields  *)
(* the documents list for it, through the three tables that lead there: the  *)
(* switch of ext_init, the layouts of log4crc and the branches of            *)
(* rdk_format_log.                                                           *)
THEOREM LayoutsAsDocumented ==
  \A format \in Format :
    Fields(RenderedAs(LayoutOf(format))) = Routing!Shows(format)
<1> SUFFICES ASSUME NEW format \in Format
             PROVE  Fields(RenderedAs(LayoutOf(format))) = Routing!Shows(format)
  OBVIOUS
<1>1. RenderedAs(LayoutOf(format)) = format
  BY DEF Format, LayoutOf, RenderedAs
<1>2. CASE format = "PLAINTEXT"
  BY <1>1, <1>2 DEF Fields, Routing!Shows
<1>3. CASE format = "WITH_TS"
  BY <1>1, <1>3 DEF Fields, Routing!Shows
<1>4. CASE format = "WITH_TID"
  BY <1>1, <1>4 DEF Fields, Routing!Shows
<1>5. CASE format = "WITH_TS_TID"
  BY <1>1, <1>5 DEF Fields, Routing!Shows
<1>6. CASE format = "DETAIL_WITH_TS"
  BY <1>1, <1>6 DEF Fields, Routing!Shows
<1>7. CASE format = "DETAIL_WITHOUT_TS"
  BY <1>1, <1>7 DEF Fields, Routing!Shows
<1> QED  BY <1>2, <1>3, <1>4, <1>5, <1>6, <1>7 DEF Format

(* A message never reaches syslog or the journal as less urgent than one     *)
(* that is less severe.                                                      *)
THEOREM SyslogKeepsOrder ==
  \A p, q \in MessagePriority :
    p <= q => SyslogPriority(p) <= SyslogPriority(q)
BY DEF MessagePriority, SyslogPriority

=============================================================================
