------------------------ MODULE LoggerThreads_proofs ------------------------
(***************************************************************************)
(* LoggerThreads for any number of threads, handlers, forks and datagrams. *)
(*                                                                         *)
(* The argument has three layers.  Discipline says where the three mutexes *)
(* are: a thread owns a mutex exactly in the stretches of code Holds       *)
(* names.  Mutual exclusion and the lock order follow from it alone.       *)
(* Custody, on top of it, says who may touch the control socket and the    *)
(* init flag, and gives the properties of the descriptor.  Bindings adds   *)
(* whose path the socket is bound to: with it the threads implement        *)
(* ProcessSocket, step by step.                                            *)
(***************************************************************************)
EXTENDS LoggerThreads, FiniteSetTheorems, TLAPS

(* The stretches that tell RDK_LOG from the calls that initialise. *)
CallFits ==
  \A t \in Threads :
    /\ pc[t] \in {"trylock", "check"} => call[t] \in Logging
    /\ pc[t] \in {"initlock", "initcheck", "inited"} => call[t] \notin Logging

LockTypes ==
  /\ pc \in [Threads -> Labels]
  /\ call \in [Threads -> Calls]
  /\ owner \in [Mutex -> Threads \cup {Free, Orphan}]

OwnersHold == \A t \in Threads, m \in Mutex : owner[m] = t <=> Holds(t, m)

Discipline == LockTypes /\ CallFits /\ OwnersHold

(* The discipline is kept by every step: each action of a thread locks and   *)
(* unlocks exactly what the stretch it enters or leaves demands, and fork    *)
(* leaves no mutex with a thread that is gone.                               *)
LEMMA DisciplineInductive ==
  /\ Init => Discipline
  /\ Discipline /\ [Next]_vars => Discipline'
<1> USE ThreadAssumption
<1>1. Init => Discipline
  BY DEF Init, Discipline, LockTypes, CallFits, OwnersHold, Holds, Labels,
         Calls, Entry, Logging, Mutex
<1>2. ASSUME Discipline, UNCHANGED << pc, call, owner >> PROVE Discipline'
  BY <1>2 DEF Discipline, LockTypes, CallFits, OwnersHold, Holds
<1>3. ASSUME Discipline, NEW t \in Threads, ThreadStep(t) PROVE Discipline'
  <2> USE <1>3 DEF Discipline, LockTypes, CallFits, OwnersHold, Holds, Labels,
          Calls, Entry, Logging, Mutex, gInitMutex, g_dl_request_mutex,
          gLoggingMutex, At, Goto, Lock, Unlock
  <2>1. CASE \E c \in Calls : Begin(t, c)
    BY <2>1 DEF Begin
  <2>2. CASE AwaitLogging(t)
    BY <2>2 DEF AwaitLogging, Await
  <2>3. CASE AwaitRequest(t)
    BY <2>3 DEF AwaitRequest, Await
  <2>4. CASE AwaitInit(t)
    BY <2>4 DEF AwaitInit, Await
  <2>5. CASE TryLock(t)
    BY <2>5 DEF TryLock, AfterRequests
  <2>6. CASE DropInherited(t)
    BY <2>6 DEF DropInherited
  <2>7. CASE NoRequests(t)
    BY <2>7 DEF NoRequests, AfterRequests
  <2>8. CASE StartDrain(t)
    BY <2>8 DEF StartDrain
  <2>9. CASE Receive(t)
    BY <2>9 DEF Receive
  <2>10. CASE EndDrain(t)
    BY <2>10 DEF EndDrain, AfterRequests
  <2>11. CASE ApplyRequest(t)
    BY <2>11 DEF ApplyRequest
  <2>12. CASE Emit(t)
    BY <2>12 DEF Emit
  <2>13. CASE MakeSocket(t)
    BY <2>13 DEF MakeSocket, AfterBind, AfterRequests
  <2>14. CASE BindSocket(t)
    BY <2>14 DEF BindSocket, AfterBind, AfterRequests
  <2>15. CASE AlreadyInited(t)
    BY <2>15 DEF AlreadyInited, AfterInit
  <2>16. CASE Configure(t)
    BY <2>16 DEF Configure
  <2>17. CASE FinishInit(t)
    BY <2>17 DEF FinishInit, AfterInit
  <2>18. CASE Extend(t)
    BY <2>18 DEF Extend
  <2>19. CASE Leave(t)
    BY <2>19 DEF Leave
  <2>20. CASE CheckDeinit(t)
    BY <2>20 DEF CheckDeinit
  <2>21. CASE Deinit(t)
    BY <2>21 DEF Deinit
  <2> QED
    BY <1>3, <2>1, <2>2, <2>3, <2>4, <2>5, <2>6, <2>7, <2>8, <2>9, <2>10, <2>11,
       <2>12, <2>13, <2>14, <2>15, <2>16, <2>17, <2>18, <2>19, <2>20, <2>21
       DEF ThreadStep, Work
<1>4. ASSUME Discipline, NEW t \in Threads, Fork(t) \/ Spawn(t) PROVE Discipline'
  BY <1>4 DEF Discipline, LockTypes, CallFits, OwnersHold, Holds, Labels,
              Mutex, At, Goto, Fork, Spawn
<1> QED
  BY <1>1, <1>2, <1>3, <1>4 DEF Next, Send, SenderQuits, vars, worldVars, socketVars

(* Discipline holds in every behaviour. *)
LEMMA DisciplineAlways == Spec => []Discipline
BY DisciplineInductive, PTL DEF Spec

(***************************************************************************)
(* No two threads are in stretches of code that one mutex guards.          *)
(***************************************************************************)
THEOREM MutualExclusionHolds == Spec => []MutualExclusion
<1>1. Discipline => MutualExclusion
  BY DEF Discipline, OwnersHold, MutualExclusion
<1> QED
  BY <1>1, DisciplineAlways, PTL

(***************************************************************************)
(* A thread that waits for a mutex owns only mutexes that come before it.  *)
(***************************************************************************)
THEOREM LockOrderHolds == Spec => []LockOrder
<1>1. Discipline => LockOrder
  BY DEF Discipline, OwnersHold, LockOrder, Holds, Waits, Mutex, gInitMutex,
         g_dl_request_mutex, gLoggingMutex
<1> QED
  BY <1>1, DisciplineAlways, PTL

(* In every group of threads there is one that waits for nobody in the group.*)
NoCircularWait ==
  \A group \in SUBSET Threads : group # {} =>
    \E t \in group : \A m \in Mutex : Waits(t, m) => owner[m] \notin group

(***************************************************************************)
(* No threads, however many, wait for each other in a circle.  A mutex     *)
(* whose owner a signal handler has stopped, or that fork has left behind, *)
(* is another matter: there the owner does not wait.                       *)
(***************************************************************************)
THEOREM NoCircularWaitHolds == Spec => []NoCircularWait
<1>1. LockOrder => NoCircularWait
  <2> SUFFICES ASSUME LockOrder, NEW group \in SUBSET Threads, group # {},
                      \A t \in group : \E m \in Mutex :
                        Waits(t, m) /\ owner[m] \in group
               PROVE  FALSE
    BY DEF NoCircularWait
  <2> DEFINE Wanted(m) == \E t \in group : Waits(t, m) /\ owner[m] \in group
  <2>1. ASSUME NEW m \in Mutex, Wanted(m)
        PROVE  \E n \in Mutex : m < n /\ Wanted(n)
    <3>1. owner[m] \in group /\ owner[m] \in Threads
      BY <2>1
    <3>2. PICK n \in Mutex : Waits(owner[m], n) /\ owner[n] \in group
      BY <3>1
    <3>3. m < n
      BY <3>1, <3>2 DEF LockOrder
    <3> QED
      BY <3>1, <3>2, <3>3
  <2>2. \E m \in Mutex : Wanted(m)
    OBVIOUS
  <2> HIDE DEF Wanted
  <2> QED
    BY <2>1, <2>2 DEF Mutex
<1> QED
  BY <1>1, LockOrderHolds, PTL

-----------------------------------------------------------------------------
(* The control socket and the init flag.                                     *)

Making(u) == pc[u] \in {"bindlock", "socket", "bind"}

Initialising(u) == call[u] \notin Logging /\ (Making(u) \/ pc[u] = "inited")

CustodyTypes ==
  /\ isLogInited \in BOOLEAN
  /\ g_dl_socket_pid \in Nat \cup {NoPid}
  /\ inbox \in Seq(Datagram)
  /\ pid \in Nat
  /\ senderActive \in BOOLEAN
  /\ configured \in Nat

(* The process has the descriptor it knows of and no other. *)
OneDescriptor ==
  \/ g_dl_socket = NoSocket /\ sockets = {}
  \/ /\ g_dl_socket \in Nat
     /\ \E p \in Nat \cup {NoPid} : sockets = { << g_dl_socket, p >> }

(* It is bound to the path of g_dl_socket_pid, except between socket() and   *)
(* bind().                                                                   *)
BoundToPid ==
  /\ g_dl_socket # NoSocket
  /\ owner[g_dl_request_mutex] # Orphan
  /\ \A u \in Threads : pc[u] # "bind"
  => << g_dl_socket, g_dl_socket_pid >> \in sockets

DrainsOwn ==
  \A t \in Threads :
    pc[t] \in {"drain", "applylock", "applying"} =>
      g_dl_socket # NoSocket /\ g_dl_socket_pid = pid

(* Whoever is about to make a socket is alone in that, and there is none.    *)
OneMaker ==
  /\ \A t \in Threads : pc[t] \in {"bindlock", "socket"} => g_dl_socket = NoSocket
  /\ \A t \in Threads : pc[t] = "bind" => g_dl_socket # NoSocket
  /\ \A t, u \in Threads : Making(t) /\ Making(u) => t = u

(* Until isLogInited is raised only the initialising thread has to do with   *)
(* the socket; the file it has read is the only one.  (A child forked        *)
(* meanwhile never gets to initialise: it cannot get gInitMutex.)            *)
BeforeInit ==
  ~ isLogInited /\ owner[gInitMutex] # Orphan =>
    /\ \A u \in Threads : Making(u) => call[u] \notin Logging
    /\ g_dl_socket # NoSocket =>
         \E u \in Threads :
           /\ Initialising(u)
           /\ pc[u] = "bind" \/ (pc[u] = "inited" /\ g_dl_socket_pid = pid)
    /\ configured # 0 => \E u \in Threads : Initialising(u)

OneInit ==
  /\ configured <= 1
  /\ \A u \in Threads : Initialising(u) => ~ isLogInited

Custody ==
  /\ CustodyTypes /\ OneDescriptor /\ BoundToPid /\ DrainsOwn /\ OneMaker
  /\ BeforeInit /\ OneInit

(* Queues of datagrams stay queues of datagrams. *)
LEMMA InboxTypes ==
  /\ << >> \in Seq(Datagram)
  /\ \A q \in Seq(Datagram) : q # << >> => Tail(q) \in Seq(Datagram)
  /\ \A q \in Seq(Datagram), d \in Datagram : Append(q, d) \in Seq(Datagram)
OBVIOUS

(* There is no socket before the first call. *)
LEMMA CustodyInitially == Init => Custody
<1> SUFFICES ASSUME Init PROVE Custody
  OBVIOUS
<1>1. CustodyTypes
  BY InboxTypes DEF Init, CustodyTypes, NoPid
<1>2. OneDescriptor /\ BoundToPid /\ DrainsOwn /\ OneMaker
  BY DEF Init, OneDescriptor, BoundToPid, DrainsOwn, OneMaker, Making
<1>3. BeforeInit /\ OneInit
  BY DEF Init, BeforeInit, OneInit, Initialising, Making
<1> QED
  BY <1>1, <1>2, <1>3 DEF Custody

(* Closing leaves nothing behind: there was one descriptor. *)
LEMMA ClosedIsGone ==
  ASSUME OneDescriptor, CloseSocket
  PROVE  g_dl_socket' = NoSocket /\ sockets' = {} /\ inbox' = << >>
BY DEF OneDescriptor, CloseSocket

(* bind names the one descriptor after this process. *)
LEMMA BoundIsOurs ==
  ASSUME OneDescriptor, g_dl_socket # NoSocket,
         NEW bound,
         bound = { IF s[1] = g_dl_socket THEN << s[1], pid >> ELSE s : s \in sockets }
  PROVE  bound = { << g_dl_socket, pid >> }
<1>1. PICK p : sockets = { << g_dl_socket, p >> }
  BY DEF OneDescriptor
<1>2. \A b : b \in bound <=> b = << g_dl_socket, pid >>
  BY <1>1
<1> QED
  BY <1>2

(* socket returns a number. *)
LEMMA FreshDescriptor ==
  ASSUME sockets = {}
  PROVE  NewDescriptor \in Nat
<1>1. Cardinality(sockets) = 0
  BY FS_EmptySet
<1> QED
  BY <1>1 DEF NewDescriptor

(* A step that at most empties the inbox and binds the socket.               *)
LEMMA TypesKept ==
  ASSUME CustodyTypes, inbox' \in {<< >>, inbox},
         g_dl_socket_pid' \in {pid, g_dl_socket_pid},
         UNCHANGED << isLogInited, pid, senderActive, configured >>
  PROVE  CustodyTypes'
BY InboxTypes DEF CustodyTypes

(* A step of a thread that has nothing to do with the socket. *)
Involved == {"bindlock", "socket", "bind", "inited", "drain", "applylock", "applying"}

Bystander(t) ==
  /\ \E l \in Labels : pc' = [pc EXCEPT ![t] = l] /\ l \notin Involved
  /\ pc[t] \notin Involved
  /\ \A u \in Threads \ {t} : call'[u] = call[u]
  /\ \A m \in Mutex : owner'[m] = Orphan <=> owner[m] = Orphan
  /\ UNCHANGED << isLogInited, socketVars, worldVars, configured >>

(* A thread that has nothing to do with the socket keeps Custody. *)
LEMMA BystanderKeepsCustody ==
  ASSUME LockTypes, Custody, NEW t \in Threads, Bystander(t)
  PROVE  Custody'
<1>1. \A u \in Threads : (pc'[u] = pc[u] /\ call'[u] = call[u]) \/ u = t
  BY DEF LockTypes, Bystander
<1>2. pc'[t] \notin Involved /\ pc[t] \notin Involved
  BY DEF LockTypes, Bystander
<1> QED
  BY <1>1, <1>2 DEF Bystander, Involved, Custody, CustodyTypes, OneDescriptor,
     BoundToPid, DrainsOwn, OneMaker, BeforeInit, OneInit, Making,
     Initialising, socketVars, worldVars, Mutex, gInitMutex, g_dl_request_mutex

(* Which steps those are. *)
LEMMA Bystanders ==
  ASSUME Discipline, NEW t \in Threads
  PROVE  (\/ \E c \in Calls : Begin(t, c)
          \/ AwaitLogging(t) /\ pc[t] # "applylock"
          \/ AwaitInit(t) \/ TryLock(t) \/ NoRequests(t) \/ Emit(t)
          \/ AlreadyInited(t) \/ Extend(t) \/ Leave(t) \/ CheckDeinit(t))
         => Bystander(t)
<1>0. LockTypes /\ \A m \in Mutex : Holds(t, m) => owner[m] # Orphan
  BY ThreadAssumption DEF Discipline, OwnersHold
<1> HIDE DEF Discipline
<1> USE <1>0, ThreadAssumption DEF LockTypes, Mutex, Labels, At, Goto, Lock,
        Unlock, Bystander, Involved, gInitMutex, g_dl_request_mutex,
        gLoggingMutex, socketVars, worldVars
<1>1. ASSUME NEW c \in Calls, Begin(t, c) PROVE Bystander(t)
  <2>1. Entry[c] \in Labels \ Involved
    BY DEF Calls, Entry
  <2> QED
    BY <1>1, <2>1 DEF Begin
<1>2. ASSUME AwaitLogging(t) /\ pc[t] # "applylock" PROVE Bystander(t)
  BY <1>2 DEF AwaitLogging, Await
<1>3. ASSUME AwaitInit(t) PROVE Bystander(t)
  BY <1>3 DEF AwaitInit, Await
<1>4. ASSUME TryLock(t) PROVE Bystander(t)
  BY <1>4 DEF TryLock, AfterRequests
<1>5. ASSUME NoRequests(t) PROVE Bystander(t)
  BY <1>5 DEF NoRequests, AfterRequests, Holds
<1>6. ASSUME Emit(t) PROVE Bystander(t)
  BY <1>6 DEF Emit, Holds
<1>7. ASSUME AlreadyInited(t) PROVE Bystander(t)
  BY <1>7 DEF AlreadyInited, AfterInit, Holds
<1>8. ASSUME Extend(t) PROVE Bystander(t)
  BY <1>8 DEF Extend, Holds
<1>9. ASSUME Leave(t) PROVE Bystander(t)
  BY <1>9 DEF Leave, Holds
<1>10. ASSUME CheckDeinit(t) PROVE Bystander(t)
  BY <1>10 DEF CheckDeinit
<1> QED
  BY <1>1, <1>2, <1>3, <1>4, <1>5, <1>6, <1>7, <1>8, <1>9, <1>10

(* Every step keeps Custody. *)
LEMMA CustodyKept == Discipline /\ Custody /\ [Next]_vars => Custody'
<1> USE ThreadAssumption
<1>1. ASSUME Discipline, Custody, UNCHANGED vars PROVE Custody'
  BY <1>1 DEF Custody, CustodyTypes, OneDescriptor, BoundToPid, DrainsOwn,
     OneMaker, BeforeInit, OneInit, Making, Initialising, vars
<1>2. ASSUME Discipline, Custody, NEW t \in Threads, ThreadStep(t) PROVE Custody'
  <2>1. CASE \/ \E c \in Calls : Begin(t, c)
             \/ AwaitLogging(t) /\ pc[t] # "applylock"
             \/ AwaitInit(t) \/ TryLock(t) \/ NoRequests(t) \/ Emit(t)
             \/ AlreadyInited(t) \/ Extend(t) \/ Leave(t) \/ CheckDeinit(t)
    BY <1>2, <2>1, Bystanders, BystanderKeepsCustody DEF Discipline
  <2> USE <1>2 DEF Discipline, LockTypes, CallFits, OwnersHold, Holds, Labels,
          Calls, Entry, Mutex, gInitMutex, g_dl_request_mutex,
          gLoggingMutex, At, Goto, Lock, Unlock, Inherited, socketVars, worldVars,
          Custody, CustodyTypes, OneDescriptor, BoundToPid, DrainsOwn,
          OneMaker, BeforeInit, OneInit, Making, Initialising
  <2>2. CASE AwaitLogging(t) /\ pc[t] = "applylock"
    <3>1. CustodyTypes' /\ OneDescriptor'
      BY <2>2 DEF AwaitLogging, Await
    <3>2. BoundToPid'
      BY <2>2 DEF AwaitLogging, Await
    <3>3. DrainsOwn'
      BY <2>2 DEF AwaitLogging, Await
    <3>4. OneMaker'
      BY <2>2 DEF AwaitLogging, Await
    <3>5. BeforeInit' /\ OneInit'
      BY <2>2 DEF AwaitLogging, Await
    <3> QED
      BY <3>1, <3>2, <3>3, <3>4, <3>5
  <2>3. CASE AwaitRequest(t)
    <3>1. CustodyTypes'
      BY <2>3, InboxTypes DEF AwaitRequest, Await
    <3>2. OneDescriptor'
      BY <2>3 DEF AwaitRequest, Await
    <3>3. BoundToPid'
      BY <2>3 DEF AwaitRequest, Await
    <3>4. DrainsOwn'
      BY <2>3 DEF AwaitRequest, Await
    <3>5. OneMaker'
      BY <2>3 DEF AwaitRequest, Await
    <3>6. BeforeInit'
      BY <2>3 DEF AwaitRequest, Await
    <3>7. OneInit'
      BY <2>3 DEF AwaitRequest, Await
    <3> QED
      BY <3>1, <3>2, <3>3, <3>4, <3>5, <3>6, <3>7
  <2>6. CASE DropInherited(t)
    <3>0. /\ g_dl_socket' = NoSocket /\ sockets' = {} /\ inbox' = << >>
      BY <2>6, ClosedIsGone DEF DropInherited
    <3>1. CustodyTypes'
      BY <2>6, <3>0, TypesKept DEF DropInherited
    <3>2. OneDescriptor'
      BY <2>6, <3>0 DEF DropInherited
    <3>3. BoundToPid'
      BY <2>6, <3>0 DEF DropInherited
    <3>4. DrainsOwn'
      BY <2>6, <3>0 DEF DropInherited
    <3>5. OneMaker'
      BY <2>6, <3>0 DEF DropInherited
    <3>6. BeforeInit'
      BY <2>6, <3>0 DEF DropInherited
    <3>7. OneInit'
      BY <2>6, <3>0 DEF DropInherited
    <3> QED
      BY <3>1, <3>2, <3>3, <3>4, <3>5, <3>6, <3>7
  <2>8. CASE StartDrain(t)
    BY <2>8 DEF StartDrain
  <2>9. CASE Receive(t)
    <3>1. CustodyTypes'
      BY <2>9, InboxTypes DEF Receive
    <3>2. OneDescriptor'
      BY <2>9 DEF Receive
    <3>3. BoundToPid'
      BY <2>9 DEF Receive
    <3>4. DrainsOwn'
      BY <2>9 DEF Receive
    <3>5. OneMaker'
      BY <2>9 DEF Receive
    <3>6. BeforeInit'
      BY <2>9 DEF Receive
    <3>7. OneInit'
      BY <2>9 DEF Receive
    <3> QED
      BY <3>1, <3>2, <3>3, <3>4, <3>5, <3>6, <3>7
  <2>10. CASE EndDrain(t)
    BY <2>10 DEF EndDrain, AfterRequests
  <2>11. CASE ApplyRequest(t)
    <3>1. CustodyTypes'
      BY <2>11, InboxTypes DEF ApplyRequest
    <3>2. OneDescriptor'
      BY <2>11 DEF ApplyRequest
    <3>3. BoundToPid'
      BY <2>11 DEF ApplyRequest
    <3>4. DrainsOwn'
      BY <2>11 DEF ApplyRequest
    <3>5. OneMaker'
      BY <2>11 DEF ApplyRequest
    <3>6. BeforeInit'
      BY <2>11 DEF ApplyRequest
    <3>7. OneInit'
      BY <2>11 DEF ApplyRequest
    <3> QED
      BY <3>1, <3>2, <3>3, <3>4, <3>5, <3>6, <3>7
  <2>13. CASE MakeSocket(t)
    <3>0. \/ /\ g_dl_socket' \in Nat /\ sockets' = { << g_dl_socket', NoPid >> }
             /\ g_dl_socket' # NoSocket /\ inbox' = << >> /\ pc'[t] = "bind"
          \/ /\ g_dl_socket' = NoSocket /\ sockets' = {} /\ pc'[t] # "bind"
             /\ UNCHANGED inbox
      <4>1. sockets = {}
        BY <2>13 DEF MakeSocket, NoSocket
      <4> QED
        BY <4>1, <2>13, FreshDescriptor DEF MakeSocket, AfterBind, AfterRequests, NoSocket
    <3>1. CustodyTypes'
      BY <2>13, <3>0, TypesKept DEF MakeSocket, AfterBind, AfterRequests, NoSocket
    <3>2. OneDescriptor'
      BY <2>13, <3>0 DEF MakeSocket, AfterBind, AfterRequests, NoSocket
    <3>3. BoundToPid'
      BY <2>13, <3>0 DEF MakeSocket, AfterBind, AfterRequests, NoSocket
    <3>4. DrainsOwn'
      BY <2>13, <3>0 DEF MakeSocket, AfterBind, AfterRequests, NoSocket
    <3>5. OneMaker'
      BY <2>13, <3>0 DEF MakeSocket, AfterBind, AfterRequests, NoSocket
    <3>6. BeforeInit'
      BY <2>13, <3>0 DEF MakeSocket, AfterBind, AfterRequests, NoSocket
    <3>7. OneInit'
      BY <2>13, <3>0 DEF MakeSocket, AfterBind, AfterRequests, NoSocket
    <3> QED
      BY <3>1, <3>2, <3>3, <3>4, <3>5, <3>6, <3>7
  <2>14. CASE BindSocket(t)
    <3>0. \/ /\ g_dl_socket' = NoSocket /\ sockets' = {} /\ inbox' = << >>
             /\ UNCHANGED g_dl_socket_pid
          \/ /\ sockets' = { << g_dl_socket, pid >> } /\ g_dl_socket_pid' = pid
             /\ UNCHANGED << g_dl_socket, inbox >>
      <4>1. OneDescriptor /\ g_dl_socket # NoSocket
        BY <2>14 DEF BindSocket
      <4> HIDE DEF OneDescriptor
      <4> QED
        BY <4>1, <2>14, ClosedIsGone, BoundIsOurs DEF BindSocket
    <3>1. CustodyTypes'
      BY <2>14, <3>0, TypesKept DEF BindSocket, NoSocket, AfterBind, AfterRequests
    <3>2. OneDescriptor'
      BY <2>14, <3>0 DEF BindSocket, NoSocket, AfterBind, AfterRequests
    <3>3. BoundToPid'
      BY <2>14, <3>0 DEF BindSocket, NoSocket, AfterBind, AfterRequests
    <3>4. DrainsOwn'
      BY <2>14, <3>0 DEF BindSocket, NoSocket, AfterBind, AfterRequests
    <3>5. OneMaker'
      BY <2>14, <3>0 DEF BindSocket, NoSocket, AfterBind, AfterRequests
    <3>6. BeforeInit'
      BY <2>14, <3>0 DEF BindSocket, NoSocket, AfterBind, AfterRequests
    <3>7. OneInit'
      BY <2>14, <3>0 DEF BindSocket, NoSocket, AfterBind, AfterRequests
    <3> QED
      BY <3>1, <3>2, <3>3, <3>4, <3>5, <3>6, <3>7
  <2>16. CASE Configure(t)
    BY <2>16 DEF Configure
  <2>17. CASE FinishInit(t)
    BY <2>17 DEF FinishInit, AfterInit
  <2>21. CASE Deinit(t)
    <3>0. /\ g_dl_socket' = NoSocket /\ sockets' = {} /\ inbox' \in {<< >>, inbox}
      BY <2>21, ClosedIsGone DEF Deinit, NoSocket
    <3>1. CustodyTypes'
      BY <2>21, <3>0, TypesKept DEF Deinit, NoSocket
    <3>2. OneDescriptor'
      BY <2>21, <3>0 DEF Deinit, NoSocket
    <3>3. BoundToPid'
      BY <2>21, <3>0 DEF Deinit, NoSocket
    <3>4. DrainsOwn'
      BY <2>21, <3>0 DEF Deinit, NoSocket
    <3>5. OneMaker'
      BY <2>21, <3>0 DEF Deinit, NoSocket
    <3>6. BeforeInit'
      BY <2>21, <3>0 DEF Deinit, NoSocket
    <3>7. OneInit'
      BY <2>21, <3>0 DEF Deinit, NoSocket
    <3> QED
      BY <3>1, <3>2, <3>3, <3>4, <3>5, <3>6, <3>7
  <2> QED
    BY <1>2, <2>1, <2>2, <2>3, <2>6, <2>8, <2>9, <2>10, <2>11, <2>13, <2>14,
       <2>16, <2>17, <2>21
       DEF ThreadStep, Work
<1>3. ASSUME Discipline, Custody, NEW t \in Threads, Fork(t) \/ Spawn(t) PROVE Custody'
  <2> USE <1>3 DEF Discipline, LockTypes, OwnersHold, Holds, Labels, Mutex,
          gInitMutex, g_dl_request_mutex, gLoggingMutex, At, Goto, socketVars,
          worldVars, Custody, CustodyTypes, OneDescriptor, BoundToPid,
          DrainsOwn, OneMaker, BeforeInit, OneInit, Making, Initialising
  <2>1. CASE Fork(t)
    BY <2>1 DEF Fork
  <2>2. CASE Spawn(t)
    BY <2>2 DEF Spawn
  <2> QED
    BY <1>3, <2>1, <2>2
<1>4. ASSUME Discipline, Custody, Send \/ SenderQuits PROVE Custody'
  <2>1. UNCHANGED << pc, call, owner, isLogInited, g_dl_socket, g_dl_socket_pid,
                     sockets, pid, configured >>
    BY <1>4 DEF Send, SenderQuits, worldVars, socketVars
  <2>2. inbox' \in Seq(Datagram) /\ senderActive' \in BOOLEAN
    BY <1>4, InboxTypes DEF Send, SenderQuits, worldVars, socketVars, Custody,
       CustodyTypes
  <2> QED
    BY <1>4, <2>1, <2>2 DEF Custody, CustodyTypes, OneDescriptor, BoundToPid,
       DrainsOwn, OneMaker, BeforeInit, OneInit, Making, Initialising
<1> QED
  BY <1>1, <1>2, <1>3, <1>4 DEF Next

(* The locks and the socket together. *)
LEMMA Invariant == Spec => [](Discipline /\ Custody)
BY DisciplineInductive, CustodyInitially, CustodyKept, PTL DEF Spec

(***************************************************************************)
(* The variables hold what the code can put into them.                     *)
(***************************************************************************)
THEOREM TypeCorrect == Spec => []TypeOK
<1>1. OneDescriptor => /\ g_dl_socket \in Nat \cup {NoSocket}
                       /\ sockets \subseteq Nat \X (Nat \cup {NoPid})
                       /\ g_dl_socket # NoSocket => \E s \in sockets : s[1] = g_dl_socket
  <2>1. CASE g_dl_socket = NoSocket /\ sockets = {}
    BY <2>1
  <2>2. ASSUME g_dl_socket \in Nat, NEW p \in Nat \cup {NoPid},
               sockets = { << g_dl_socket, p >> }
        PROVE  /\ sockets \subseteq Nat \X (Nat \cup {NoPid})
               /\ \E s \in sockets : s[1] = g_dl_socket
    <3>1. << g_dl_socket, p >> \in sockets /\ << g_dl_socket, p >>[1] = g_dl_socket
      BY <2>2
    <3> QED
      BY <2>2, <3>1
  <2> QED
    BY <2>1, <2>2 DEF OneDescriptor
<1>2. Discipline /\ Custody => TypeOK
  BY <1>1 DEF Discipline, LockTypes, Custody, CustodyTypes, TypeOK
<1> QED
  BY <1>2, Invariant, PTL

(***************************************************************************)
(* No descriptor is ever overwritten while open.                           *)
(***************************************************************************)
THEOREM NoDescriptorLostHolds == Spec => []NoDescriptorLost
<1>1. Custody => NoDescriptorLost
  BY DEF Custody, OneDescriptor, NoDescriptorLost
<1> QED
  BY <1>1, Invariant, PTL

(***************************************************************************)
(* Datagrams are taken only from a socket bound to the process's own path. *)
(***************************************************************************)
THEOREM DrainsOwnSocketHolds == Spec => []DrainsOwnSocket
<1>1. Discipline /\ Custody => DrainsOwnSocket
  BY ThreadAssumption DEF Discipline, LockTypes, OwnersHold, Holds, Custody,
     BoundToPid, DrainsOwn, DrainsOwnSocket, Mutex, g_dl_request_mutex,
     gInitMutex, gLoggingMutex
<1> QED
  BY <1>1, Invariant, PTL

(***************************************************************************)
(* debug.ini is read to its end once.                                      *)
(***************************************************************************)
THEOREM ConfiguredOnceHolds == Spec => []ConfiguredOnce
<1>1. Custody => ConfiguredOnce
  BY DEF Custody, OneInit, ConfiguredOnce
<1> QED
  BY <1>1, Invariant, PTL

-----------------------------------------------------------------------------
(* Fork with nobody in the library.                                          *)

NoOrphan == \A m \in Mutex : owner[m] # Orphan

LoggersHaveMoved ==
  \A t \in Threads :
    /\ call[t] = "log" /\ pc[t] \in {"loglock", "logging"}
    /\ owner[g_dl_request_mutex] = Free
    => ~ Inherited

(* A fork with no thread inside leaves no mutex behind. *)
LEMMA NoOrphanKept ==
  ASSUME ~ ForkAnywhere, Discipline, NoOrphan, [Next]_vars
  PROVE  NoOrphan'
<1>1. CASE \E t \in Threads : Fork(t)
  <2>1. \A m \in Mutex : owner[m] = Free
    BY <1>1 DEF Fork, Quiet, Discipline, LockTypes, OwnersHold, Holds, NoOrphan
  <2> QED
    BY <1>1, <2>1, ThreadAssumption DEF Fork, NoOrphan
<1>2. CASE ~ \E t \in Threads : Fork(t)
  BY <1>2, ThreadAssumption DEF Next, vars, ThreadStep, Work, Begin,
     AwaitLogging, AwaitRequest, AwaitInit, Await, TryLock, DropInherited,
     NoRequests, StartDrain, Receive, EndDrain, ApplyRequest, Emit,
     MakeSocket, BindSocket, AlreadyInited, Configure, FinishInit, Extend,
     Leave, CheckDeinit, Deinit, Spawn, Send, SenderQuits, Lock, Unlock,
     NoOrphan, Discipline, LockTypes
<1> QED
  BY <1>1, <1>2

(* Who goes on to log has left the inherited socket. *)
LEMMA LoggersKeepAway ==
  ASSUME Discipline, Custody, LoggersHaveMoved, [Next]_vars
  PROVE  LoggersHaveMoved'
<1> USE ThreadAssumption
<1>1. CASE UNCHANGED vars
  BY <1>1 DEF LoggersHaveMoved, Inherited, vars
<1>2. ASSUME NEW t \in Threads, ThreadStep(t) PROVE LoggersHaveMoved'
  <2> USE <1>2 DEF Discipline, LockTypes, CallFits, OwnersHold, Holds, Labels,
          Calls, Entry, Logging, Mutex, gInitMutex, g_dl_request_mutex,
          gLoggingMutex, At, Goto, Lock, Unlock, socketVars, worldVars, Custody, OneMaker,
          DrainsOwn, Making, LoggersHaveMoved, Inherited
  <2>1. CASE \E c \in Calls : Begin(t, c)
    BY <2>1 DEF Begin
  <2>2. CASE AwaitLogging(t)
    BY <2>2 DEF AwaitLogging, Await
  <2>3. CASE AwaitRequest(t)
    BY <2>3 DEF AwaitRequest, Await
  <2>4. CASE AwaitInit(t)
    BY <2>4 DEF AwaitInit, Await
  <2>5. CASE TryLock(t)
    BY <2>5 DEF TryLock, AfterRequests
  <2>6. CASE DropInherited(t)
    BY <2>6 DEF DropInherited, CloseSocket
  <2>7. CASE NoRequests(t)
    BY <2>7 DEF NoRequests, AfterRequests
  <2>8. CASE StartDrain(t)
    BY <2>8 DEF StartDrain
  <2>9. CASE Receive(t)
    BY <2>9 DEF Receive
  <2>10. CASE EndDrain(t)
    BY <2>10 DEF EndDrain, AfterRequests
  <2>11. CASE ApplyRequest(t)
    BY <2>11 DEF ApplyRequest
  <2>12. CASE Emit(t)
    BY <2>12 DEF Emit
  <2>13. CASE MakeSocket(t)
    BY <2>13 DEF MakeSocket, AfterBind, AfterRequests
  <2>14. CASE BindSocket(t)
    BY <2>14 DEF BindSocket, AfterBind, AfterRequests, CloseSocket
  <2>15. CASE AlreadyInited(t)
    BY <2>15 DEF AlreadyInited, AfterInit
  <2>16. CASE Configure(t)
    BY <2>16 DEF Configure
  <2>17. CASE FinishInit(t)
    BY <2>17 DEF FinishInit, AfterInit
  <2>18. CASE Extend(t)
    BY <2>18 DEF Extend
  <2>19. CASE Leave(t)
    BY <2>19 DEF Leave
  <2>20. CASE CheckDeinit(t)
    BY <2>20 DEF CheckDeinit
  <2>21. CASE Deinit(t)
    BY <2>21 DEF Deinit, CloseSocket
  <2> QED
    BY <1>2, <2>1, <2>2, <2>3, <2>4, <2>5, <2>6, <2>7, <2>8, <2>9, <2>10, <2>11,
       <2>12, <2>13, <2>14, <2>15, <2>16, <2>17, <2>18, <2>19, <2>20, <2>21
       DEF ThreadStep, Work
<1>3. ASSUME NEW t \in Threads, Fork(t) \/ Spawn(t) PROVE LoggersHaveMoved'
  BY <1>3 DEF Fork, Spawn, LoggersHaveMoved, Inherited, At, Goto, socketVars,
     worldVars, Discipline, LockTypes
<1>4. CASE Send \/ SenderQuits
  BY <1>4 DEF Send, SenderQuits, LoggersHaveMoved, Inherited, socketVars, worldVars
<1> QED
  BY <1>1, <1>2, <1>3, <1>4 DEF Next

(* With no fork in the middle of a call, no mutex is ever lost. *)
LEMMA NoMutexLost ==
  ASSUME ~ ForkAnywhere
  PROVE  Spec => []NoOrphan
<1>1. Init => NoOrphan
  BY ThreadAssumption DEF Init, NoOrphan
<1>2. Discipline /\ NoOrphan /\ [Next]_vars => NoOrphan'
  BY NoOrphanKept
<1> QED
  BY <1>1, <1>2, DisciplineAlways, PTL DEF Spec

(***************************************************************************)
(* Wherever fork comes: no message of a child is logged before the         *)
(* parent's socket has been given up, unless g_dl_request_mutex itself was *)
(* held by another thread at that moment and lost.                         *)
(***************************************************************************)
THEOREM RebindsUnlessLost ==
  Spec => [](owner[g_dl_request_mutex] # Orphan => RebindsAfterFork)
<1>1. Init => LoggersHaveMoved
  BY DEF Init, LoggersHaveMoved
<1>2. Discipline /\ Custody /\ LoggersHaveMoved /\ [Next]_vars => LoggersHaveMoved'
  BY LoggersKeepAway
<1>3. Discipline /\ LoggersHaveMoved
      => (owner[g_dl_request_mutex] # Orphan => RebindsAfterFork)
  BY DEF Discipline, LockTypes, OwnersHold, LoggersHaveMoved, RebindsAfterFork,
     Mutex, g_dl_request_mutex
<1> QED
  BY <1>1, <1>2, <1>3, Invariant, PTL DEF Spec

(***************************************************************************)
(* As long as fork comes only while nobody is in the library, no message   *)
(* of a child is logged before the parent's socket has been given up.      *)
(***************************************************************************)
THEOREM RebindsAfterForkHolds ==
  ASSUME ~ ForkAnywhere
  PROVE  Spec => []RebindsAfterFork
<1>1. NoOrphan => owner[g_dl_request_mutex] # Orphan
  BY DEF NoOrphan, Mutex, g_dl_request_mutex
<1> QED
  BY <1>1, NoMutexLost, RebindsUnlessLost, PTL

-----------------------------------------------------------------------------
(* Calls come to their end: what of CallsReturn is safety.                   *)

NoHandlerRuns == \A h \in Handlers : pc[h] \in {"idle", "dead"}

(***************************************************************************)
(* Of any threads in the library, however many, one can move or waits for  *)
(* a thread in the library that is not among them, in every state in which *)
(* no mutex has been lost in a fork and no signal handler runs.            *)
(***************************************************************************)
THEOREM NobodyStuckUnlessLost ==
  Spec => [](NoOrphan /\ NoHandlerRuns => NobodyStuck)
<1>1. ASSUME Discipline, NoOrphan, NoHandlerRuns, NoCircularWait PROVE NobodyStuck
  <2> SUFFICES ASSUME NEW group \in SUBSET { t \in Threads : Inside(t) }, group # {}
               PROVE  \E t \in group :
                        \/ CanMove(t)
                        \/ \E m \in Mutex, u \in Threads \ group :
                             Waits(t, m) /\ owner[m] = u /\ Inside(u)
    BY DEF NobodyStuck
  <2>1. PICK t \in group : \A m \in Mutex : Waits(t, m) => owner[m] \notin group
    BY <1>1 DEF NoCircularWait
  <2>2. Inside(t) /\ ~ Frozen(t)
    BY <1>1 DEF Frozen, NoHandlerRuns
  <2>3. CASE \A m \in Mutex : Waits(t, m) => owner[m] = Free
    BY <2>2, <2>3 DEF CanMove
  <2>4. CASE \E m \in Mutex : Waits(t, m) /\ owner[m] # Free
    <3>1. PICK m \in Mutex : Waits(t, m) /\ owner[m] # Free
      BY <2>4
    <3>2. owner[m] \in Threads \ group
      BY <1>1, <2>1, <3>1 DEF Discipline, LockTypes, NoOrphan
    <3>3. Holds(owner[m], m)
      BY <1>1, <3>2 DEF Discipline, OwnersHold
    <3>4. Inside(owner[m])
      BY <3>3 DEF Holds, Inside
    <3> QED
      BY <3>1, <3>2, <3>4
  <2> QED
    BY <2>3, <2>4
<1>2. Discipline /\ NoCircularWait => (NoOrphan /\ NoHandlerRuns => NobodyStuck)
  BY <1>1
<1> QED
  BY <1>2, DisciplineAlways, NoCircularWaitHolds, PTL

(***************************************************************************)
(* So nobody is ever stuck, if fork comes only while nobody is in the      *)
(* library and no signal handler calls it; otherwise it is not so.         *)
(***************************************************************************)
THEOREM NobodyStuckHolds ==
  ASSUME ~ ForkAnywhere, Handlers = {}
  PROVE  Spec => []NobodyStuck
<1>1. NoHandlerRuns
  BY DEF NoHandlerRuns
<1> QED
  BY <1>1, NoMutexLost, NobodyStuckUnlessLost, PTL

(* One way on from each place in the code: every call into the kernel fails. *)
Onward ==
  [loglock |-> "logging", logging |-> "idle", applylock |-> "applying",
   applying |-> "drain", bindlock |-> "socket", initlock |-> "initcheck",
   extlock |-> "catlock", catlock |-> "extending", extending |-> "leave",
   leave |-> "idle", deinitlock |-> "deinitcheck", closelock |-> "closing",
   closing |-> "leave"]

NextLabel(t) ==
  CASE pc[t] = "trylock"     -> IF owner[g_dl_request_mutex] = Free
                                THEN "check" ELSE AfterRequests(t)
    [] pc[t] = "check"       -> IF g_dl_socket = NoSocket THEN AfterRequests(t)
                                ELSE IF Inherited THEN "bindlock" ELSE "drain"
    [] pc[t] = "drain"       -> AfterRequests(t)
    [] pc[t] \in {"socket", "bind"} -> AfterBind(t)
    [] pc[t] = "initcheck"   -> IF isLogInited THEN AfterInit(t) ELSE "idle"
    [] pc[t] = "inited"      -> AfterInit(t)
    [] pc[t] = "deinitcheck" -> IF isLogInited THEN "closelock" ELSE "leave"
    [] OTHER                 -> Onward[pc[t]]

Locking == {"trylock", "loglock", "applylock", "bindlock", "initlock", "extlock",
            "catlock", "deinitlock", "closelock"}

(* The mutex that is taken or given up on the way, if one is. *)
Touched(t) ==
  CASE pc[t] \in {"initlock", "extlock", "deinitlock", "initcheck", "inited", "leave"}
         -> gInitMutex
    [] pc[t] \in {"trylock", "check", "drain", "bindlock", "socket", "bind",
                  "closelock", "closing"}
         -> g_dl_request_mutex
    [] OTHER -> gLoggingMutex

KeepsAll(t) ==
  \/ pc[t] = "deinitcheck"
  \/ pc[t] = "trylock" /\ NextLabel(t) # "check"
  \/ pc[t] = "check" /\ NextLabel(t) = "drain"

NextOwner(t) ==
  IF KeepsAll(t) THEN owner
  ELSE [owner EXCEPT ![Touched(t)] = IF pc[t] \in Locking THEN t ELSE Free]

Closes(t) ==
  \/ pc[t] = "check" /\ Inherited
  \/ pc[t] = "bind"
  \/ pc[t] = "closing" /\ g_dl_socket # NoSocket

Successor(t) ==
  << [pc EXCEPT ![t] = NextLabel(t)],
     call,
     NextOwner(t),
     IF pc[t] = "inited" THEN TRUE ELSE isLogInited,
     IF Closes(t) \/ pc[t] = "socket" THEN NoSocket ELSE g_dl_socket,
     g_dl_socket_pid,
     IF Closes(t) THEN { s \in sockets : s[1] # g_dl_socket } ELSE sockets,
     IF Closes(t) THEN << >> ELSE inbox,
     pid, senderActive, configured >>

(***************************************************************************)
(* That a thread can move is no mere word: from every state where CanMove  *)
(* holds of it, a step of one of the four actions that are treated fairly  *)
(* leads to the state Successor names, and the thread gets on by it.       *)
(***************************************************************************)
THEOREM CanMoveIsEnabled ==
  ASSUME Discipline, NEW t \in Threads, CanMove(t), vars' = Successor(t)
  PROVE  /\ AwaitLogging(t) \/ AwaitRequest(t) \/ AwaitInit(t) \/ Work(t)
         /\ pc'[t] # pc[t]
<1>1. /\ pc' = [pc EXCEPT ![t] = NextLabel(t)]
      /\ owner' = NextOwner(t)
      /\ isLogInited' = IF pc[t] = "inited" THEN TRUE ELSE isLogInited
      /\ g_dl_socket' = IF Closes(t) \/ pc[t] = "socket" THEN NoSocket ELSE g_dl_socket
      /\ sockets' = IF Closes(t) THEN { s \in sockets : s[1] # g_dl_socket } ELSE sockets
      /\ inbox' = IF Closes(t) THEN << >> ELSE inbox
      /\ UNCHANGED << call, g_dl_socket_pid, worldVars, configured >>
  BY DEF vars, Successor, worldVars
<1>2. /\ pc[t] \in Labels \ {"idle", "dead"} /\ ~ Frozen(t) /\ call[t] \in Calls
      /\ owner \in [Mutex -> Threads \cup {Free, Orphan}]
      /\ \A m \in Mutex : Waits(t, m) => owner[m] = Free
      /\ pc \in [Threads -> Labels]
  BY DEF CanMove, Inside, Discipline, LockTypes
<1> USE <1>1, <1>2 DEF Labels, Calls, Entry, Logging, Mutex, gInitMutex,
        g_dl_request_mutex, gLoggingMutex, At, Goto, Lock, Unlock, Touched,
        KeepsAll, NextOwner, Locking, Closes, Waits, NextLabel, Onward,
        socketVars, worldVars
<1> DEFINE GetsOn == pc'[t] # pc[t]
<1>3. ASSUME pc[t] \in {"loglock", "applylock", "catlock"}
      PROVE  GetsOn /\ AwaitLogging(t)
  <2>1. owner[gLoggingMutex] = Free
    BY <1>3
  <2>2. CASE pc[t] = "loglock"
    BY <2>1, <2>2 DEF AwaitLogging, Await
  <2>3. CASE pc[t] = "applylock"
    BY <2>1, <2>3 DEF AwaitLogging, Await
  <2>4. CASE pc[t] = "catlock"
    BY <2>1, <2>4 DEF AwaitLogging, Await
  <2> QED
    BY <1>3, <2>2, <2>3, <2>4
<1>4. ASSUME pc[t] \in {"bindlock", "closelock"}
      PROVE  GetsOn /\ AwaitRequest(t)
  <2>1. owner[g_dl_request_mutex] = Free
    BY <1>4
  <2>2. CASE pc[t] = "bindlock"
    BY <2>1, <2>2 DEF AwaitRequest, Await
  <2>3. CASE pc[t] = "closelock"
    BY <2>1, <2>3 DEF AwaitRequest, Await
  <2> QED
    BY <1>4, <2>2, <2>3
<1>5. ASSUME pc[t] \in {"initlock", "extlock", "deinitlock"}
      PROVE  GetsOn /\ AwaitInit(t)
  <2>1. owner[gInitMutex] = Free
    BY <1>5
  <2>2. CASE pc[t] = "initlock"
    BY <2>1, <2>2 DEF AwaitInit, Await
  <2>3. CASE pc[t] = "extlock"
    BY <2>1, <2>3 DEF AwaitInit, Await
  <2>4. CASE pc[t] = "deinitlock"
    BY <2>1, <2>4 DEF AwaitInit, Await
  <2> QED
    BY <1>5, <2>2, <2>3, <2>4
<1>6. ASSUME pc[t] = "check"
      PROVE  GetsOn /\ (NoRequests(t) \/ DropInherited(t) \/ StartDrain(t))
  <2>1. CASE g_dl_socket = NoSocket
    BY <1>6, <2>1 DEF NoRequests, AfterRequests, Inherited
  <2>2. CASE Inherited
    BY <1>6, <2>2 DEF DropInherited, CloseSocket, Inherited
  <2>3. CASE g_dl_socket # NoSocket /\ ~ Inherited
    BY <1>6, <2>3 DEF StartDrain, Inherited
  <2> QED
    BY <2>1, <2>2, <2>3
<1>7. ASSUME pc[t] = "initcheck"
      PROVE  GetsOn /\ (AlreadyInited(t) \/ Configure(t))
  <2>1. CASE isLogInited
    BY <1>7, <2>1 DEF AlreadyInited, AfterInit
  <2>2. CASE ~ isLogInited
    BY <1>7, <2>2 DEF Configure
  <2> QED
    BY <2>1, <2>2
<1>8. ASSUME pc[t] = "trylock" PROVE GetsOn /\ TryLock(t)
  BY <1>8 DEF TryLock, AfterRequests
<1>9. ASSUME pc[t] = "drain" PROVE GetsOn /\ EndDrain(t)
  BY <1>9 DEF EndDrain, AfterRequests
<1>10. ASSUME pc[t] = "applying" PROVE GetsOn /\ ApplyRequest(t)
  BY <1>10 DEF ApplyRequest
<1>11. ASSUME pc[t] = "logging" PROVE GetsOn /\ Emit(t)
  BY <1>11 DEF Emit
<1>12. ASSUME pc[t] = "socket" PROVE GetsOn /\ MakeSocket(t)
  BY <1>12 DEF MakeSocket, AfterBind, AfterRequests
<1>13. ASSUME pc[t] = "bind" PROVE GetsOn /\ BindSocket(t)
  BY <1>13 DEF BindSocket, AfterBind, AfterRequests, CloseSocket
<1>14. ASSUME pc[t] = "inited" PROVE GetsOn /\ FinishInit(t)
  BY <1>14 DEF FinishInit, AfterInit
<1>15. ASSUME pc[t] = "extending" PROVE GetsOn /\ Extend(t)
  BY <1>15 DEF Extend
<1>16. ASSUME pc[t] = "leave" PROVE GetsOn /\ Leave(t)
  BY <1>16 DEF Leave
<1>17. ASSUME pc[t] = "deinitcheck" PROVE GetsOn /\ CheckDeinit(t)
  BY <1>17 DEF CheckDeinit
<1>18. ASSUME pc[t] = "closing" PROVE GetsOn /\ Deinit(t)
  BY <1>18 DEF Deinit, CloseSocket
<1> HIDE DEF GetsOn, Waits, Touched, NextLabel, NextOwner, KeepsAll, Closes, At, Goto
<1>19. GetsOn /\ (AwaitLogging(t) \/ AwaitRequest(t) \/ AwaitInit(t) \/ Work(t))
  BY <1>3, <1>4, <1>5, <1>6, <1>7, <1>8, <1>9, <1>10, <1>11, <1>12, <1>13,
     <1>14, <1>15, <1>16, <1>17, <1>18 DEF Work
<1> QED
  BY <1>19 DEF GetsOn

(* A step of a thread that gets on: at the cost of at most one datagram.     *)
GetsOn(t, l) ==
  \/ pc[t] = "idle" /\ inbox' = inbox
  \/ StepsFrom[l] < StepsFrom[pc[t]] /\ inbox' \in {inbox, << >>}
  \/ inbox # << >> /\ inbox' = Tail(inbox) /\ StepsFrom[l] < StepsFrom[pc[t]] + 3

(* Every step of a thread is one of these: nothing leads back, but for one   *)
(* turn of the loop, which takes a datagram out.                             *)
LEMMA StepGetsOn ==
  ASSUME Discipline, NEW t \in Threads, ThreadStep(t)
  PROVE  \E l \in Labels : pc' = [pc EXCEPT ![t] = l] /\ GetsOn(t, l)
<1> USE DEF Discipline, LockTypes, CallFits, Labels, Calls, Entry, At, Goto, GetsOn,
        socketVars
<1>0. /\ StepsFrom.trylock = 10 /\ StepsFrom.check = 9 /\ StepsFrom.drain = 3
      /\ StepsFrom.applylock = 5 /\ StepsFrom.applying = 4
      /\ StepsFrom.loglock = 2 /\ StepsFrom.logging = 1
      /\ StepsFrom.initlock = 10 /\ StepsFrom.initcheck = 9 /\ StepsFrom.bindlock = 8
      /\ StepsFrom.socket = 7 /\ StepsFrom.bind = 6 /\ StepsFrom.inited = 5
      /\ StepsFrom.extlock = 4 /\ StepsFrom.catlock = 3 /\ StepsFrom.extending = 2
      /\ StepsFrom.leave = 1 /\ StepsFrom.deinitlock = 5 /\ StepsFrom.deinitcheck = 4
      /\ StepsFrom.closelock = 3 /\ StepsFrom.closing = 2
      /\ StepsFrom.idle = 0 /\ StepsFrom.dead = 0
  BY DEF StepsFrom
<1>1. CASE \E c \in Calls : Begin(t, c)
  <2>1. PICK c \in Calls : Begin(t, c)
    BY <1>1
  <2>2. Entry[c] \in Labels /\ pc' = [pc EXCEPT ![t] = Entry[c]] /\ GetsOn(t, Entry[c])
    BY <2>1 DEF Begin
  <2> QED
    BY <2>2
<1>2. CASE AwaitLogging(t)
  BY <1>0, <1>2 DEF AwaitLogging, Await
<1>3. CASE AwaitRequest(t)
  BY <1>0, <1>3 DEF AwaitRequest, Await
<1>4. CASE AwaitInit(t)
  BY <1>0, <1>4 DEF AwaitInit, Await
<1>5. CASE TryLock(t)
  BY <1>0, <1>5 DEF TryLock, AfterRequests
<1>6. CASE DropInherited(t)
  BY <1>0, <1>6 DEF DropInherited, CloseSocket
<1>7. CASE NoRequests(t)
  <2>1. AfterRequests(t) \in Labels /\ pc' = [pc EXCEPT ![t] = AfterRequests(t)] /\ GetsOn(t, AfterRequests(t))
    BY <1>0, <1>7 DEF NoRequests, AfterRequests
  <2> QED
    BY <2>1
<1>8. CASE StartDrain(t)
  BY <1>0, <1>8 DEF StartDrain
<1>9. CASE Receive(t)
  <2>1. CASE Head(inbox) = "request"
    BY <1>0, <1>9, <2>1 DEF Receive
  <2>2. CASE Head(inbox) # "request"
    BY <1>0, <1>9, <2>2 DEF Receive
  <2> QED
    BY <2>1, <2>2
<1>10. CASE EndDrain(t)
  <2>1. AfterRequests(t) \in Labels /\ pc' = [pc EXCEPT ![t] = AfterRequests(t)] /\ GetsOn(t, AfterRequests(t))
    BY <1>0, <1>10 DEF EndDrain, AfterRequests
  <2> QED
    BY <2>1
<1>11. CASE ApplyRequest(t)
  BY <1>0, <1>11 DEF ApplyRequest
<1>12. CASE Emit(t)
  BY <1>0, <1>12 DEF Emit
<1>13. CASE MakeSocket(t)
  BY <1>0, <1>13 DEF MakeSocket, AfterBind, AfterRequests
<1>14. CASE BindSocket(t)
  <2>1. AfterBind(t) \in Labels /\ pc' = [pc EXCEPT ![t] = AfterBind(t)] /\ GetsOn(t, AfterBind(t))
    BY <1>0, <1>14 DEF BindSocket, CloseSocket, AfterBind, AfterRequests
  <2> QED
    BY <2>1
<1>15. CASE AlreadyInited(t)
  <2>1. AfterInit(t) \in Labels /\ pc' = [pc EXCEPT ![t] = AfterInit(t)] /\ GetsOn(t, AfterInit(t))
    BY <1>0, <1>15 DEF AlreadyInited, AfterInit
  <2> QED
    BY <2>1
<1>16. CASE Configure(t)
  BY <1>0, <1>16 DEF Configure
<1>17. CASE FinishInit(t)
  <2>1. AfterInit(t) \in Labels /\ pc' = [pc EXCEPT ![t] = AfterInit(t)] /\ GetsOn(t, AfterInit(t))
    BY <1>0, <1>17 DEF FinishInit, AfterInit
  <2> QED
    BY <2>1
<1>18. CASE Extend(t)
  BY <1>0, <1>18 DEF Extend
<1>19. CASE Leave(t)
  BY <1>0, <1>19 DEF Leave
<1>20. CASE CheckDeinit(t)
  <2>1. CASE isLogInited
    BY <1>0, <1>20, <2>1 DEF CheckDeinit
  <2>2. CASE ~ isLogInited
    BY <1>0, <1>20, <2>2 DEF CheckDeinit
  <2> QED
    BY <2>1, <2>2
<1>21. CASE Deinit(t)
  BY <1>0, <1>21 DEF Deinit, CloseSocket
<1> QED
  BY <1>1, <1>2, <1>3, <1>4, <1>5, <1>6, <1>7, <1>8, <1>9, <1>10,
     <1>11, <1>12, <1>13, <1>14, <1>15, <1>16, <1>17, <1>18, <1>19,
     <1>20, <1>21
     DEF ThreadStep, Work

(* Taking a datagram out leaves one less. *)
LEMMA OneLess ==
  ASSUME NEW q \in Seq(Datagram), q # << >>
  PROVE  Len(q) \in Nat /\ Len(Tail(q)) = Len(q) - 1 /\ Len(q) > 0
OBVIOUS

(***************************************************************************)
(* Once nothing more is sent, each call in the library comes nearer to its *)
(* end with every step of its own, and no step of another thread, no fork  *)
(* and no child's new thread sets it back.                                 *)
(***************************************************************************)
THEOREM CallsRunDownHolds == Spec => CallsRunDown
<1> DEFINE RunsDown == \A t \in Threads :
                         /\ ~ senderActive /\ Inside(t)
                         /\ << pc[t], inbox >>' # << pc[t], inbox >>
                         => StepsLeft(t)' < StepsLeft(t)
<1>1. \A l \in Labels : StepsFrom[l] \in Nat
  BY DEF Labels, StepsFrom
<1>2. ASSUME Discipline, Custody, Next PROVE RunsDown
  <2> SUFFICES ASSUME NEW t \in Threads, ~ senderActive, Inside(t),
                      << pc[t], inbox >>' # << pc[t], inbox >>
               PROVE  StepsLeft(t)' < StepsLeft(t)
    OBVIOUS
  <2>1. /\ pc \in [Threads -> Labels] /\ inbox \in Seq(Datagram)
        /\ Len(inbox) \in Nat /\ Len(<< >>) = 0 /\ (inbox # << >> => Len(inbox) > 0)
    BY <1>2 DEF Discipline, LockTypes, Custody, CustodyTypes
  <2>2. ASSUME NEW u \in Threads, ThreadStep(u) PROVE StepsLeft(t)' < StepsLeft(t)
    <3>1. PICK l \in Labels : pc' = [pc EXCEPT ![u] = l] /\ GetsOn(u, l)
      BY <1>2, <2>2, StepGetsOn
    <3>2. /\ StepsFrom[l] \in Nat /\ StepsFrom[pc[t]] \in Nat
          /\ pc'[t] = IF t = u THEN l ELSE pc[t]
      BY <1>1, <2>1, <3>1
    <3>3. CASE pc[u] = "idle" /\ inbox' = inbox
      BY <2>1, <3>2, <3>3 DEF Inside
    <3>4. CASE StepsFrom[l] < StepsFrom[pc[u]] /\ inbox' \in {inbox, << >>}
      BY <2>1, <3>2, <3>4 DEF StepsLeft
    <3>5. CASE /\ inbox # << >> /\ inbox' = Tail(inbox)
               /\ StepsFrom[l] < StepsFrom[pc[u]] + 3
      <4>1. Len(inbox') = Len(inbox) - 1
        BY <2>1, <3>5, OneLess
      <4>2. StepsFrom[pc'[t]] \in Nat /\ StepsFrom[pc'[t]] < StepsFrom[pc[t]] + 3
        <5>1. CASE t = u
          BY <3>2, <3>5, <5>1
        <5>2. CASE t # u
          BY <3>2, <5>2
        <5> QED
          BY <5>1, <5>2
      <4> DEFINE before == StepsFrom[pc[t]]
                 after  == StepsFrom[pc'[t]]
                 left   == Len(inbox)
      <4>3. before \in Nat /\ after \in Nat /\ left \in Nat /\ after < before + 3
        BY <2>1, <3>2, <4>2
      <4>4. /\ StepsLeft(t) = before + 3 * left
            /\ StepsLeft(t)' = after + 3 * (left - 1)
        BY <4>1 DEF StepsLeft
      <4> HIDE DEF before, after, left
      <4>5. after + 3 * (left - 1) < before + 3 * left
        BY <4>3
      <4> QED
        BY <4>4, <4>5
    <3> QED
      BY <3>1, <3>3, <3>4, <3>5 DEF GetsOn
  <2>3. ASSUME NEW u \in Threads, Fork(u) \/ Spawn(u) PROVE StepsLeft(t)' < StepsLeft(t)
    <3>1. inbox' = inbox /\ pc'[t] # pc[t] /\ pc'[t] \in {"idle", "dead"}
      BY <2>1, <2>3 DEF Fork, Spawn, Goto, At, Inside, socketVars
    <3>2. \A l \in Labels \ {"idle", "dead"} : StepsFrom[l] > 0
      BY DEF Labels, StepsFrom
    <3>3. StepsFrom[pc'[t]] = 0 /\ StepsFrom[pc[t]] > 0 /\ StepsFrom[pc[t]] \in Nat
      BY <1>1, <2>1, <3>1, <3>2 DEF StepsFrom, Inside
    <3> QED
      BY <2>1, <3>1, <3>3 DEF StepsLeft
  <2>4. CASE Send \/ SenderQuits
    BY <2>4 DEF Send, SenderQuits
  <2> QED
    BY <1>2, <2>2, <2>3, <2>4 DEF Next
<1>3. ASSUME UNCHANGED vars PROVE RunsDown
  BY <1>3 DEF vars
<1>4. Discipline /\ Custody /\ [Next]_vars => [RunsDown]_vars
  BY <1>2, <1>3
<1> QED
  BY <1>4, Invariant, PTL DEF Spec, CallsRunDown

-----------------------------------------------------------------------------
(* ProcessSocket: what the calls of the threads look like from outside.      *)

(* What Custody leaves open: a socket is bound to nothing before bind() and  *)
(* to the path of g_dl_socket_pid after it, which is no later process than   *)
(* this one; and only an initialised process is de-initialised.              *)
Bindings ==
  /\ \A s \in sockets : s[2] \in {NoPid, g_dl_socket_pid}
  /\ g_dl_socket_pid <= pid
  /\ /\ g_dl_socket # NoSocket
     /\ owner[g_dl_request_mutex] # Orphan
     /\ \A u \in Threads : pc[u] # "bind"
     => g_dl_socket_pid # NoPid
  /\ \A t \in Threads : pc[t] = "bind" =>
       sockets = { << g_dl_socket, NoPid >> } /\ inbox = << >>
  /\ \A t \in Threads : pc[t] \in {"closelock", "closing"} => isLogInited

(* Every step keeps it. *)
LEMMA BindingsKept ==
  ASSUME Discipline, Custody, Bindings, [Next]_vars
  PROVE  Bindings'
<1> USE ThreadAssumption
<1>1. CASE UNCHANGED vars
  BY <1>1 DEF Bindings, vars
<1>2. ASSUME NEW t \in Threads, ThreadStep(t) PROVE Bindings'
  <2> USE <1>2 DEF Discipline, LockTypes, OwnersHold, Holds, Labels, Calls, Entry,
          Mutex, gInitMutex, g_dl_request_mutex, gLoggingMutex, At, Goto, Lock,
          Unlock, socketVars, worldVars, Bindings
  <2>0. /\ pid \in Nat /\ g_dl_socket_pid \in Nat \cup {NoPid} /\ NoPid \notin Nat
        /\ NoSocket \notin Nat /\ OneDescriptor /\ OneMaker
    BY DEF Custody, CustodyTypes, NoPid, NoSocket
  <2>1. CASE \E c \in Calls : Begin(t, c)
    BY <2>1 DEF Begin
  <2>2. CASE AwaitLogging(t)
    BY <2>2 DEF AwaitLogging, Await
  <2>3. CASE AwaitRequest(t)
    BY <2>3 DEF AwaitRequest, Await
  <2>4. CASE AwaitInit(t)
    BY <2>4 DEF AwaitInit, Await
  <2>5. CASE TryLock(t)
    BY <2>5 DEF TryLock, AfterRequests
  <2>6. CASE DropInherited(t)
    <3>1. g_dl_socket' = NoSocket /\ sockets' = {} /\ inbox' = << >>
      BY <2>0, <2>6, ClosedIsGone DEF DropInherited
    <3> QED
      BY <2>6, <3>1 DEF DropInherited
  <2>7. CASE NoRequests(t)
    BY <2>7 DEF NoRequests, AfterRequests
  <2>8. CASE StartDrain(t)
    BY <2>8 DEF StartDrain
  <2>9. CASE Receive(t)
    BY <2>9 DEF Receive
  <2>10. CASE EndDrain(t)
    BY <2>10 DEF EndDrain, AfterRequests
  <2>11. CASE ApplyRequest(t)
    BY <2>11 DEF ApplyRequest
  <2>12. CASE Emit(t)
    BY <2>12 DEF Emit
  <2>13. CASE MakeSocket(t)
    <3>1. sockets = {}
      BY <2>0, <2>13 DEF MakeSocket, OneDescriptor, OneMaker
    <3>2. NewDescriptor \in Nat
      BY <3>1, FreshDescriptor
    <3> QED
      BY <2>0, <2>13, <3>1, <3>2 DEF MakeSocket, AfterBind, AfterRequests
  <2>14. CASE BindSocket(t)
    <3>1. \/ /\ g_dl_socket' = NoSocket /\ sockets' = {} /\ inbox' = << >>
             /\ UNCHANGED g_dl_socket_pid
          \/ /\ sockets' = { << g_dl_socket, pid >> } /\ g_dl_socket_pid' = pid
             /\ UNCHANGED << g_dl_socket, inbox >>
      <4>1. g_dl_socket # NoSocket
        BY <2>0, <2>14 DEF BindSocket, OneMaker
      <4> QED
        BY <2>0, <4>1, <2>14, ClosedIsGone, BoundIsOurs DEF BindSocket
    <3> QED
      BY <2>0, <2>14, <3>1 DEF BindSocket, AfterBind, AfterRequests
  <2>15. CASE AlreadyInited(t)
    BY <2>15 DEF AlreadyInited, AfterInit
  <2>16. CASE Configure(t)
    BY <2>16 DEF Configure
  <2>17. CASE FinishInit(t)
    BY <2>17 DEF FinishInit, AfterInit
  <2>18. CASE Extend(t)
    BY <2>18 DEF Extend
  <2>19. CASE Leave(t)
    BY <2>19 DEF Leave
  <2>20. CASE CheckDeinit(t)
    BY <2>20 DEF CheckDeinit
  <2>21. CASE Deinit(t)
    <3>1. g_dl_socket' = NoSocket /\ sockets' = {}
      BY <2>0, <2>21, ClosedIsGone DEF Deinit, OneDescriptor
    <3> QED
      BY <2>21, <3>1 DEF Deinit
  <2> QED
    BY <1>2, <2>1, <2>2, <2>3, <2>4, <2>5, <2>6, <2>7, <2>8, <2>9, <2>10, <2>11,
       <2>12, <2>13, <2>14, <2>15, <2>16, <2>17, <2>18, <2>19, <2>20, <2>21
       DEF ThreadStep, Work
<1>3. ASSUME NEW t \in Threads, Fork(t) \/ Spawn(t) PROVE Bindings'
  <2>1. pid \in Nat /\ g_dl_socket_pid \in Nat \cup {NoPid}
    BY DEF Custody, CustodyTypes
  <2>2. CASE Fork(t)
    BY <2>1, <2>2 DEF Fork, At, Bindings, BoundToPid, Custody, OwnersHold, Holds,
       Discipline, LockTypes, Mutex, g_dl_request_mutex, gInitMutex,
       gLoggingMutex, socketVars, NoPid
  <2>3. CASE Spawn(t)
    BY <2>3 DEF Spawn, Goto, Bindings, socketVars, worldVars, Discipline, LockTypes
  <2> QED
    BY <1>3, <2>2, <2>3
<1>4. CASE Send \/ SenderQuits
  <2>1. UNCHANGED << pc, owner, isLogInited, g_dl_socket, g_dl_socket_pid,
                     sockets, pid >>
    BY <1>4 DEF Send, SenderQuits, worldVars, socketVars
  <2>2. (\E t \in Threads : pc[t] = "bind") => UNCHANGED inbox
    BY <1>4 DEF Send, SenderQuits, socketVars, Bindings, Custody, CustodyTypes, NoPid
  <2> QED
    BY <2>1, <2>2 DEF Bindings
<1> QED
  BY <1>1, <1>2, <1>3, <1>4 DEF Next

(* All that is known of a state. *)
Known == Discipline /\ Custody /\ Bindings

(* They hold together. *)
LEMMA KnownHolds == Spec => []Known
<1>1. Init => Bindings
  BY DEF Init, Bindings, NoPid
<1>2. Discipline /\ Custody /\ Bindings /\ [Next]_vars => Bindings'
  BY BindingsKept
<1> QED
  BY <1>1, <1>2, Invariant, PTL DEF Spec, Known

(* Whose socket it is. *)
LEMMA BoundIs ==
  ASSUME Known
  PROVE  /\ pid \in Nat /\ Bound \in Nat \cup {NoPid} /\ NoPid \notin Nat /\ Bound <= pid
         /\ g_dl_socket = NoSocket => Bound = NoPid
         /\ (\E t \in Threads : pc[t] = "bind") => Bound = NoPid
         /\ /\ g_dl_socket # NoSocket /\ owner[g_dl_request_mutex] # Orphan
            /\ \A t \in Threads : pc[t] # "bind"
            => Bound = g_dl_socket_pid /\ Bound # NoPid
         /\ << g_dl_socket, pid >> \in sockets => Bound = pid
<1> USE DEF Known, Bound
<1>1. /\ pid \in Nat /\ g_dl_socket_pid \in Nat \cup {NoPid} /\ NoPid \notin Nat
      /\ g_dl_socket_pid <= pid /\ NoPid <= pid
  BY DEF Custody, CustodyTypes, Bindings, NoPid
<1>2. g_dl_socket = NoSocket => Bound = NoPid
  BY DEF Custody, OneDescriptor, NoSocket
<1>3. (\E t \in Threads : pc[t] = "bind") => Bound = NoPid
  BY DEF Bindings
<1>4. /\ g_dl_socket # NoSocket /\ owner[g_dl_request_mutex] # Orphan
      /\ \A t \in Threads : pc[t] # "bind"
      => Bound = g_dl_socket_pid /\ Bound # NoPid
  BY DEF Custody, BoundToPid, Bindings
<1>5. << g_dl_socket, pid >> \in sockets => Bound = pid
  <2> SUFFICES ASSUME << g_dl_socket, pid >> \in sockets PROVE Bound = pid
    OBVIOUS
  <2>1. << g_dl_socket, pid >>[2] \in {NoPid, g_dl_socket_pid}
    BY DEF Bindings
  <2>2. g_dl_socket_pid = pid
    BY <1>1, <2>1
  <2> QED
    BY <2>2
<1> QED
  BY <1>1, <1>2, <1>3, <1>4, <1>5

(* A request in the hand of a thread is the first of those that wait. *)
LEMMA InHand ==
  ASSUME NEW q \in Seq(Datagram), NEW d \in Datagram
  PROVE  /\ Tail(<< "request" >> \o q) = q
         /\ << "request" >> \o q # << >>
         /\ Append(<< "request" >> \o q, d) = << "request" >> \o Append(q, d)
         /\ q # << >> /\ Head(q) = "request" => << "request" >> \o Tail(q) = q
<1>1. "request" \in Datagram
  BY DEF Datagram
<1>2. << "request" >> \o q \in Seq(Datagram)
  BY <1>1
<1>3. Tail(<< "request" >> \o q) = q
  BY <1>1
<1>4. << "request" >> \o q # << >>
  BY <1>1
<1>5. Append(<< "request" >> \o q, d) = << "request" >> \o Append(q, d)
  BY <1>1
<1>6. q # << >> /\ Head(q) = "request" => << "request" >> \o Tail(q) = q
  BY <1>1
<1> QED
  BY <1>3, <1>4, <1>5, <1>6

(* What the rest of the world sees does not change. *)
Unseen == UNCHANGED << pid, Initialised, Bound, Mailbox, Rebinding >>

(* A thread that has nothing to do with the socket is not seen. *)
LEMMA BystanderUnseen ==
  ASSUME LockTypes, NEW t \in Threads, Bystander(t)
  PROVE  Unseen
<1>1. \A u \in Threads : (pc'[u] = pc[u] /\ call'[u] = call[u]) \/ u = t
  BY DEF LockTypes, Bystander
<1>2. pc'[t] \notin Involved /\ pc[t] \notin Involved
  BY DEF LockTypes, Bystander
<1>3. /\ owner'[gInitMutex] = Orphan <=> owner[gInitMutex] = Orphan
      /\ UNCHANGED << isLogInited, g_dl_socket, g_dl_socket_pid, sockets, inbox, pid >>
  BY DEF Bystander, Mutex, gInitMutex, socketVars, worldVars
<1>4. Initialised' = Initialised
  BY <1>1, <1>2, <1>3 DEF Initialised, Involved
<1>5. Rebinding' = Rebinding
  BY <1>1, <1>2 DEF Rebinding, Involved
<1>6. Applying' = Applying
  BY <1>1, <1>2 DEF Applying, Involved
<1>7. Bound' = Bound
  BY <1>3 DEF Bound
<1> QED
  BY <1>3, <1>4, <1>5, <1>6, <1>7 DEF Unseen, Mailbox

(* What a step of a thread that keeps the socket as it is changes.           *)
Passes(t, l) ==
  /\ pc' = [pc EXCEPT ![t] = l] /\ l \in Labels
  /\ UNCHANGED << call, isLogInited, socketVars, pid >>
  /\ owner'[gInitMutex] = Orphan <=> owner[gInitMutex] = Orphan

(* It is not seen if the thread is in like places before and after. *)
LEMMA PassingUnseen ==
  ASSUME LockTypes, NEW t \in Threads, NEW l, Passes(t, l),
         pc[t] # "inited" /\ l # "inited",
         call[t] \in Logging =>
           (pc[t] \in {"bindlock", "socket", "bind"} <=> l \in {"bindlock", "socket", "bind"}),
         pc[t] \in {"applylock", "applying"} <=> l \in {"applylock", "applying"}
  PROVE  Unseen
<1>1. /\ \A u \in Threads : pc'[u] = IF u = t THEN l ELSE pc[u]
      /\ UNCHANGED << call, isLogInited, g_dl_socket, g_dl_socket_pid, sockets, inbox, pid >>
  BY DEF LockTypes, Passes, socketVars
<1>2. Initialised' = Initialised
  BY <1>1 DEF Initialised, Passes
<1>3. Rebinding' = Rebinding
  BY <1>1 DEF Rebinding
<1>4. Applying' = Applying
  BY <1>1 DEF Applying
<1>5. Bound' = Bound
  BY <1>1 DEF Bound
<1> QED
  BY <1>1, <1>2, <1>3, <1>4, <1>5 DEF Unseen, Mailbox

(* Steps of a thread that are not seen. *)
LEMMA UnseenSteps ==
  ASSUME Known, NEW t \in Threads,
         \/ AwaitLogging(t) /\ pc[t] = "applylock"
         \/ AwaitRequest(t) \/ StartDrain(t) \/ EndDrain(t) \/ Configure(t)
  PROVE  Unseen
<1>0. /\ LockTypes /\ \A m \in Mutex : Holds(t, m) => owner[m] # Orphan
      /\ pc[t] = "initcheck" => call[t] \notin Logging
  BY ThreadAssumption DEF Known, Discipline, OwnersHold, CallFits
<1> USE <1>0, ThreadAssumption DEF LockTypes, Mutex, Labels, At, Goto, Lock, Unlock,
        Passes, gInitMutex, g_dl_request_mutex, gLoggingMutex, socketVars, worldVars
<1>1. CASE AwaitLogging(t) /\ pc[t] = "applylock"
  <2>1. Passes(t, "applying")
    BY <1>1 DEF AwaitLogging, Await
  <2> QED
    BY <1>1, <2>1, PassingUnseen
<1>2. CASE AwaitRequest(t)
  <2>1. CASE pc[t] = "bindlock"
    <3>1. Passes(t, "socket")
      BY <1>2, <2>1 DEF AwaitRequest, Await
    <3> QED
      BY <2>1, <3>1, PassingUnseen
  <2>2. CASE pc[t] # "bindlock"
    <3>1. pc[t] = "closelock" /\ Passes(t, "closing")
      BY <1>2, <2>2 DEF AwaitRequest, Await
    <3> QED
      BY <3>1, PassingUnseen
  <2> QED
    BY <2>1, <2>2
<1>3. CASE StartDrain(t)
  <2>1. pc[t] = "check" /\ Passes(t, "drain")
    BY <1>3 DEF StartDrain
  <2> QED
    BY <2>1, PassingUnseen
<1>4. CASE EndDrain(t)
  <2>1. pc[t] = "drain" /\ Passes(t, AfterRequests(t))
    BY <1>4 DEF EndDrain, AfterRequests
  <2>2. AfterRequests(t) \in {"loglock", "idle"}
    BY DEF AfterRequests
  <2> QED
    BY <2>1, <2>2, PassingUnseen
<1>5. CASE Configure(t)
  <2>1. pc[t] = "initcheck" /\ Holds(t, gInitMutex)
    BY <1>5 DEF Configure, Holds
  <2>2. Passes(t, "bindlock") \/ Passes(t, "idle")
    BY <1>5, <2>1 DEF Configure
  <2> QED
    BY <2>1, <2>2, PassingUnseen
<1> QED
  BY <1>1, <1>2, <1>3, <1>4, <1>5

(* A thread that holds a mutex is alone in the places it guards. *)
LEMMA Alone ==
  ASSUME Known, NEW t \in Threads
  PROVE  /\ pc[t] \in {"check", "drain", "applylock", "applying", "socket", "bind", "closing"}
            => /\ owner[g_dl_request_mutex] # Orphan
               /\ \A u \in Threads \ {t} :
                    pc[u] \notin {"check", "drain", "applylock", "applying", "socket",
                                  "bind", "closing"}
         /\ Initialising(t) =>
              /\ owner[gInitMutex] # Orphan
              /\ \A u \in Threads \ {t} : pc[u] # "inited"
         /\ pc[t] = "inited" => owner[gInitMutex] # Orphan
         /\ Making(t) => \A u \in Threads \ {t} : ~ Making(u)
<1>1. \A m \in Mutex : Holds(t, m) =>
        owner[m] = t /\ owner[m] # Orphan /\ \A u \in Threads \ {t} : ~ Holds(u, m)
  BY ThreadAssumption DEF Known, Discipline, OwnersHold
<1>2. Making(t) => \A u \in Threads \ {t} : ~ Making(u)
  BY DEF Known, Custody, OneMaker
<1>3. \A v \in Threads :
        /\ pc[v] = "inited" => Holds(v, gInitMutex)
        /\ Initialising(v) => Holds(v, gInitMutex)
  BY DEF Holds, Initialising, Making
<1>4. \A v \in Threads :
        pc[v] \in {"check", "drain", "applylock", "applying", "socket", "bind", "closing"}
        => Holds(v, g_dl_request_mutex)
  BY DEF Holds, Mutex, gInitMutex, g_dl_request_mutex
<1>5. gInitMutex \in Mutex /\ g_dl_request_mutex \in Mutex
  BY DEF Mutex, gInitMutex, g_dl_request_mutex
<1> QED
  BY <1>1, <1>2, <1>3, <1>4, <1>5

(* The inherited socket is closed, by one thread alone. *)
LEMMA DropSeen ==
  ASSUME Known, NEW t \in Threads, DropInherited(t)
  PROVE  Process!DropInherited
<1>1. /\ pc[t] = "check" /\ pc' = [pc EXCEPT ![t] = "bindlock"]
      /\ call[t] \in Logging /\ pc \in [Threads -> Labels]
      /\ owner' = [owner EXCEPT ![g_dl_request_mutex] = Free]
      /\ g_dl_socket # NoSocket /\ g_dl_socket_pid # pid
      /\ UNCHANGED << call, isLogInited, pid >>
  BY DEF DropInherited, At, Goto, Unlock, Inherited, worldVars, Known, Discipline,
         LockTypes, CallFits
<1>2. g_dl_socket' = NoSocket /\ sockets' = {}
  BY ClosedIsGone DEF DropInherited, Known, Custody
<1>3. Bound \notin {NoPid, pid} /\ Bound' = NoPid
  <2>1. \A u \in Threads : pc[u] # "bind"
    BY <1>1, Alone
  <2>2. owner[g_dl_request_mutex] # Orphan
    BY <1>1, Alone
  <2>3. Bound = g_dl_socket_pid /\ Bound # NoPid
    BY <1>1, <2>1, <2>2, BoundIs
  <2> QED
    BY <1>1, <1>2, <2>3 DEF Bound
<1>4. ~ Rebinding
  <2>1. ASSUME NEW u \in Threads, pc[u] \in {"bindlock", "socket", "bind"} PROVE FALSE
    <3>1. u # t
      BY <1>1, <2>1
    <3>2. pc[u] \notin {"socket", "bind"}
      BY <1>1, <3>1, Alone
    <3> QED
      BY <1>1, <2>1, <3>2 DEF Known, Custody, OneMaker
  <2> QED
    BY <2>1 DEF Rebinding
<1>5. Rebinding' = TRUE
  BY <1>1 DEF Rebinding
<1>6. Initialised' = Initialised
  BY <1>1 DEF Initialised, gInitMutex, g_dl_request_mutex
<1>7. Mailbox = << >> /\ Mailbox' = << >>
  <2>1. pid' = pid /\ NoPid # pid
    BY <1>1, BoundIs
  <2> QED
    BY <1>3, <2>1 DEF Mailbox
<1> QED
  BY <1>1, <1>3, <1>4, <1>5, <1>6, <1>7 DEF Process!DropInherited

(* A datagram is taken out: one to be dropped is gone, a request in hand.    *)
LEMMA ReceiveSeen ==
  ASSUME Known, NEW t \in Threads, Receive(t)
  PROVE  Process!Receive \/ Unseen
<1>1. /\ pc[t] = "drain" /\ inbox # << >> /\ inbox' = Tail(inbox)
      /\ pc' = [pc EXCEPT ![t] = IF Head(inbox) = "request" THEN "applylock" ELSE "drain"]
      /\ pc \in [Threads -> Labels] /\ inbox \in Seq(Datagram)
      /\ UNCHANGED << call, owner, isLogInited, g_dl_socket, g_dl_socket_pid, sockets, pid >>
  BY DEF Receive, At, Goto, worldVars, Known, Discipline, LockTypes, Custody, CustodyTypes
<1>2. Bound = pid /\ Bound' = pid /\ pid' = pid
  <2>1. g_dl_socket # NoSocket /\ g_dl_socket_pid = pid
    BY <1>1 DEF Known, Custody, DrainsOwn
  <2>2. owner[g_dl_request_mutex] # Orphan /\ \A u \in Threads : pc[u] # "bind"
    BY <1>1, Alone
  <2>3. Bound = pid
    BY <2>1, <2>2, BoundIs
  <2> QED
    BY <1>1, <2>3 DEF Bound
<1>3. ~ Applying
  BY <1>1, Alone DEF Applying
<1>4. Initialised' = Initialised /\ Rebinding' = Rebinding
  BY <1>1 DEF Initialised, Rebinding
<1>5. CASE Head(inbox) = "request"
  <2>1. Applying'
    BY <1>1, <1>5 DEF Applying
  <2>2. "request" \in Datagram
    BY DEF Datagram
  <2>3. << "request" >> \o Tail(inbox) = inbox
    BY <1>1, <1>5, <2>2, InHand
  <2>4. Mailbox' = Mailbox
    BY <1>1, <1>2, <1>3, <2>1, <2>3 DEF Mailbox
  <2> QED
    BY <1>1, <1>2, <1>4, <2>4 DEF Unseen
<1>6. CASE Head(inbox) # "request"
  <2>1. ~ Applying'
    BY <1>1, <1>3, <1>6 DEF Applying
  <2>2. Mailbox = inbox /\ Mailbox' = Tail(inbox)
    BY <1>1, <1>2, <1>3, <2>1 DEF Mailbox
  <2> QED
    BY <1>1, <1>2, <1>4, <2>2 DEF Process!Receive
<1> QED
  BY <1>5, <1>6

(* The request in hand is applied. *)
LEMMA ApplySeen ==
  ASSUME Known, NEW t \in Threads, ApplyRequest(t)
  PROVE  Process!Receive
<1>1. /\ pc[t] = "applying" /\ pc' = [pc EXCEPT ![t] = "drain"]
      /\ owner' = [owner EXCEPT ![gLoggingMutex] = Free]
      /\ pc \in [Threads -> Labels] /\ inbox \in Seq(Datagram)
      /\ UNCHANGED << call, isLogInited, g_dl_socket, g_dl_socket_pid, sockets, inbox, pid >>
  BY DEF ApplyRequest, At, Goto, Unlock, worldVars, socketVars, Known, Discipline,
         LockTypes, Custody, CustodyTypes
<1>2. Bound = pid /\ Bound' = pid /\ pid' = pid
  <2>1. g_dl_socket # NoSocket /\ g_dl_socket_pid = pid
    BY <1>1 DEF Known, Custody, DrainsOwn
  <2>2. owner[g_dl_request_mutex] # Orphan /\ \A u \in Threads : pc[u] # "bind"
    BY <1>1, Alone
  <2>3. Bound = pid
    BY <2>1, <2>2, BoundIs
  <2> QED
    BY <1>1, <2>3 DEF Bound
<1>3. Applying /\ ~ Applying'
  BY <1>1, Alone DEF Applying
<1>4. Initialised' = Initialised /\ Rebinding' = Rebinding
  BY <1>1 DEF Initialised, Rebinding, gInitMutex, gLoggingMutex
<1>5. "request" \in Datagram
  BY DEF Datagram
<1>6. Mailbox = << "request" >> \o inbox /\ Mailbox' = inbox
  BY <1>1, <1>2, <1>3 DEF Mailbox
<1>7. Mailbox # << >> /\ Tail(Mailbox) = Mailbox'
  BY <1>1, <1>5, <1>6, InHand
<1> QED
  BY <1>1, <1>2, <1>4, <1>7 DEF Process!Receive

(* Whatever thread has made the socket, or failed to: in the first RDK_LOG   *)
(* after a fork it is the new one of the child, else the first one.          *)
LEMMA SocketMade ==
  ASSUME Known, NEW t \in Threads, pc[t] \in {"socket", "bind"},
         Goto(t, AfterBind(t)), Unlock(g_dl_request_mutex),
         UNCHANGED << call, isLogInited, pid >>,
         Bound' \in {NoPid, pid}, Mailbox' = << >>
  PROVE  Process!Rebind \/ Process!Initialise
<1>1. /\ pc' = [pc EXCEPT ![t] = AfterBind(t)] /\ AfterBind(t) \in {"loglock", "idle", "inited"}
      /\ call[t] \in Logging <=> AfterBind(t) # "inited"
      /\ pc \in [Threads -> Labels]
      /\ owner'[gInitMutex] = owner[gInitMutex]
  BY DEF AfterBind, AfterRequests, Goto, Unlock, gInitMutex, g_dl_request_mutex, Known,
         Discipline, LockTypes, Mutex
<1>2. \A u \in Threads \ {t} : ~ Making(u) /\ pc'[u] = pc[u]
  BY <1>1, Alone DEF Making
<1>3. pc'[t] = AfterBind(t)
  BY <1>1
<1>4. Process!NewSocket
  BY DEF Process!NewSocket
<1>5. CASE call[t] \in Logging
  <2>1. Rebinding /\ ~ Rebinding'
    BY <1>1, <1>2, <1>3, <1>5 DEF Rebinding, Making
  <2>2. Initialised' = Initialised
    BY <1>1, <1>2, <1>3, <1>5 DEF Initialised
  <2> QED
    BY <1>4, <2>1, <2>2 DEF Process!Rebind, Rebinding
<1>6. CASE call[t] \notin Logging
  <2>1. Initialising(t)
    BY <1>6 DEF Initialising, Making
  <2>2. ~ Initialised
    BY <2>1, Alone DEF Initialised, Known, Custody, OneInit
  <2>3. Initialised'
    BY <1>1, <1>3, <1>6 DEF Initialised
  <2>4. ~ Rebinding /\ ~ Rebinding'
    BY <1>1, <1>2, <1>3, <1>6 DEF Rebinding, Making
  <2> QED
    BY <1>4, <2>2, <2>3, <2>4 DEF Process!Initialise, Initialised, Rebinding
<1> QED
  BY <1>5, <1>6

(* socket(): the socket is nobody's yet, or there will be none. *)
LEMMA MakeSeen ==
  ASSUME Known, NEW t \in Threads, MakeSocket(t)
  PROVE  Unseen \/ Process!Rebind \/ Process!Initialise
<1>1. /\ pc[t] = "socket" /\ g_dl_socket = NoSocket /\ sockets = {}
      /\ pc \in [Threads -> Labels]
      /\ UNCHANGED << call, isLogInited, g_dl_socket_pid, pid >>
  BY DEF MakeSocket, At, worldVars, Known, Discipline, LockTypes, Custody, OneMaker,
         OneDescriptor, NoSocket
<1>2. Bound = NoPid /\ NoPid # pid
  BY <1>1, BoundIs
<1>3. CASE /\ g_dl_socket' = NewDescriptor
           /\ sockets' = sockets \cup { << NewDescriptor, NoPid >> }
           /\ inbox' = << >> /\ Goto(t, "bind") /\ UNCHANGED owner
  <2>1. sockets' = { << NewDescriptor, NoPid >> }
    BY <1>1, <1>3
  <2>2. Bound' = NoPid
    BY <1>3, <2>1 DEF Bound
  <2>3. Mailbox' = << >> /\ Mailbox = << >>
    BY <1>1, <1>2, <2>2 DEF Mailbox
  <2>4. \A u \in Threads : pc'[u] = IF u = t THEN "bind" ELSE pc[u]
    BY <1>1, <1>3 DEF Goto
  <2>5. Rebinding' = Rebinding
    BY <1>1, <2>4 DEF Rebinding
  <2>6. Initialised' = Initialised
    BY <1>1, <1>3, <2>4 DEF Initialised
  <2> QED
    BY <1>1, <1>2, <2>2, <2>3, <2>5, <2>6 DEF Unseen
<1>4. CASE /\ g_dl_socket' = NoSocket /\ Unlock(g_dl_request_mutex)
           /\ Goto(t, AfterBind(t)) /\ UNCHANGED << sockets, inbox >>
  <2>1. Bound' = NoPid
    BY <1>1, <1>4 DEF Bound
  <2>2. Mailbox' = << >>
    BY <1>1, <1>2, <2>1 DEF Mailbox
  <2> QED
    BY <1>1, <1>4, <2>1, <2>2, SocketMade
<1> QED
  BY <1>3, <1>4 DEF MakeSocket

(* bind(): the socket is the process's own, or closed again. *)
LEMMA BindSeen ==
  ASSUME Known, NEW t \in Threads, BindSocket(t)
  PROVE  Process!Rebind \/ Process!Initialise
<1>1. /\ pc[t] = "bind" /\ g_dl_socket # NoSocket /\ OneDescriptor
      /\ pc \in [Threads -> Labels]
      /\ Goto(t, AfterBind(t)) /\ Unlock(g_dl_request_mutex)
      /\ UNCHANGED << call, isLogInited, pid >>
  BY DEF BindSocket, At, worldVars, Known, Discipline, LockTypes, Custody, OneMaker
<1>2. pid # NoPid
  BY BoundIs
<1>3. CASE CloseSocket
  <2>1. Bound' = NoPid
    BY <1>1, <1>3, ClosedIsGone DEF Bound
  <2>2. Mailbox' = << >>
    BY <1>1, <1>2, <2>1 DEF Mailbox
  <2> QED
    BY <1>1, <2>1, <2>2, SocketMade
<1>4. CASE /\ sockets' = { IF s[1] = g_dl_socket THEN << s[1], pid >> ELSE s : s \in sockets }
           /\ g_dl_socket_pid' = pid
           /\ UNCHANGED << g_dl_socket, inbox >>
  <2>1. sockets' = { << g_dl_socket, pid >> }
    BY <1>1, <1>4, BoundIsOurs
  <2>2. Bound' = pid
    BY <1>4, <2>1 DEF Bound
  <2>3. inbox = << >>
    BY <1>1 DEF Known, Bindings
  <2>4. ~ Applying'
    <3>1. \A u \in Threads \ {t} : pc[u] \notin {"applylock", "applying"}
      BY <1>1, Alone
    <3>2. AfterBind(t) \notin {"applylock", "applying"}
      BY DEF AfterBind, AfterRequests
    <3> QED
      BY <1>1, <3>1, <3>2 DEF Applying, Goto
  <2>5. Mailbox' = << >>
    BY <1>4, <2>3, <2>4 DEF Mailbox
  <2> QED
    BY <1>1, <2>2, <2>5, SocketMade
<1> QED
  BY <1>3, <1>4 DEF BindSocket

(* The flag is raised: outside it was so since there is a socket. *)
LEMMA FinishSeen ==
  ASSUME Known, NEW t \in Threads, FinishInit(t)
  PROVE  Unseen
<1>1. /\ pc[t] = "inited" /\ isLogInited' /\ AfterInit(t) \in {"extlock", "idle"}
      /\ \A u \in Threads : pc'[u] = IF u = t THEN AfterInit(t) ELSE pc[u]
      /\ UNCHANGED << call, g_dl_socket, g_dl_socket_pid, sockets, inbox, pid >>
  BY DEF FinishInit, At, Goto, AfterInit, worldVars, socketVars, Known, Discipline, LockTypes
<1>2. Initialised /\ Initialised' /\ Initialised \in BOOLEAN /\ Initialised' \in BOOLEAN
  BY <1>1 DEF Initialised
<1>3. Rebinding' = Rebinding
  BY <1>1 DEF Rebinding
<1>4. Applying' = Applying
  BY <1>1 DEF Applying
<1>5. Bound' = Bound
  BY <1>1 DEF Bound
<1>6. Mailbox' = Mailbox
  BY <1>1, <1>4, <1>5 DEF Mailbox
<1> QED
  BY <1>1, <1>2, <1>3, <1>5, <1>6 DEF Unseen

(* The socket is closed and what waited in it is gone; or there was none.    *)
LEMMA DeinitSeen ==
  ASSUME Known, NEW t \in Threads, Deinit(t)
  PROVE  Unseen \/ Process!Deinit
<1>1. /\ pc[t] = "closing" /\ pc \in [Threads -> Labels]
      /\ \A u \in Threads : pc'[u] = IF u = t THEN "leave" ELSE pc[u]
      /\ owner'[gInitMutex] = owner[gInitMutex] /\ isLogInited
      /\ UNCHANGED << call, isLogInited, g_dl_socket_pid, pid >>
  BY DEF Deinit, At, Goto, Unlock, worldVars, Known, Discipline, LockTypes, Bindings,
         gInitMutex, g_dl_request_mutex, Mutex
<1>2. g_dl_socket' = NoSocket /\ sockets' = {}
  <2>1. OneDescriptor
    BY DEF Known, Custody
  <2>2. CASE g_dl_socket = NoSocket
    BY <2>1, <2>2 DEF Deinit, OneDescriptor, NoSocket
  <2>3. CASE g_dl_socket # NoSocket
    BY <2>1, <2>3, ClosedIsGone DEF Deinit
  <2> QED
    BY <2>2, <2>3
<1>3. Bound' = NoPid /\ NoPid # pid
  BY <1>2, BoundIs DEF Bound
<1>4. Mailbox' = << >>
  BY <1>1, <1>3 DEF Mailbox
<1>5. Rebinding' = Rebinding
  BY <1>1 DEF Rebinding
<1>6. Initialised /\ Initialised' = Initialised
  BY <1>1 DEF Initialised
<1> QED
  BY <1>1, <1>3, <1>4, <1>5, <1>6 DEF Process!Deinit, Rebinding

(* fork: the socket the child finds is not its own, however far any thread   *)
(* of the parent had come with it.                                           *)
LEMMA ForkSeen ==
  ASSUME Known, NEW t \in Threads, Fork(t)
  PROVE  Process!Fork
<1>1. /\ \A u \in Threads : pc'[u] \in {"idle", "dead"}
      /\ owner' = [m \in Mutex |-> IF owner[m] = Free THEN Free ELSE Orphan]
      /\ pid' = pid + 1
      /\ UNCHANGED << isLogInited, g_dl_socket, g_dl_socket_pid, sockets >>
  BY DEF Fork, socketVars
<1>2. Bound' = Bound /\ Bound # pid'
  BY <1>1, BoundIs DEF Bound, NoPid
<1>3. Mailbox' = << >>
  BY <1>2 DEF Mailbox
<1>4. Rebinding' = FALSE
  BY <1>1 DEF Rebinding
<1>5. Initialised => Initialised'
  <2>1. ASSUME NEW u \in Threads, pc[u] = "inited" PROVE owner[gInitMutex] = u
    BY <2>1 DEF Known, Discipline, OwnersHold, Holds, Mutex, gInitMutex
  <2>2. owner[gInitMutex] = Orphan \/ (\E u \in Threads : pc[u] = "inited")
        => owner[gInitMutex] # Free
    BY <2>1, ThreadAssumption
  <2>3. gInitMutex \in Mutex
    BY DEF gInitMutex, Mutex
  <2> QED
    BY <1>1, <2>2, <2>3 DEF Initialised
<1>6. Initialised \in BOOLEAN /\ Initialised' \in BOOLEAN
  BY DEF Initialised, Known, Custody, CustodyTypes
<1> QED
  BY <1>1, <1>2, <1>3, <1>4, <1>5, <1>6 DEF Process!Fork

(* A new thread of the child is in no call. *)
LEMMA SpawnUnseen ==
  ASSUME LockTypes, NEW t \in Threads, Spawn(t)
  PROVE  Unseen
<1>1. pc[t] = "dead" /\ Passes(t, "idle")
  BY DEF Spawn, Goto, Passes, worldVars, Labels
<1> QED
  BY <1>1, PassingUnseen

(* What is sent joins the queue, behind a request in hand. *)
LEMMA SendSeen ==
  ASSUME Known, Send
  PROVE  \E d \in Datagram : Process!Arrive(d)
<1>1. PICK d \in Datagram : inbox' = Append(inbox, d)
  BY DEF Send
<1>2. /\ << g_dl_socket, pid >> \in sockets /\ inbox \in Seq(Datagram)
      /\ UNCHANGED << pc, call, owner, isLogInited, g_dl_socket, g_dl_socket_pid,
                      sockets, pid >>
  BY DEF Send, worldVars, Known, Custody, CustodyTypes
<1>3. Bound = pid /\ Bound' = Bound
  BY <1>2, BoundIs DEF Bound
<1>4. UNCHANGED << Initialised, Rebinding, Applying >>
  BY <1>2 DEF Initialised, Rebinding, Applying
<1>5. Append(<< "request" >> \o inbox, d) = << "request" >> \o inbox'
  BY <1>1, <1>2, InHand
<1>6. Mailbox' = Append(Mailbox, d)
  BY <1>1, <1>2, <1>3, <1>4, <1>5 DEF Mailbox
<1> QED
  BY <1>2, <1>3, <1>4, <1>6 DEF Process!Arrive

(* Each step of a thread is a step of the process or is not seen. *)
LEMMA ThreadStepSeen ==
  ASSUME Known, NEW t \in Threads, ThreadStep(t)
  PROVE  Process!Next \/ Unseen
<1>1. ASSUME \/ \E c \in Calls : Begin(t, c)
             \/ AwaitLogging(t) /\ pc[t] # "applylock"
             \/ AwaitInit(t) \/ TryLock(t) \/ NoRequests(t) \/ Emit(t)
             \/ AlreadyInited(t) \/ Extend(t) \/ Leave(t) \/ CheckDeinit(t)
      PROVE  Unseen
  <2>1. Discipline /\ LockTypes
    BY DEF Known, Discipline
  <2>2. Bystander(t)
    BY <1>1, <2>1, Bystanders
  <2> QED
    BY <2>1, <2>2, BystanderUnseen
<1>2. ASSUME \/ AwaitLogging(t) /\ pc[t] = "applylock"
             \/ AwaitRequest(t) \/ StartDrain(t) \/ EndDrain(t) \/ Configure(t)
      PROVE  Unseen
  BY <1>2, UnseenSteps
<1>3. DropInherited(t) => Process!DropInherited
  BY DropSeen
<1>4. Receive(t) => Process!Receive \/ Unseen
  BY ReceiveSeen
<1>5. ApplyRequest(t) => Process!Receive
  BY ApplySeen
<1>6. MakeSocket(t) => Unseen \/ Process!Rebind \/ Process!Initialise
  BY MakeSeen
<1>7. BindSocket(t) => Process!Rebind \/ Process!Initialise
  BY BindSeen
<1>8. FinishInit(t) => Unseen
  BY FinishSeen
<1>9. Deinit(t) => Unseen \/ Process!Deinit
  BY DeinitSeen
<1> HIDE DEF Unseen
<1> QED
  BY <1>1, <1>2, <1>3, <1>4, <1>5, <1>6, <1>7, <1>8, <1>9
     DEF ThreadStep, Work, Process!Next

(* The threads, however they interleave, wherever fork comes and whichever   *)
(* system call fails, look like ProcessSocket to other processes: its calls  *)
(* are single steps, and only the change of socket after a fork is two.      *)
THEOREM ImplementsProcessSocketHolds == Spec => ImplementsProcessSocket
<1>1. Init => Process!Init
  <2> SUFFICES ASSUME Init PROVE Process!Init
    OBVIOUS
  <2>1. Bound = NoPid /\ pid = 0 /\ ~ Rebinding
    BY DEF Init, Bound, Rebinding
  <2>2. Initialised = FALSE
    BY ThreadAssumption DEF Init, Initialised, gInitMutex, Mutex
  <2>3. Mailbox = << >>
    BY <2>1 DEF Mailbox, NoPid
  <2> QED
    BY <2>1, <2>2, <2>3 DEF Process!Init, Rebinding
<1>2. Unseen => UNCHANGED Process!vars
  BY DEF Unseen, Process!vars
<1>3. ASSUME Known, Next PROVE Process!Next \/ Unseen
  <2>1. ASSUME NEW t \in Threads, ThreadStep(t) \/ Fork(t) \/ Spawn(t)
        PROVE  Process!Next \/ Unseen
    <3>1. ThreadStep(t) => Process!Next \/ Unseen
      BY <1>3, ThreadStepSeen
    <3>2. Fork(t) => Process!Next
      BY <1>3, ForkSeen DEF Process!Next
    <3>3. Spawn(t) => Unseen
      BY <1>3, SpawnUnseen DEF Known, Discipline
    <3> QED
      BY <2>1, <3>1, <3>2, <3>3
  <2>2. Send => Process!Next
    BY <1>3, SendSeen DEF Process!Next
  <2>3. ASSUME SenderQuits PROVE Unseen
    BY <2>3 DEF SenderQuits, socketVars, Unseen, Initialised, Bound, Mailbox, Rebinding,
       Applying
  <2> QED
    BY <1>3, <2>1, <2>2, <2>3 DEF Next
<1>4. UNCHANGED vars => Unseen
  BY DEF vars, Unseen, Initialised, Bound, Mailbox, Rebinding, Applying
<1>5. Known /\ [Next]_vars => [Process!Next]_(Process!vars)
  BY <1>2, <1>3, <1>4
<1> QED
  BY <1>1, <1>5, KnownHolds, PTL DEF Spec, Process!Spec, ImplementsProcessSocket

=============================================================================
