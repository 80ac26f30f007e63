---------------------------- MODULE LoggerThreads ----------------------------
(***************************************************************************)
(* The threads of one process inside the library: the three mutexes, the   *)
(* one-time initialisation and the control socket, one step per stretch of *)
(* code between two lock operations or system calls (rdk_logger_init.c,    *)
(* rdk_dynamic_logger.c, the locking of rdk_debug_priv.c).                 *)
(*                                                                         *)
(* fork() is followed into the child: the calling thread goes on alone     *)
(* there, with a copy of the memory and with the inherited socket, and a   *)
(* mutex another thread held at that moment has no owner to release it.    *)
(* A signal handler is a thread whose host stands still while it runs.     *)
(* Seen from outside, the process is a ProcessSocket (at the end).         *)
(***************************************************************************)
EXTENDS Integers, Sequences, FiniteSets

CONSTANTS
  Threads,       (* the threads and signal handlers                          *)
  Handlers,      (* those that are signal handlers                           *)
  Host,          (* the thread each handler interrupts                       *)
  Free, Orphan,  (* a mutex nobody holds; one whose holder fork left behind  *)
  MaxForks,      (* bound on the generations of processes followed           *)
  QueueSize,     (* datagrams the socket holds (net.unix.max_dgram_qlen)     *)
  ForkAnywhere   (* may fork come while another thread is in the library?    *)

ASSUME ThreadAssumption ==
  /\ Handlers \subseteq Threads
  /\ Host \in [Handlers -> Threads \ Handlers]
  /\ Free \notin Threads /\ Orphan \notin Threads /\ Free # Orphan

ASSUME BoundAssumption ==
  /\ MaxForks \in Nat /\ QueueSize \in Nat /\ ForkAnywhere \in BOOLEAN

(* The mutexes, numbered in the order in which they may be nested.           *)
gInitMutex         == 1
g_dl_request_mutex == 2
gLoggingMutex      == 3
Mutex == 1 .. 3

NoSocket == -1
NoPid    == -1

(* What a datagram turns out to be: a request for this program, or one that  *)
(* is dropped (malformed, wrong signature, other program, level unknown).    *)
Datagram == {"request", "dropped"}

VARIABLES
  pc,             (* where each thread is                                    *)
  call,           (* the library call it is in                               *)
  owner,          (* who holds each mutex                                    *)
  isLogInited,
  g_dl_socket,    (* the program's variables ...                             *)
  g_dl_socket_pid,
  sockets,        (* ... and the kernel's: open <<descriptor, bound to>>     *)
  inbox,          (* datagrams waiting in the control socket                 *)
  pid,
  senderActive,   (* does rdklogctrl still send?                             *)
  configured      (* history: how often a debug.ini was read to its end      *)

socketVars == << g_dl_socket, g_dl_socket_pid, sockets, inbox >>
worldVars  == << pid, senderActive >>
vars == << pc, call, owner, isLogInited, g_dl_socket, g_dl_socket_pid,
           sockets, inbox, pid, senderActive, configured >>

-----------------------------------------------------------------------------
(* Steps of a thread.                                                        *)

(* A thread whose signal handler is running does not move. *)
Frozen(t) == \E h \in Handlers : Host[h] = t /\ pc[h] \notin {"idle", "dead"}

Goto(t, label) == pc' = [pc EXCEPT ![t] = label]

At(t, label) == pc[t] = label /\ ~ Frozen(t)

(* pthread_mutex_lock and the step it leads to; pthread_mutex_unlock. *)
Lock(t, m)   == owner[m] = Free /\ owner' = [owner EXCEPT ![m] = t]
Unlock(m)    == owner' = [owner EXCEPT ![m] = Free]

Await(t, from, m, to) ==
  /\ At(t, from) /\ Lock(t, m) /\ Goto(t, to)
  /\ UNCHANGED << call, isLogInited, socketVars, worldVars, configured >>

(* Closing the control socket: the descriptor goes, and so does what the     *)
(* socket held for this process.                                             *)
CloseSocketKeepsNumber ==        \* slip: g_dl_socket is not reset
  /\ sockets' = { s \in sockets : s[1] # g_dl_socket }
  /\ inbox' = << >>
  /\ UNCHANGED g_dl_socket

CloseSocket ==
  /\ sockets' = { s \in sockets : s[1] # g_dl_socket }
  /\ g_dl_socket' = NoSocket
  /\ inbox' = << >>

(* The application calls the library; "silent" is an RDK_LOG of level NONE,  *)
(* which looks for requests like any other and then returns.                 *)
Entry == [log    |-> "trylock",  silent |-> "trylock",  level |-> "loglock",
          init   |-> "initlock", extend |-> "initlock", deinit |-> "deinitlock"]
Calls == DOMAIN Entry

Logging == {"log", "silent"}

Begin(t, c) ==
  /\ At(t, "idle")
  /\ Goto(t, Entry[c]) /\ call' = [call EXCEPT ![t] = c]
  /\ UNCHANGED << owner, isLogInited, socketVars, worldVars, configured >>

-----------------------------------------------------------------------------
(* rdk_dbg_priv_log, starting with rdk_dyn_log_process_pending_request.      *)

AfterRequests(t) == IF call[t] = "log" THEN "loglock" ELSE "idle"

TryLock(t) ==
  /\ At(t, "trylock")
  /\ IF owner[g_dl_request_mutex] = Free
     THEN Lock(t, g_dl_request_mutex) /\ Goto(t, "check")
     ELSE UNCHANGED owner /\ Goto(t, AfterRequests(t))
  /\ UNCHANGED << call, isLogInited, socketVars, worldVars, configured >>

(* The socket is inherited from the parent: it is closed here and a new one  *)
(* made after the mutex is released.                                         *)
Inherited == g_dl_socket # NoSocket /\ g_dl_socket_pid # pid

DropInheritedLocked(t) ==       \* slip: rebinds with the mutex held
  /\ At(t, "check") /\ Inherited
  /\ CloseSocket
  /\ Goto(t, "bindlock")
  /\ UNCHANGED << owner, call, isLogInited, g_dl_socket_pid, worldVars, configured >>

DropInherited(t) ==
  /\ At(t, "check") /\ Inherited
  /\ CloseSocket
  /\ Unlock(g_dl_request_mutex) /\ Goto(t, "bindlock")
  /\ UNCHANGED << call, isLogInited, g_dl_socket_pid, worldVars, configured >>

NoRequestsYet(t) ==             \* slip: an inherited socket is left alone
  /\ At(t, "check") /\ (g_dl_socket = NoSocket \/ Inherited)
  /\ Unlock(g_dl_request_mutex) /\ Goto(t, AfterRequests(t))
  /\ UNCHANGED << call, isLogInited, socketVars, worldVars, configured >>

NoRequests(t) ==
  /\ At(t, "check") /\ g_dl_socket = NoSocket
  /\ Unlock(g_dl_request_mutex) /\ Goto(t, AfterRequests(t))
  /\ UNCHANGED << call, isLogInited, socketVars, worldVars, configured >>

StartDrainAny(t) ==             \* slip: whose socket it is does not matter
  /\ At(t, "check") /\ g_dl_socket # NoSocket
  /\ Goto(t, "drain")
  /\ UNCHANGED << call, owner, isLogInited, socketVars, worldVars, configured >>

StartDrain(t) ==
  /\ At(t, "check") /\ g_dl_socket # NoSocket /\ ~ Inherited
  /\ Goto(t, "drain")
  /\ UNCHANGED << call, owner, isLogInited, socketVars, worldVars, configured >>

(* The loop: select and recvfrom, one datagram at a time. *)
ReceivePeeks(t) ==              \* slip: the datagram stays in the socket
  /\ At(t, "drain") /\ inbox # << >>
  /\ Goto(t, IF Head(inbox) = "request" THEN "applylock" ELSE "drain")
  /\ UNCHANGED << call, owner, isLogInited, socketVars, worldVars, configured >>

Receive(t) ==
  /\ At(t, "drain") /\ inbox # << >>
  /\ Goto(t, IF Head(inbox) = "request" THEN "applylock" ELSE "drain")
  /\ inbox' = Tail(inbox)
  /\ UNCHANGED << call, owner, isLogInited, g_dl_socket, g_dl_socket_pid,
                  sockets, worldVars, configured >>

(* Nothing is left, or select or recvfrom fails (EINTR, say). *)
EndDrainLocked(t) ==            \* slip: breaks out past the unlock
  /\ At(t, "drain")
  /\ Goto(t, AfterRequests(t))
  /\ UNCHANGED << owner, call, isLogInited, socketVars, worldVars, configured >>

EndDrain(t) ==
  /\ At(t, "drain")
  /\ Unlock(g_dl_request_mutex) /\ Goto(t, AfterRequests(t))
  /\ UNCHANGED << call, isLogInited, socketVars, worldVars, configured >>

(* rdk_dbg_priv_set_level for a request, g_dl_request_mutex still held. *)
ApplyRequest(t) ==
  /\ At(t, "applying")
  /\ Unlock(gLoggingMutex) /\ Goto(t, "drain")
  /\ UNCHANGED << call, isLogInited, socketVars, worldVars, configured >>

(* The message itself, or the body of one of the level calls. *)
Emit(t) ==
  /\ At(t, "logging")
  /\ Unlock(gLoggingMutex) /\ Goto(t, "idle")
  /\ UNCHANGED << call, isLogInited, socketVars, worldVars, configured >>

-----------------------------------------------------------------------------
(* rdk_dyn_log_init, called by rdk_logger_init and after DropInherited.      *)

AfterBind(t) == IF call[t] \in Logging THEN AfterRequests(t) ELSE "inited"

NewDescriptor ==
  CHOOSE fd \in 0 .. Cardinality(sockets) : \A s \in sockets : s[1] # fd

MakeSocket(t) ==
  /\ At(t, "socket")
  /\ \/ /\ g_dl_socket' = NewDescriptor
        /\ sockets' = sockets \cup { << NewDescriptor, NoPid >> }
        /\ inbox' = << >>
        /\ Goto(t, "bind")
        /\ UNCHANGED owner
     \/ /\ g_dl_socket' = NoSocket
        /\ Unlock(g_dl_request_mutex) /\ Goto(t, AfterBind(t))
        /\ UNCHANGED << sockets, inbox >>
  /\ UNCHANGED << call, isLogInited, g_dl_socket_pid, worldVars, configured >>

(* bind fails for a path that is too long or that exists already. *)
BindSocketLeaks(t) ==           \* slip: a failed bind does not close
  /\ At(t, "bind")
  /\ \/ /\ sockets' = { IF s[1] = g_dl_socket THEN << s[1], pid >> ELSE s :
                          s \in sockets }
        /\ g_dl_socket_pid' = pid
        /\ UNCHANGED << g_dl_socket, inbox >>
     \/ /\ g_dl_socket' = NoSocket
        /\ UNCHANGED << g_dl_socket_pid, sockets, inbox >>
  /\ Unlock(g_dl_request_mutex) /\ Goto(t, AfterBind(t))
  /\ UNCHANGED << call, isLogInited, worldVars, configured >>

BindSocketForgetsPid(t) ==      \* slip: g_dl_socket_pid is not set
  /\ At(t, "bind")
  /\ \/ /\ sockets' = { IF s[1] = g_dl_socket THEN << s[1], pid >> ELSE s :
                          s \in sockets }
        /\ UNCHANGED << g_dl_socket, inbox >>
     \/ CloseSocket
  /\ UNCHANGED g_dl_socket_pid
  /\ Unlock(g_dl_request_mutex) /\ Goto(t, AfterBind(t))
  /\ UNCHANGED << call, isLogInited, worldVars, configured >>

BindSocket(t) ==
  /\ At(t, "bind")
  /\ \/ /\ sockets' = { IF s[1] = g_dl_socket THEN << s[1], pid >> ELSE s :
                          s \in sockets }
        /\ g_dl_socket_pid' = pid
        /\ UNCHANGED << g_dl_socket, inbox >>
     \/ /\ CloseSocket
        /\ UNCHANGED g_dl_socket_pid
  /\ Unlock(g_dl_request_mutex) /\ Goto(t, AfterBind(t))
  /\ UNCHANGED << call, isLogInited, worldVars, configured >>

-----------------------------------------------------------------------------
(* rdk_logger_init, rdk_logger_ext_init, rdk_logger_deinit.                  *)

AfterInit(t) == IF call[t] = "extend" THEN "extlock" ELSE "idle"

AlreadyInited(t) ==
  /\ At(t, "initcheck") /\ isLogInited
  /\ Unlock(gInitMutex) /\ Goto(t, AfterInit(t))
  /\ UNCHANGED << call, isLogInited, socketVars, worldVars, configured >>

(* debug.ini is read (LevelControl) or cannot be opened. *)
Configure(t) ==
  /\ At(t, "initcheck") /\ ~ isLogInited
  /\ \/ /\ configured' = configured + 1
        /\ Goto(t, "bindlock")
        /\ UNCHANGED owner
     \/ /\ Unlock(gInitMutex) /\ Goto(t, "idle")
        /\ UNCHANGED configured
  /\ UNCHANGED << call, isLogInited, socketVars, worldVars >>

FinishInitWithSocket(t) ==      \* slip: no socket, not initialised
  /\ At(t, "inited")
  /\ isLogInited' = (g_dl_socket # NoSocket)
  /\ Unlock(gInitMutex) /\ Goto(t, AfterInit(t))
  /\ UNCHANGED << call, socketVars, worldVars, configured >>

FinishInit(t) ==
  /\ At(t, "inited")
  /\ isLogInited' = TRUE
  /\ Unlock(gInitMutex) /\ Goto(t, AfterInit(t))
  /\ UNCHANGED << call, socketVars, worldVars, configured >>

(* rdk_dbg_priv_ext_init. *)
Extend(t) ==
  /\ At(t, "extending")
  /\ Unlock(gLoggingMutex) /\ Goto(t, "leave")
  /\ UNCHANGED << call, isLogInited, socketVars, worldVars, configured >>

(* Both rdk_logger_ext_init and rdk_logger_deinit end by unlocking.          *)
Leave(t) ==
  /\ At(t, "leave")
  /\ Unlock(gInitMutex) /\ Goto(t, "idle")
  /\ UNCHANGED << call, isLogInited, socketVars, worldVars, configured >>

CheckDeinitUnlocked(t) ==       \* slip: closes without the socket's mutex
  /\ At(t, "deinitcheck")
  /\ Goto(t, IF isLogInited THEN "closing" ELSE "leave")
  /\ UNCHANGED << call, owner, isLogInited, socketVars, worldVars, configured >>

CheckDeinit(t) ==
  /\ At(t, "deinitcheck")
  /\ Goto(t, IF isLogInited THEN "closelock" ELSE "leave")
  /\ UNCHANGED << call, owner, isLogInited, socketVars, worldVars, configured >>

(* rdk_dyn_log_deinit; isLogInited stays as it is. *)
Deinit(t) ==
  /\ At(t, "closing")
  /\ IF g_dl_socket # NoSocket THEN CloseSocket
     ELSE UNCHANGED << g_dl_socket, sockets, inbox >>
  /\ Unlock(g_dl_request_mutex) /\ Goto(t, "leave")
  /\ UNCHANGED << call, isLogInited, g_dl_socket_pid, worldVars, configured >>

-----------------------------------------------------------------------------
(* The blocking pthread_mutex_lock calls.                                    *)

AwaitLogging(t) ==
  \/ Await(t, "loglock",   gLoggingMutex, "logging")
  \/ Await(t, "applylock", gLoggingMutex, "applying")
  \/ Await(t, "catlock",   gLoggingMutex, "extending")

AwaitRequest(t) ==
  \/ Await(t, "bindlock",  g_dl_request_mutex, "socket")
  \/ Await(t, "closelock", g_dl_request_mutex, "closing")

AwaitInit(t) ==
  \/ Await(t, "initlock",   gInitMutex, "initcheck")
  \/ Await(t, "extlock",    gInitMutex, "catlock")
  \/ Await(t, "deinitlock", gInitMutex, "deinitcheck")

Work(t) ==
  \/ TryLock(t) \/ DropInherited(t) \/ NoRequests(t) \/ StartDrain(t)
  \/ Receive(t) \/ EndDrain(t) \/ ApplyRequest(t) \/ Emit(t)
  \/ MakeSocket(t) \/ BindSocket(t)
  \/ AlreadyInited(t) \/ Configure(t) \/ FinishInit(t)
  \/ Extend(t) \/ Leave(t) \/ CheckDeinit(t) \/ Deinit(t)

-----------------------------------------------------------------------------
(* The world around the library.                                             *)

(* A datagram arrives at the path of this process. *)
Send ==
  /\ senderActive /\ Len(inbox) < QueueSize
  /\ << g_dl_socket, pid >> \in sockets
  /\ \E d \in Datagram : inbox' = Append(inbox, d)
  /\ UNCHANGED << pc, call, owner, isLogInited, g_dl_socket, g_dl_socket_pid,
                  sockets, worldVars, configured >>

SenderQuits ==
  /\ senderActive /\ senderActive' = FALSE
  /\ UNCHANGED << pc, call, owner, isLogInited, socketVars, pid, configured >>

Quiet == \A t \in Threads : pc[t] \in {"idle", "dead"}

(* fork() by a thread that is not itself in the library, seen in the child.  *)
Fork(t) ==
  /\ t \notin Handlers /\ At(t, "idle")
  /\ pid < MaxForks /\ (ForkAnywhere \/ Quiet)
  /\ pid' = pid + 1
  /\ pc' = [u \in Threads |-> IF u = t THEN "idle" ELSE "dead"]
  /\ owner' = [m \in Mutex |-> IF owner[m] = Free THEN Free ELSE Orphan]
  /\ UNCHANGED << call, isLogInited, socketVars, senderActive, configured >>

(* The child creates threads of its own. *)
Spawn(t) ==
  /\ pc[t] = "dead" /\ Goto(t, "idle")
  /\ UNCHANGED << call, owner, isLogInited, socketVars, worldVars, configured >>

-----------------------------------------------------------------------------
Init ==
  /\ pc = [t \in Threads |-> "idle"]
  /\ call = [t \in Threads |-> "log"]
  /\ owner = [m \in Mutex |-> Free]
  /\ isLogInited = FALSE
  /\ g_dl_socket = NoSocket /\ g_dl_socket_pid = NoPid
  /\ sockets = {} /\ inbox = << >>
  /\ pid = 0
  /\ senderActive = TRUE
  /\ configured = 0

ThreadStep(t) ==
  \/ \E c \in Calls : Begin(t, c)
  \/ AwaitLogging(t) \/ AwaitRequest(t) \/ AwaitInit(t)
  \/ Work(t)

Next ==
  \/ \E t \in Threads : ThreadStep(t) \/ Fork(t) \/ Spawn(t)
  \/ Send \/ SenderQuits

Spec == Init /\ [][Next]_vars

(* A thread in the library keeps running, and one that waits for a mutex     *)
(* that is released again and again gets it in the end.  Nothing is assumed  *)
(* of the application, of rdklogctrl or of fork.                             *)
Fairness ==
  \A t \in Threads :
    /\ WF_vars(Work(t))
    /\ SF_vars(AwaitLogging(t))
    /\ SF_vars(AwaitRequest(t))
    /\ SF_vars(AwaitInit(t))

FairSpec == Spec /\ Fairness

-----------------------------------------------------------------------------
(* The variables hold what the code can put into them. *)
Labels ==
  {"idle", "dead", "trylock", "check", "drain", "applylock", "applying",
   "loglock", "logging", "bindlock", "socket", "bind", "initlock",
   "initcheck", "inited", "extlock", "catlock", "extending", "deinitlock",
   "deinitcheck", "closelock", "closing", "leave"}

TypeOK ==
  /\ pc \in [Threads -> Labels]
  /\ call \in [Threads -> Calls]
  /\ owner \in [Mutex -> Threads \cup {Free, Orphan}]
  /\ isLogInited \in BOOLEAN
  /\ g_dl_socket \in Nat \cup {NoSocket}
  /\ g_dl_socket_pid \in Nat \cup {NoPid}
  /\ sockets \subseteq Nat \X (Nat \cup {NoPid})
  /\ g_dl_socket # NoSocket => \E s \in sockets : s[1] = g_dl_socket
  /\ inbox \in Seq(Datagram)
  /\ pid \in Nat
  /\ senderActive \in BOOLEAN
  /\ configured \in Nat

(* The stretches of code that run with a mutex held. *)
Holds(t, m) ==
  \/ /\ m = gInitMutex
     /\ \/ pc[t] \in {"initcheck", "inited", "catlock", "extending",
                      "deinitcheck", "closelock", "closing", "leave"}
        \/ pc[t] \in {"bindlock", "socket", "bind"} /\ call[t] \notin Logging
  \/ /\ m = g_dl_request_mutex
     /\ pc[t] \in {"check", "drain", "applylock", "applying", "socket", "bind",
                   "closing"}
  \/ /\ m = gLoggingMutex
     /\ pc[t] \in {"logging", "applying", "extending"}

Waits(t, m) ==
  \/ m = gInitMutex         /\ pc[t] \in {"initlock", "extlock", "deinitlock"}
  \/ m = g_dl_request_mutex /\ pc[t] \in {"bindlock", "closelock"}
  \/ m = gLoggingMutex      /\ pc[t] \in {"loglock", "applylock", "catlock"}

(* docs/README.md:39: no two threads are in stretches of code that one mutex *)
(* guards, through every call, rebind after fork and failed system call.     *)
MutualExclusion ==
  \A m \in Mutex, t, u \in Threads : Holds(t, m) /\ Holds(u, m) => t = u

(* Deadlock freedom for any number of threads: a thread that waits for a     *)
(* mutex owns only mutexes that come before it in the order of nesting, so   *)
(* no cycle of waiting threads can close.  The two calls that might break it *)
(* are rdk_dyn_log_init from inside process_pending_request and a level      *)
(* change while the socket is being drained.                                 *)
LockOrder ==
  \A t \in Threads, k, m \in Mutex : Waits(t, m) /\ owner[k] = t => k < m

(* The process never holds more than the one control socket it knows of,     *)
(* though rdk_dyn_log_init overwrites g_dl_socket without looking at it.     *)
NoDescriptorLost ==
  \A s \in sockets : s[1] = g_dl_socket

(* A thread takes datagrams only from a socket bound to its own process's    *)
(* path, never from the one it inherited, which its parent still reads; and  *)
(* nobody closes or replaces it under the thread's hands.                    *)
DrainsOwnSocket ==
  \A t \in Threads :
    pc[t] \in {"drain", "applylock", "applying"} => << g_dl_socket, pid >> \in sockets

(* rdk_dynamic_logger.c:100, "after fork/daemonize the inherited socket is   *)
(* named after the parent PID; rebind for ours": a message of the child is   *)
(* logged only after the parent's socket has been given up, even by a thread *)
(* whose trylock failed because another one was about to do it.              *)
RebindsAfterFork ==
  \A t \in Threads :
    /\ call[t] = "log" /\ pc[t] \in {"loglock", "logging"}
    /\ \A u \in Threads : ~ Holds(u, g_dl_request_mutex)
    => ~ Inherited

(* debug.ini is read to its end, and log4c set up, once in the life of a     *)
(* process and its children, however many threads call rdk_logger_init.      *)
ConfiguredOnce == configured <= 1

Inside(t) == pc[t] \notin {"idle", "dead"}

(* A thread in the library whose next step nobody holds up. *)
CanMove(t) ==
  /\ Inside(t) /\ ~ Frozen(t)
  /\ \A m \in Mutex : Waits(t, m) => owner[m] = Free

(* docs/README.md:39, "safe concurrent use [...] without external            *)
(* synchronization": of any threads in the library one can move, or waits    *)
(* for a thread in the library that is not among them.  So whoever is held   *)
(* up is so by calls that go on: no mutex is kept by a thread that has left, *)
(* was lost in a fork or waits for itself, and no circle closes.             *)
NobodyStuck ==
  \A group \in SUBSET { t \in Threads : Inside(t) } : group # {} =>
    \E t \in group :
      \/ CanMove(t)
      \/ \E m \in Mutex, u \in Threads \ group :
           Waits(t, m) /\ owner[m] = u /\ Inside(u)

(* How many steps a call has left at most, with what waits in the socket.    *)
StepsFrom ==
  [trylock |-> 10, check |-> 9, drain |-> 3, applylock |-> 5, applying |-> 4,
   loglock |-> 2, logging |-> 1,
   initlock |-> 10, initcheck |-> 9, bindlock |-> 8, socket |-> 7, bind |-> 6,
   inited |-> 5, extlock |-> 4, catlock |-> 3, extending |-> 2, leave |-> 1,
   deinitlock |-> 5, deinitcheck |-> 4, closelock |-> 3, closing |-> 2,
   idle |-> 0, dead |-> 0]

StepsLeft(t) == StepsFrom[pc[t]] + 3 * Len(inbox)

(* Nothing in the library goes round for ever by itself (rdk_dynamic_logger.c*)
(* has its while(1) at line 114): when nothing more is sent, whatever any    *)
(* thread does, each call comes nearer to its end with every step of its own *)
(* and is never set back by another's.                                       *)
CallsRunDown ==
  [][ \A t \in Threads :
        /\ ~ senderActive /\ Inside(t)
        /\ << pc[t], inbox >>' # << pc[t], inbox >>
        => StepsLeft(t)' < StepsLeft(t) ]_vars

(* Every call returns once rdklogctrl has stopped sending. *)
CallsReturn ==
  \A t \in Threads :
    ~ senderActive /\ pc[t] # "idle" ~> pc[t] \in {"idle", "dead"}

(* docs/API_DOCUMENTATION.md:741, "always clean up in signal handlers": the   *)
(* RDK_LOG and the rdk_logger_deinit of a signal handler return.             *)
HandlersReturn ==
  \A h \in Handlers :
    /\ ~ senderActive
    /\ pc[h] # "idle" /\ call[h] \in {"log", "deinit"}
    ~> pc[h] \in {"idle", "dead"}

(* rdk_debug_priv.c:634, "this is not a blocking call and it shall return    *)
(* immediately": every call returns.                                         *)
ReturnsImmediately ==
  \A t \in Threads : pc[t] # "idle" ~> pc[t] \in {"idle", "dead"}

-----------------------------------------------------------------------------
(* The process as seen from outside, where a call is one step.  It counts as *)
(* initialised from the moment it has its socket, and for good if fork has   *)
(* left gInitMutex behind; a request counts as waiting until it is applied.  *)
Initialised ==
  isLogInited \/ owner[gInitMutex] = Orphan \/ \E t \in Threads : pc[t] = "inited"

Bound ==
  IF << g_dl_socket, g_dl_socket_pid >> \in sockets THEN g_dl_socket_pid ELSE NoPid

Rebinding ==
  \E t \in Threads : pc[t] \in {"bindlock", "socket", "bind"} /\ call[t] \in Logging

Applying == \E t \in Threads : pc[t] \in {"applylock", "applying"}

Mailbox ==
  IF Bound # pid THEN << >>
  ELSE IF Applying THEN << "request" >> \o inbox ELSE inbox

Process == INSTANCE ProcessSocket WITH
  isLogInited <- Initialised, bound <- Bound, mailbox <- Mailbox,
  rebinding <- Rebinding

(* The calls of the threads look like single steps to other processes, in    *)
(* some order (RuntimeControl builds on that): no datagram is lost, taken    *)
(* twice or out of order between two threads, a deinit leaves no socket, an  *)
(* inherited socket is closed and replaced once, and an initialisation makes *)
(* one socket, wherever fork and failing system calls come in between.       *)
ImplementsProcessSocket == Process!Spec

=============================================================================
