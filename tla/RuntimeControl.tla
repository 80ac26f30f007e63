---------------------------- MODULE RuntimeControl ----------------------------
(***************************************************************************)
(* Changing levels from outside: rdklogctrl, the datagram sockets below    *)
(* /tmp, and the processes that own, inherit, abandon and drain them       *)
(* (utils/rdklogctrl.c, rdk_dynamic_logger.c, rdk_logger_init.c).          *)
(*                                                                         *)
(* The calls of one process are single steps here, but for the rebinding   *)
(* after a fork, which is two: LoggerThreads shows that its threads look   *)
(* like that from outside (they implement ProcessSocket, whose steps these *)
(* are).  What is left is what processes do to each other: fork shares a   *)
(* socket, exit leaves its path behind, a process id is used again, and    *)
(* rdklogctrl looks up a name before it sends.                             *)
(***************************************************************************)
EXTENDS Integers, Sequences, FiniteSets

CONSTANTS
  Process,       (* the processes there will ever be, each run once          *)
  Pid,           (* process ids, used again once their process is gone       *)
  Name,          (* program names                                            *)
  LongNames,     (* those too long for a socket path                         *)
  Level, FirstLevel,   (* levels asked for; the one debug.ini gives          *)
  QueueSize,     (* datagrams a socket holds                                 *)
  MaxSockets,    (* bound on the sockets ever made                           *)
  SocketMayFail  (* may socket() fail?                                       *)

NoSocket == -1
NoPid    == -1
NoFile   == 0
Socket   == 1 .. MaxSockets

ASSUME ControlAssumption ==
  /\ Pid \subseteq Nat \ {0} /\ LongNames \subseteq Name
  /\ "" \notin Name
  /\ FirstLevel \in Level
  /\ QueueSize \in Nat /\ MaxSockets \in Nat /\ SocketMayFail \in BOOLEAN

(* A datagram is a request (signature and size are right, the level is one)  *)
(* or something every process drops.                                         *)
Request == [app : Name, level : Level]
Junk    == [app |-> "", level |-> FirstLevel]

(* rdklogctrl between looking up the name of a process and sending to it. *)
Idle == [pid |-> NoPid, app |-> "", level |-> FirstLevel]

VARIABLES
  status,            (* [Process -> unborn, running or exited]               *)
  pid, progname,     (* getpid() and __progname of each process              *)
  isLogInited, g_dl_socket, g_dl_socket_pid, level,   (* its variables       *)
  rebinding,         (* the processes with a thread that has given up the    *)
                     (* parent's socket and not made one of its own yet      *)
  path,              (* [Name \X Pid -> Socket \cup {NoFile}], the files     *)
  queue,             (* [Socket -> the datagrams in it]                      *)
  made,              (* sockets made so far                                  *)
  ctl,               (* the rdklogctrl that is running                       *)
  initialised        (* history: the processes that rdk_logger_init has told *)
                     (* RDK_SUCCESS and that never called rdk_logger_deinit  *)

memory == << isLogInited, g_dl_socket, g_dl_socket_pid, rebinding >>
kernel == << path, queue, made >>
vars   == << status, pid, progname, isLogInited, g_dl_socket, g_dl_socket_pid,
             level, rebinding, path, queue, made, ctl, initialised >>

Put(f, p, v) == [f EXCEPT ![p] = v]

Running == { p \in Process : status[p] = "running" }

Holders(s) == { p \in Running : g_dl_socket[p] = s }

Inherited(p) == g_dl_socket[p] # NoSocket /\ g_dl_socket_pid[p] # pid[p]

Own(p) == status[p] = "running" /\ g_dl_socket[p] # NoSocket /\ ~ Inherited(p)

(* What p closes is gone, with all it holds, if nobody else has it. *)
QueuesWithout(p) ==
  [s \in Socket |-> IF Holders(s) \subseteq {p} THEN << >> ELSE queue[s]]

-----------------------------------------------------------------------------
(* Processes come and go.                                                    *)

FreePids == Pid \ { pid[p] : p \in Running }

Exec(p) ==
  /\ status[p] = "unborn" /\ status' = Put(status, p, "running")
  /\ \E i \in FreePids, n \in Name : /\ pid' = Put(pid, p, i)
                                     /\ progname' = Put(progname, p, n)
  /\ UNCHANGED << memory, level, kernel, ctl, initialised >>

(* fork(): the child has a copy of the memory and of the descriptor, and the *)
(* thread that forked; one that rebinds stays behind.  That its pid is not   *)
(* the one its socket is named after leaves out a grandchild that is given   *)
(* the pid of an ancestor and has not logged before.                         *)
Fork(p, q) ==
  /\ p \in Running
  /\ status[q] = "unborn" /\ status' = Put(status, q, "running")
  /\ \E i \in FreePids \ {g_dl_socket_pid[p]} : pid' = Put(pid, q, i)
  /\ progname' = Put(progname, q, progname[p])
  /\ isLogInited' = Put(isLogInited, q, isLogInited[p])
  /\ g_dl_socket' = Put(g_dl_socket, q, g_dl_socket[p])
  /\ g_dl_socket_pid' = Put(g_dl_socket_pid, q, g_dl_socket_pid[p])
  /\ level' = Put(level, q, level[p])
  /\ initialised' = IF p \in initialised THEN initialised \cup {q} ELSE initialised
  /\ UNCHANGED << rebinding, kernel, ctl >>

(* Exit, or a crash: the descriptor is closed, the path stays. *)
Exit(p) ==
  /\ p \in Running /\ status' = Put(status, p, "exited")
  /\ g_dl_socket' = Put(g_dl_socket, p, NoSocket)
  /\ queue' = QueuesWithout(p)
  /\ rebinding' = rebinding \ {p} /\ initialised' = initialised \ {p}
  /\ UNCHANGED << pid, progname, isLogInited, g_dl_socket_pid, level, path,
                  made, ctl >>

-----------------------------------------------------------------------------
(* The library in one process.                                               *)

(* rdk_dyn_log_init; the bind fails if the path is there already.  Whatever  *)
(* socket p had has been closed by its caller.                               *)
MakeSocketForgetsPid(p) ==      \* slip: g_dl_socket_pid is not set
  LET at   == << progname[p], pid[p] >>
      Works == path[at] = NoFile /\ progname[p] \notin LongNames
  IN  /\ UNCHANGED g_dl_socket_pid
      /\ \/ /\ Works /\ made < MaxSockets /\ made' = made + 1
            /\ g_dl_socket' = Put(g_dl_socket, p, made')
            /\ path' = Put(path, at, made')
         \/ /\ ~ Works \/ SocketMayFail
            /\ g_dl_socket' = Put(g_dl_socket, p, NoSocket)
            /\ UNCHANGED << path, made >>

MakeSocket(p) ==
  LET at   == << progname[p], pid[p] >>
      Works == path[at] = NoFile /\ progname[p] \notin LongNames
  IN  \/ /\ Works /\ made < MaxSockets /\ made' = made + 1
         /\ g_dl_socket' = Put(g_dl_socket, p, made')
         /\ g_dl_socket_pid' = Put(g_dl_socket_pid, p, pid[p])
         /\ path' = Put(path, at, made')
      \/ /\ ~ Works \/ SocketMayFail
         /\ g_dl_socket' = Put(g_dl_socket, p, NoSocket)
         /\ UNCHANGED << g_dl_socket_pid, path, made >>

(* rdk_logger_init; what it does besides is LevelControl's. *)
RdkLoggerInit(p) ==
  /\ p \in Running
  /\ \/ /\ ~ isLogInited[p] /\ isLogInited' = Put(isLogInited, p, TRUE)
        /\ MakeSocket(p) /\ UNCHANGED rebinding
        /\ initialised' = initialised \cup {p}
     \/ /\ isLogInited[p]
        /\ UNCHANGED << memory, path, made, initialised >>
  /\ UNCHANGED << status, pid, progname, level, queue, ctl >>

(* RDK_LOG with a socket that is the parent's: it is closed, and one of its  *)
(* own made when g_dl_request_mutex has been let go and taken again, so that *)
(* any other call of the process, and a fork, may come in between.           *)
TakeInherited(p) ==             \* slip: takes the parent's socket for its own
  /\ p \in Running /\ Inherited(p)
  /\ g_dl_socket_pid' = Put(g_dl_socket_pid, p, pid[p])
  /\ UNCHANGED << status, pid, progname, isLogInited, g_dl_socket, level,
                  rebinding, kernel, ctl, initialised >>

DropInherited(p) ==
  /\ p \in Running /\ Inherited(p)
  /\ g_dl_socket' = Put(g_dl_socket, p, NoSocket)
  /\ queue' = QueuesWithout(p)
  /\ rebinding' = rebinding \cup {p}
  /\ UNCHANGED << status, pid, progname, isLogInited, g_dl_socket_pid, level,
                  path, made, ctl, initialised >>

Rebind(p) ==
  /\ p \in rebinding /\ rebinding' = rebinding \ {p}
  /\ MakeSocket(p)
  /\ UNCHANGED << status, pid, progname, isLogInited, level, queue, ctl,
                  initialised >>

(* RDK_LOG with a socket of its own: one turn of the loop.  What is not a    *)
(* request for this program is dropped.                                      *)
ReceiveAny(p) ==                \* slip: whose socket it is does not matter
  /\ p \in Running /\ g_dl_socket[p] # NoSocket
  /\ LET s == g_dl_socket[p]
         d == Head(queue[s])
     IN  /\ queue[s] # << >>
         /\ queue' = Put(queue, s, Tail(queue[s]))
         /\ level' = IF d.app = progname[p] THEN Put(level, p, d.level) ELSE level
  /\ UNCHANGED << status, pid, progname, memory, path, made, ctl, initialised >>

Receive(p) ==
  /\ Own(p)
  /\ LET s == g_dl_socket[p]
         d == Head(queue[s])
     IN  /\ queue[s] # << >>
         /\ queue' = Put(queue, s, Tail(queue[s]))
         /\ level' = IF d.app = progname[p] THEN Put(level, p, d.level) ELSE level
  /\ UNCHANGED << status, pid, progname, memory, path, made, ctl, initialised >>

SetLevel(p, l) ==
  /\ p \in Running
  /\ level' = Put(level, p, l)
  /\ UNCHANGED << status, pid, progname, memory, kernel, ctl, initialised >>

(* rdk_logger_deinit; isLogInited stays. *)
Deinit(p) ==
  /\ p \in Running
  /\ IF isLogInited[p]
     THEN /\ g_dl_socket' = Put(g_dl_socket, p, NoSocket)
          /\ queue' = QueuesWithout(p)
     ELSE UNCHANGED << g_dl_socket, queue >>
  /\ initialised' = initialised \ {p}
  /\ UNCHANGED << status, pid, progname, isLogInited, g_dl_socket_pid, level,
                  rebinding, path, made, ctl >>

-----------------------------------------------------------------------------
(* rdklogctrl, and any other program that sends to a path.                   *)

(* The name of the process is read from /proc. *)
Resolve(i, l) ==
  /\ ctl = Idle
  /\ \E p \in Running : pid[p] = i /\ ctl' = [pid |-> i, app |-> progname[p], level |-> l]
  /\ UNCHANGED << status, pid, progname, memory, level, kernel, initialised >>

(* sendto succeeds if a socket that somebody still has open is bound there   *)
(* and is not full.                                                          *)
Accepts(at) ==
  /\ path[at] # NoFile
  /\ Holders(path[at]) # {}
  /\ Len(queue[path[at]]) < QueueSize

Deliver(at, d) == queue' = Put(queue, path[at], Append(queue[path[at]], d))

Send ==
  /\ ctl # Idle /\ ctl' = Idle
  /\ LET at == << ctl.app, ctl.pid >>
     IN  IF ctl.app \notin LongNames /\ Accepts(at)
         THEN Deliver(at, [app |-> ctl.app, level |-> ctl.level])
         ELSE UNCHANGED queue
  /\ UNCHANGED << status, pid, progname, memory, level, path, made, initialised >>

(* A datagram from elsewhere: malformed, or naming no program that runs.     *)
Noise(at) ==
  /\ Accepts(at)
  /\ Deliver(at, Junk)
  /\ UNCHANGED << status, pid, progname, memory, level, path, made, ctl, initialised >>

-----------------------------------------------------------------------------
Init ==
  /\ status = [p \in Process |-> "unborn"]
  /\ pid = [p \in Process |-> NoPid]
  /\ progname \in [Process -> {""}]
  /\ isLogInited = [p \in Process |-> FALSE]
  /\ g_dl_socket = [p \in Process |-> NoSocket]
  /\ g_dl_socket_pid = [p \in Process |-> NoPid]
  /\ level = [p \in Process |-> FirstLevel]
  /\ rebinding = {}
  /\ path = [at \in Name \X Pid |-> NoFile]
  /\ queue = [s \in Socket |-> << >>]
  /\ made = 0
  /\ ctl = Idle
  /\ initialised = {}

Next ==
  \/ \E p \in Process :
       \/ Exec(p) \/ Exit(p)
       \/ RdkLoggerInit(p) \/ Deinit(p)
       \/ DropInherited(p) \/ Rebind(p) \/ Receive(p)
       \/ \E l \in Level : SetLevel(p, l)
       \/ \E q \in Process : Fork(p, q)
  \/ \E i \in Pid, l \in Level : Resolve(i, l)
  \/ Send
  \/ \E at \in Name \X Pid : Noise(at)

Spec == Init /\ [][Next]_vars

-----------------------------------------------------------------------------
(* The variables hold what the code can put into them. *)
TypeOK ==
  /\ status \in [Process -> {"unborn", "running", "exited"}]
  /\ pid \in [Process -> Pid \cup {NoPid}]
  /\ progname \in [Process -> Name \cup {""}]
  /\ isLogInited \in [Process -> BOOLEAN]
  /\ g_dl_socket \in [Process -> 1 .. made \cup {NoSocket}]
  /\ g_dl_socket_pid \in [Process -> Pid \cup {NoPid}]
  /\ \A p \in Running : g_dl_socket[p] # NoSocket => g_dl_socket_pid[p] \in Pid
  /\ level \in [Process -> Level]
  /\ path \in [Name \X Pid -> 0 .. made]
  /\ queue \in [Socket -> Seq(Request \cup {Junk})]
  /\ \A s \in Socket : /\ Len(queue[s]) <= QueueSize
                       /\ Holders(s) = {} => queue[s] = << >>
  /\ made \in 0 .. MaxSockets
  /\ rebinding \subseteq Running /\ initialised \subseteq Running

(* The levels that the requests for app among the datagrams of q ask for. *)
Asked(q, app) ==
  LET After[n \in 0 .. Len(q)] ==
        IF n = 0 THEN << >>
        ELSE IF q[n].app = app THEN Append(After[n - 1], q[n].level)
        ELSE After[n - 1]
  IN  After[Len(q)]

(* The requests that wait in a socket of the process's own. *)
Mailbox ==
  [p \in Process |->
     IF Own(p) THEN Asked(queue[g_dl_socket[p]], progname[p]) ELSE << >>]

Remote == INSTANCE RemoteLevels WITH mailbox <- Mailbox

(* However processes fork, rebind, exit and reuse each other's ids, and      *)
(* whatever else is sent to their paths, each is changed only by requests    *)
(* addressed to it, each request by one process, in the order they came, and *)
(* none disappears unless its addressee closes the socket.                   *)
ImplementsRemoteLevels == Remote!Spec

(* A socket that a process drains is the one rdklogctrl reaches under that   *)
(* process's id and name: nobody else has taken the path, and no two         *)
(* processes drain the same socket.                                          *)
OwnIsReachable ==
  /\ \A p \in Process : Own(p) => path[<< progname[p], pid[p] >>] = g_dl_socket[p]
  /\ \A p, q \in Process :
       Own(p) /\ Own(q) /\ g_dl_socket[p] = g_dl_socket[q] => p = q

(* docs/README.md:54, "each running process that has initialized RDK Logger  *)
(* maintains a non-blocking UNIX socket": a process whose rdk_logger_init    *)
(* succeeded and that has not called rdk_logger_deinit has one, or is about  *)
(* to make one, or its program name is too long for a path.                  *)
InitialisedHasSocket ==
  \A p \in initialised \ rebinding :
    progname[p] \notin LongNames => g_dl_socket[p] # NoSocket

=============================================================================
