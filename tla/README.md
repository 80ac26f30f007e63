# RDK Logger: a TLA+ development

This directory specifies RDK Logger in TLA+: its concurrent and stateful core, its
text functions and its own tests. TLC checks it on small instances, and TLAPS proves
its safety properties, its action property and its four refinements for every
instance. Paths below are
relative to the root of the repository.

## 1. The system

RDK Logger is a C library, a thin layer over log4c, that lives in the process of
every component that logs, and one command, `rdklogctrl`, that changes levels in a
running process.

| Component | State | Operations | Module |
|---|---|---|---|
| Level tables (`include/rdk_logger.h`, `src/rdk_debug_priv.c:134-164`) | none | level to priority and back | `LogLevels` |
| Level control (`src/rdk_debug_priv.c:598-726`, `src/rdk_debug.c`) | each log4c category's priority, `gRootPriority`, `gRootCat` | log, is-enabled, set, enable, get | `LevelControl` |
| Configuration parser (`src/rdk_debug_priv.c:197-330`) | position in `debug.ini` | one step per line | `ConfigText` (text), `LevelControl` (effects) |
| Extended initialisation (`src/rdk_debug_priv.c:400-574`) | appenders, additivity, layouts, rolling files | `rdk_logger_ext_init` | `LogAppenders`, `LevelControl` (level) |
| Initialisation (`src/rdk_logger_init.c`) | `gInitMutex`, `isLogInited` | init, ext_init, deinit | `LevelControl`, `LoggerThreads`, `RuntimeControl` |
| Dynamic logger (`src/rdk_dynamic_logger.c`) | `g_dl_request_mutex`, `g_dl_socket`, `g_dl_socket_pid`, the socket's queue, its path | init, drain, rebind after fork, deinit | `LoggerThreads`, `RuntimeControl`, `ControlRequest` (one datagram) |
| `rdklogctrl` (`utils/rdklogctrl.c`) | none between runs | check arguments, look up the name of a process, send a datagram | `ControlRequest`, `RuntimeControl` |
| Layouts (`src/rdk_debug_priv.c:728-903`) | a growing buffer | format one record | `LogRecord` (text), `LogAppenders` (fields) |
| Output appenders (`src/rdk_debug_priv.c:906-981`) | the stream a console appender keeps | open, print, syslog, journal | `LogAppenders` |
| Onboarding log (`src/rdk_logger_onboard.c` and its command) | marker files, log file | append one record | `LogRecord` |
| Milestone log (`src/rdk_logger_milestone.c` and its command) | log file | append one line | `LogRecord` |
| Tests (`unittests/`, `test/`) | none | the suites' calls and assertions | `UnitTests` |
| log4c | categories, appenders | external | as used |

How they interact. The application calls the library from any of its threads. Every
`RDK_LOG` first drains the control socket (`rdk_dyn_log_process_pending_request`),
which may set levels, and then takes `gLoggingMutex`, decides and prints.
`rdk_logger_init` runs under `gInitMutex` only; it reads the file while other threads
log. `rdklogctrl` knows a process by its id, reads its name from `/proc` and sends to
the path made of both. `fork` copies all of it.

What is hard, and what the properties are for:

* the first message of a module *pins* it to `gRootPriority`, at any moment, also
  between two lines of the file being read;
* `gRootPriority` is a copy of the priority of `LOG.RDK`, kept by hand;
* `RDK_LOG_NONE` has two representations;
* a name log4c has no category for (the empty one, and NULL) is treated by each call
  in its own way;
* after an initialisation that failed half-way the library is already printing;
* three mutexes, one of them tried and not waited for, one released in the middle of
  a function and taken again by the function it calls;
* a socket that a child shares with its parent until the child first logs;
* paths that outlive processes, process ids that are used again, and a sender that
  looks up and sends in two steps;
* system calls that fail half-way, and memory that runs out between freeing the old
  rolling data of an appender and making the new;
* appenders and policies found again by name, re-initialised while they are open and
  while child categories log through them;
* text cut by buffers: a line of `debug.ini`, a record, an onboarding message, a name
  in a datagram.

`PROJECT.json` lists each of these hazards with its line and the properties that
cover it.

## 2. Modules

`LogLevels` has the two tables and the rule by which the parser reads a value.

`LevelControl` is the state of the levels. One action per call that takes
`gLoggingMutex`; `rdk_logger_init` is cut into the steps between which other threads'
calls can fall: loading log4c (`StartBackend`), opening the file (`OpenConfig`), each
line, and for a `LOG.RDK.DEFAULT` line the two assignments separately (`ParseDefault`,
`PublishDefault`), the last read of `gRootPriority` (`FinishInit`, `FailInit`). The
hierarchy of names is a constant `Ancestry`; `Chained`, `Enabled` and `Appenders` are
log4c's rules as the library relies on them. `answer` is what the last call told its
caller and `adjusted` (history) the categories set by a call. A request of
`rdklogctrl` is `SetLogLevel`: it ends in the same function. Callers may also give a
name without a category (`GivenName`): for the empty name `RDK_LOG` goes by `gRootCat`
and pins nothing (`Decider`, `Pinned`), is-enabled says no, set reports success and sets
nothing, get says NONE, and ext_init refuses it; NULL is declined by all but ext_init,
for which it means `gRootCat`.

`LevelPolicy` is the promise of the documents: one level per module. `LevelControl`
implements it (`ImplementsPolicy`) with
`level <- EffectiveLevel, configured <- isLogInited`, for callers within
`DocumentedUse`: flat module names, calls after initialisation, only modules adjusted,
never to NONE and never by "disabling".

`LoggerThreads` is the locking. A thread's `pc` names the stretch of code between two
lock operations or system calls; `Entry` lists the calls (a message, a message of
level NONE, a level call, init, ext_init, deinit). `owner` is one owner per mutex. The
kernel's side is `sockets`, the open descriptors with the process each is bound to, and
`inbox`. `Fork` follows the child: its other threads are gone, memory and descriptor
are copied, a mutex held by another thread has the owner `Orphan`. A signal handler is
a thread whose host stands still while it runs.

`ProcessSocket` is what those threads come to for the rest of the world: one process,
its socket and the datagrams in it, with every call a single step. The exception is
the first `RDK_LOG` after a fork: the inherited socket is closed and the mutex let go
(`src/rdk_dynamic_logger.c:103-104`) before `rdk_dyn_log_init` takes it again, so it is
two steps, `DropInherited` and `Rebind`, with anything in between. `LoggerThreads`
implements it (`ImplementsProcessSocket`). A process counts as initialised from the
moment its socket is made or has failed (`Initialised`), and a request as waiting
until its level has been set (`Mailbox`): the drain loop takes it out of the socket
earlier, but no other thread can tell.

`RuntimeControl` is several processes, each of which takes the steps of
`ProcessSocket`: that this is how its threads look from outside is what
`ImplementsProcessSocket` says. Processes are started, fork, exit and reuse process
ids; `rebinding` has those between the two steps; `path` is the file system's view of
the sockets, and is never cleaned up because nothing in the code does. `rdklogctrl` is `Resolve` and then `Send`. It
implements `RemoteLevels` (`ImplementsRemoteLevels`): one mailbox per process, from
which only its owner takes. The mailbox is the refinement mapping `Mailbox`, the
requests addressed to a process that wait in a socket of its own.

`LogAppenders` is what `rdk_logger_ext_init` leaves in log4c. `appender` has each
name's type, layout, data and whether it is open, `heap` the rolling-file data that is
allocated, `bound` the data each rolling policy was last given when its file was opened,
`routed` and `additive` the categories. The calls are under `gLoggingMutex`, so each is
one action; within `ReplaceFile` (`src/rdk_debug_priv.c:459-504`) memory may run out.
`Log` is log4c's walk up the hierarchy with the lazy opening of appenders, and the
functions log4c calls back. It implements `LogRouting` (`ImplementsRouting`), where a
module simply has a destination and a format: its own, or the nearest enclosing
module's.

`ConfigText` is `debug.ini` as characters: the buffers `fgets` fills, the splitting at
the first "=", trimming, the terminator the loop writes, and the words for levels. Its
recursion is written as recursive functions. `LogRecord` is the text of a record, of
an onboarding record and of a milestone. `ControlRequest` is one request of
`rdklogctrl` from its arguments to the change it makes in the receiver. None of the
three has state: `LogText` calls each of their functions with every input of an
instance and keeps the last call and its result, and its properties compare the result
with a reading of the input that does not follow the code.

`UnitTests` puts the repository's tests over `LevelControl`, `ConfigText`,
`ControlRequest` and `LogRecord`. A test is a sequence of stages, a stage a set of
threads, a thread a list of calls with the answers it accepts; what no assertion
looks at is accepted whatever it is (`BOOLEAN`). That is so of the message tests and
of the program of `test/`: they only log, and what `Expectations` says of them is that
the calls they do assert succeed and that each comes to its end. `debug.ini` is the text
the test writes; for the tests that use `RDK_LOGGER_INIT` it is one of `DeviceInis`, and
where the test accepts a failure there may be none.

`MC_...` modules hold the instances. The theorems are in a module `..._proofs` for each
of `LevelControl`, `LevelPolicy`, `LoggerThreads`, `RuntimeControl`, `LogAppenders`,
`LogRouting` and `LogText`; the one named after an abstract specification proves that
the detailed one implements it. `NaturalLemmas` has least and greatest numbers and
induction.

Definitions marked `slip` next to an action are that action with a plausible bug. No
specification uses them; putting one in its action's place breaks the property that
`PROJECT.json` pairs it with.

## 3. Runs

| Run | Checks | Instance |
|---|---|---|
| `levels_documented` | `TypeOK`, `ImplementsPolicy` | two modules, eight files, three levels to set, all message levels |
| `levels_any_use` | `ConfigWins`, `FallbackIsRoot`, `ReportedIsEnforced`, `NamelessLikeUnset`, `WarnUntilInit`, `OneAppender` | nested and foreign names, the empty name and NULL, early calls, failing log4c, `LOG.RDK` adjusted |
| `threads` | `TypeOK`, `MutualExclusion`, `LockOrder`, `NoDescriptorLost`, `DrainsOwnSocket`, `RebindsAfterFork`, `ConfiguredOnce`, `NobodyStuck`, `CallsRunDown`, `CallsReturn`, `ImplementsProcessSocket` | two threads, one fork, queue of two |
| `control` | `TypeOK`, `OwnIsReachable`, `ImplementsRemoteLevels` | three processes, two ids, two names (one too long for a path), two levels, queue of two |
| `appenders` | `TypeOK`, `DataFitsType`, `HeldOnce`, `PolicyIsBound`, `ImplementsRouting` | four nested categories, one of them and LOG.RDK configurable, three outputs, two targets, two blocks of memory |
| `text` | `ReadsAsWritten`, `TerminatorInside`, `RecordIsWhole`, `OneRecordPerCall`, `MilestonesInOrder`, `AppliedAsMeant` | all texts of at most 7 characters, all messages of at most 3, all command lines |
| `tests` | `Expectations` | the 157 enabled tests outside those named in section 6, and the program of `test/` |
| `levels_none_at_runtime`, `levels_enabled_logged`, `threads_signal`, `threads_busy_sender`, `control_stale_path` | one property each, violated | see section 5 |

Bounds, and why they are enough.

* *Files.* A file matters through the order of DEFAULT, module and other lines and
  through three kinds of value (a level, NONE, unrecognised). The lists contain: none,
  DEFAULT before and after modules, repeated lines, NONE and unrecognised for both
  kinds, lines for `LOG.RDK` itself and for foreign names, and a child before its
  parent.
* *Levels.* In `levels_any_use` the messages have two levels and calls ask for two, on
  both sides of each other; the tables are exercised in full by `levels_documented`.
  NONE is asked for by a call only in `levels_none_at_runtime`: with it
  `ReportedIsEnforced` is false for the reason that run shows.
* `levels_any_use` uses the VIEW `BarAnswer`: the last answer plays no part in its
  invariants and none in any guard.
* `OneAppender` holds in every state: never two appenders, and one from the moment
  log4c is up. `NamelessLikeUnset` asks nothing before initialisation has succeeded,
  after a call has set `LOG.RDK`, or while `LOG.RDK` has no priority, because log4c
  failed to load and no line set it: pinning then leaves a module unset, and log4c asks
  its parent, which need not be `LOG.RDK`.
* *Threads.* The interactions are pairwise: a thread inside a stretch, another that
  tries, waits or closes. The theorems hold for any number.
* *MaxForks = 1.* A child of a child starts from a state of the same kind, an inherited
  socket; the theorems do not use the bound.
* *QueueSize = 2* lets a request be followed by a different one.
* *Pid* has two members for three processes, so that an id is used again after an exit
  and after a fork. *MaxSockets = 2* is no restriction: a path is used once, and there
  are two usable ones. `SocketMayFail` is FALSE in `control`, where a bind already fails
  for paths that exist or are too long; with TRUE the run also passes and takes half as
  long again.
* `control` is checked up to renaming of processes (SYMMETRY). They are model values,
  no expression tells them apart, and no liveness is checked there.
  `initialised` is a history no guard reads and none of that run's properties is about
  (but for its type), so it is left out of the VIEW (`BarHistory`).
* *Appenders.* Two blocks are as many as two categories can hold at once, and the
  third request finds none: running out of memory is always possible as well. Two
  targets tell an old file from a new one. One format is enough here, because the tables
  are proved (`LayoutsAsDocumented`); JOURNAL differs from SYSLOG in its destination
  only. Blocks and targets are model values no expression tells apart (SYMMETRY).
  `sent` is written by every step and read by none, so it is left out of the VIEW
  (`BarSent`); a refinement step is checked before the view is taken.
* *Text.* The sizes of the code are shrunk: 256 to `LineBuf = 4`, 1024 to `MaxBuf = 3`,
  64 to `NameMax = 2`, with texts long enough to overrun them twice. Only comparisons
  with these sizes occur in the code. The characters are one of each class the
  functions distinguish. A text of 7 characters holds two settings, or a line cut in
  three.
* *Tests.* Sizes are those of the code. A loop of equal calls is written once or
  twice. Instead of a liveness property the run checks deadlock: every behaviour
  either comes to `Over` or stops before it, since no step leads back to an earlier
  state.
* `control`, `control_stale_path` and `threads_signal` do not check deadlock: in the
  first two all processes may have exited, in the third the deadlock is the finding.
  Everywhere else it is checked.

Fairness (`FairSpec` of `LoggerThreads`). A thread inside the library keeps running (WF
of `Work`: system calls return, and log4c too); a thread waiting for a mutex that is
free again and again gets it in the end (SF of the three waits; the default pthread
mutex does not queue, but neither does a scheduler starve a thread for ever).
Nothing is assumed of the application, of `rdklogctrl` or of `fork`. `CallsReturn` says
that every call returns once the sender has fallen silent; that premise is needed, as
`threads_busy_sender` shows. What makes it true besides fairness is proved (section 4).

## 4. Proofs

`LoggerThreads_proofs`. Mutual exclusion is not inductive: that two threads are not in
one stretch says nothing of who owns the mutex. `Discipline` says that a thread owns a
mutex exactly in the stretches `Holds` names (`OwnersHold`), plus the calls a stretch
can belong to (`CallFits`). It is inductive by itself and gives `MutualExclusionHolds`
and `LockOrderHolds`. From the latter, `NoCircularWaitHolds`: along a chain "waits for a
mutex owned by" the numbers rise, so in no group of threads does each wait for
another of the group.

That nobody waits in a circle does not say that anybody gets on: the owner of a mutex
might have returned, or be gone. `NobodyStuckHolds` says it, for groups of threads: in
any group of threads in the library one can take its next step (`CanMove`) or waits
for a thread in the library outside the group. It assumes that fork comes only while no
thread is in the library, and that there are no signal handlers; without the first a
mutex may be lost (`NoMutexLost` has the same hypothesis), without the second there is
what `threads_signal` shows. `NobodyStuckUnlessLost`, of which it is a corollary, has no
such assumption: fork may come anywhere, and the statement holds in each state in which
no mutex has been lost and no handler runs. `CanMove` is a condition on the state.
That it is what the actions ask for is `CanMoveIsEnabled`, which gives the successor of such a state
explicitly, since ENABLED is out of the prover's reach.

`CallsRunDownHolds`: no call goes round for ever by itself. `StepsLeft` counts the steps a
call has left, and three for each datagram waiting; once the sender is silent each
step of a thread, and each datagram another takes, makes it smaller, and nothing makes
it larger (`StepGetsOn`). Together with `NobodyStuckHolds` this is all of `CallsReturn` but
the fairness: in each state someone can move, and everyone can move only so often.

The descriptor needs more. `Custody` says that there is at most one descriptor and it
is the one `g_dl_socket` names (`OneDescriptor`), that it is bound to the path of
`g_dl_socket_pid` outside `socket`...`bind` (`BoundToPid`), that at most one thread is
on the way to make a socket and none exists then (`OneMaker`), and that until
`isLogInited` is raised only the initialising thread has to do with it (`BeforeInit`).
`OneMaker` is what makes it safe that `rdk_dyn_log_init` overwrites `g_dl_socket` and
that the mutex is released at `src/rdk_dynamic_logger.c:104`: the thread that
has closed the inherited socket has left -1 behind, so nobody else takes that branch.
From it: `TypeCorrect`, `NoDescriptorLostHolds`, `DrainsOwnSocketHolds`,
`ConfiguredOnceHolds`. `RebindsAfterForkHolds` assumes `~ ForkAnywhere`, fork only while
no thread is in the library. Without the assumption it is false: the child inherits
`g_dl_request_mutex` without an owner and its trylock fails for ever. That this is the
only way is `RebindsUnlessLost`: fork may come anywhere, and unless that mutex is lost no
message of the child is logged before the parent's socket has been given up. This
corollary, `NobodyStuckHolds` and `NoMutexLost` apart, all theorems allow fork at any point.

`ImplementsProcessSocketHolds` needs one thing more, `Bindings`: a socket is bound to
nothing before `bind` and to the path of `g_dl_socket_pid` after it, that id is never a
later process's, and only an initialised process closes the socket in deinit. `BoundIs`
and `Alone` turn the three layers into what a step needs to know: whose the socket is,
and that the thread at work on it is the only one. There is then a lemma for each
action: most are not seen (`BystanderUnseen`, `UnseenSteps`), the others are the step of
`ProcessSocket` their name says (`DropSeen`, `ReceiveSeen`, ...). `socket` and `bind` are
one step of it, taken where the outcome is known (`SocketMade`). There is no hypothesis:
fork may come anywhere. A child forked while another thread was initialising can
never get `gInitMutex` and counts as initialised.

`LevelControl_proofs`. The invariant `Parsed` adds to the types what each step of the
parser has established: the lines already read are in force (`InForce`) and the
fallback is current outside the window between the two assignments. `ConfigWinsHolds`
and `FallbackIsRootHolds` follow for any categories, hierarchy, file and caller.
`ReportedIsEnforcedHolds` assumes `NONE \notin RuntimeLevels`; its extra invariant
`NeverUnknown` says that no category ever has the priority 1000. `ReportedUnlessUnknown`
drops the assumption: in a state where the two answers differ that priority is there.
`NamelessLikeUnsetHolds` rests on `Parsed` and on `RootFound`: once a name is looked up
`gRootCat` is `LOG.RDK`. `OneAppenderHolds` rests on `OneOutlet`: the categories that
keep messages to themselves all have an appender, of those that have one only `LOG.RDK`
passes messages on, and `LOG.RDK` has one from the moment log4c is up. What makes the
one appender one is then the shape of the tree (`TreeAssumption`): `OnlyOutlet` gives
at most one, `SomeOutlet` at least one. `WarnUntilInitHolds` rests on `Quiet`: until a
file is read, `LOG.RDK` has WARN from the moment log4c is up, the fallback and all that
was pinned to it WARN or nothing, and without log4c nothing has an appender.

`LevelPolicy_proofs`: `ImplementsPolicyHolds`, under `DocumentedUse`. `Documented`
says, until initialisation is over, what the lines read so far have come to: a module
no line names is unset (`ModulesFollowFile`), `LOG.RDK` has the level of the last DEFAULT
line or WARN (`RootFollowsFile`), and nothing was called or adjusted (`Orderly`). The
last step of `rdk_logger_init` maps to the policy's step that configures all modules
at once, the earlier ones to stutters; afterwards each call maps to the policy's call,
with `NeverUnknown` where a level is reported.

`RuntimeControl_proofs`. The mailbox is a count over a queue (`Asked`), a recursive
function; `AskedIs` and the three lemmas after it say what it does on an empty queue,
on Append and on Tail, by induction on the length. `Safe` says that a path and a socket belong
together for ever (`PathsDiffer`, `BoundAsMade`: a bound path is never rebound, two
paths never lead to one socket), that processes that run differ in their ids
(`Identified`), that only initialised processes hold sockets (`Opened`) and that one
that has given up the inherited socket has none until it makes its own (`Rebinders`).
From it: `TypeCorrect`, `OwnIsReachableHolds` and, action by action,
`ImplementsRemoteLevelsHolds`.

`LogAppenders_proofs`. That data fit the type of their appender is not inductive by
itself: a console call could retype an appender that holds rolling data, if it found
one. `Kinds` says that only names of files ever become rolling files, and with
`KindsApart` (a file's name is never a printer's) no console call touches data.
`OpenHasData` says that an open rolling file has data, which is what keeps the policy
bound. With them and the types, `Safe` is inductive for any categories, hierarchy,
names (shared ones included), targets and addresses: `TypeCorrect`,
`DataFitsTypeHolds`, `HeldOnceHolds`, `PolicyIsBoundHolds`. `LayoutsAsDocumented` and
`SyslogKeepsOrder` are about the tables.

`LogRouting_proofs`: `ImplementsRoutingHolds`, under `NamedUse`: no two categories
share a name of a file or a printer, and outputs and formats are those of the header.
`Routes` adds to `Safe` that a category is routed to an appender of its own name
(`RoutedByName`), of the type that name stands for (`TypedByName`), and that the
configured categories are where the walk up the tree stops (`PassedOnly`). With
`RootOnTop` the walk then meets one configured category, the nearest
(`NearestIsReached`, `NearestIsOne`).

`LogText_proofs`. `LogText` keeps one call and its result, so each property needs no
invariant but a theorem about the function called. Messages, categories, buffers and
words are of any length. `Buffers` and `Settings` are recursive functions: that such a
function is what its equation says is not a matter of course but a lemma (`Gathering`,
used for both), proved by building the function up to each size and showing that any two of these
agree. `TerminatorInsideHolds` then follows from the sizes of buffers (`BuffersFit`).
`ReadsAsWrittenHolds` goes from the end of the text to its beginning (`ReadToTheEnd`):
the loop always stands at the start of a line or, in a line too long for the buffer,
behind its last equals sign (`Boundary`, kept by `NextBoundary`); one buffer more then adds
one setting before the others, read as written (`OneThingSaid`), or none
(`NothingSaid`). `NoLateEquals` is the hypothesis the property has.

`NaturalLemmas`. The library's induction theorems take an operator and cannot be cited;
`Induction` takes a set instead. It rests on the library's theorem that strict
inclusion of finite sets is well-founded.

Assumptions on constants; TLC evaluates them on every run.

* Typing: `CategoryAssumption`, the two `InputAssumption`, `ThreadAssumption`,
  `BoundAssumption`, `ControlAssumption`, `AppenderAssumption`, `LineBufAssumption`,
  `NameMaxAssumption`, `MaxBufAssumption`. They also say that NULL, "no text" and the
  empty name are none of the values they stand beside, and that a clock's nanoseconds
  are fewer than a second's (`Reading`).
* `StringAssumption`: six literals are strings. True of TLA+, but the provers know
  nothing of `STRING`.
* `KindsApart` holds for categories of at most 125 characters.
* `TreeAssumption` and `RootOnTop`: LOG.RDK stands once above each of its modules, and
  `rdk_logger_ext_init` is called for LOG.RDK and what is below it, as the documents
  have it.
* The theorems of `LogAppenders_proofs` also assume `Outputs \subseteq Output`, the
  enumeration of the header.

`DocumentedUse` holds in `levels_documented` and `NamedUse` in `appenders`, so neither
hypothesis is empty.

Only model-checked: `CallsReturn`, because liveness and fairness are out of the
prover's reach (what it rests on besides fairness is the theorems above), and
`Expectations`, which is about 157 particular scripts and has no
parameter worth generalising: TLC goes through all of their behaviours. The
properties of the runs that expect a violation are false.

## 5. Where code and documents differ

Each has a run that reaches the disagreement; `PROJECT.json` quotes the lines.

1. `levels_none_at_runtime`: `rdk_logger_set_logLevel(m, RDK_LOG_NONE)` enables every
   message of `m` instead of none.
2. `levels_enabled_logged`: `rdk_dbg_enabled` and `RDK_LOG` use different fallbacks. (They
   also differ for the empty name, which is never enabled and printed as `LOG.RDK` is.)
3. `threads_signal`: the signal handler the documents recommend can wait for ever.
4. `threads_busy_sender`: the drain loop has no bound.
5. `control_stale_path`: the path of a dead process makes initialisation succeed
   without a control socket.

Met on the way, without a run of their own:

* `docs/README.md:196` says that messages before a successful initialisation are
  suppressed. Once an initialisation has failed because `debug.ini` could not be opened,
  log4c is set up all the same and messages of WARN and above reach the console.
  `WarnUntilInit` says what is printed then: these and no others, but of modules a call
  has set.
* `README.md:18` and `docs/README.md:415` say that a module `debug.ini` does not name
  inherits `LOG.RDK.DEFAULT`. One that logs before `LOG.RDK.DEFAULT` has been copied to
  `gRootPriority` keeps WARN: its first message pins it (`src/rdk_debug_priv.c:655`).
  `ImplementsPolicy` leaves such calls out (`DocumentedUse`), and `ConfigWins` is about
  the modules that a line names.
* The value ALL, which `unittests/sample_gtest_debug.ini:27,35` uses and
  `include/rdk_logger.h:56` documents, is not recognised and silences a module. No test
  notices: those of such modules log and assert nothing of what is printed, and
  `Expectations` asserts no more than they do.
* `docs/README.md:184-187` says that `rdk_logger_deinit` closes the socket. If another
  thread is between closing an inherited socket and making its own
  (`src/rdk_dynamic_logger.c:104-106`), the socket it makes then is there after
  `rdk_logger_deinit` has returned. `ProcessSocket` allows it (`Deinit` between
  `DropInherited` and `Rebind`).
* A child forked by another thread in the same place has no socket and will make
  none: `g_dl_socket` is -1 and `isLogInited` is up. In `RuntimeControl` such a child is
  in `initialised` without a socket (`InitialisedHasSocket`); `control_stale_path` finds
  the shorter way to that.
* A line of 255 characters that begins with "=" puts the terminator one byte behind
  `value` (`src/rdk_debug_priv.c:268-275`). `TerminatorInside` holds for every other
  line.
* `rdklogctrl` takes a word by its beginning (DEBUGX is DEBUG) and in capitals only;
  `debug.ini` takes whole words in any case. `AppliedAsMeant` says where they agree.
* A console appender that is open when `rdk_logger_ext_init` gives it the type syslog
  (`src/rdk_debug_priv.c:446-458`) is not closed, so `to_syslog_open` and its
  `openlog(NULL, LOG_PID, LOG_USER)` are never called for it; the records arrive without
  the process id.
* The code of a milestone is written as it comes, line breaks included; the onboarding
  log replaces them.
* `RDKLoggerConfigTest` ends each test with "Reset logger state"
  (`unittests/rdkLoggerConfigTest.cpp:66-67`), but deinit keeps `isLogInited`: in one
  process only the first file is ever read, and the assertions hold or fail by what
  that one says. `NullConfigFile` (128-132) expects `rdk_logger_init(NULL)` to succeed
  and `unittests/rdkloggerInit.cpp:31-37` expects it to fail; the former holds only
  after another test has initialised. This is why `UnitTests` runs each test alone.

Also: `rdk_logger_enable_logLevel` ignores its flag
(`src/rdk_debug.c:126`), so "disable" sets the level; `rdklogctrl` for
LOG.RDK.DEFAULT sets a category of that name which is nobody's parent, although
`docs/TROUBLESHOOTING.md:163-164` uses it; the form `~DEBUG` of
`docs/API_DOCUMENTATION.md:338-339` is rejected; a line `LOG.RDK = X` in `debug.ini` is
passed over; after `rdk_logger_deinit`, `rdk_logger_init` succeeds and makes no socket
(`src/rdk_logger_init.c:61`; `unittests/rdkloggerInit.cpp:28` says re-initialisation is
deliberately not supported); `rdklogctrl` reports "Sent message" also for a request
that waits in a socket only an unlogged child still holds, which the child discards.

## 6. Abstractions

* In `LevelControl` a line of `debug.ini` is a name and a setting; `ConfigText` says how
  they come from the text, and `UnitTests` uses the two together.
* What stands before the module or the message of a record is one symbol, "stamp"; its
  parts are `Fields` of `LogAppenders`.
* `LogAppenders` leaves the levels to `LevelControl` and the sizes and numbers of rolled
  files to log4c. A rolling file without data or in a directory that cannot be used
  does not open, and its record is lost without notice; the abstract specification
  allows that. Nobody looks at the result of `log4c_appender_close`
  (`src/rdk_debug_priv.c:465`); an appender it fails on still counts as open, so no file
  is opened for its new data, which is the case of a file that never becomes usable.
  The rolling policy's own data, which is replaced and never freed, is not modelled. The library is taken as built with syslog and systemd.
* `UnitTests` leaves out the six DISABLED tests, `NullConfigFile`, the two rotation tests
  that are compiled out, and assertions about times, memory, sizes of files and the
  text of messages. The half second the tests wait for `rdklogctrl` is no order:
  the command and the message run side by side.
* log4c's calls are atomic. In the code the parser calls log4c without `gLoggingMutex`,
  so log4c's own tables can be raced for; that is outside these models.
* One level per process in `RuntimeControl`; `LevelControl` has the per-module state.
  A name is either short or too long for a path. `rdklogctrl` refuses names from 65
  characters on, before the path becomes too long; for such a process no request is
  ever sent, which the model allows.
* A child whose process id equals the one its inherited socket is named after (the
  grandchild of a process that is gone) is left out of `RuntimeControl`'s `Fork`: such
  a process would take the socket for its own.
* `rdk_dyn_log_init` returns early for a NULL `__progname`, which does not happen with
  glibc.

## 7. What is left

Every invariant, action property and refinement of the runs has its theorem, but for
`Expectations`. Not done:

1. `ProcessSocket` follows one process through its forks and `RuntimeControl` has several
   at once, whose ids come back. That each of these takes the steps of `ProcessSocket` is
   seen by comparing the two, not by a theorem.
2. That a file of text and the settings `LevelControl` reads agree (`ConfigText` with
   `LevelControl`, as `UnitTests` joins them), for every text. `ReadsAsWrittenHolds` and
   `ConfigWinsHolds` are its two halves.
3. Liveness (`CallsReturn`) by proof.
