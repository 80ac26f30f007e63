----------------------- MODULE RuntimeControl_proofs -----------------------
(***************************************************************************)
(* Control sockets for any number of processes, process ids, names,        *)
(* sockets and any size of queue: types, OwnIsReachable, and that          *)
(* RuntimeControl implements RemoteLevels.                                 *)
(***************************************************************************)
EXTENDS RuntimeControl, NaturalLemmas, SequenceTheorems, TLAPS

(* What Asked computes, datagram by datagram: f[n] is what the first n ask   *)
(* for.                                                                      *)
Counts(q, app, k, f) ==
  /\ f[0] = << >>
  /\ \A n \in 1 .. k : f[n] = IF q[n].app = app
                              THEN Append(f[n - 1], q[n].level) ELSE f[n - 1]

Datagrams == Seq(Request \cup {Junk})

(* Whoever sends it, a datagram names a program or none, and a level. *)
LEMMA Types ==
  \A d \in Request \cup {Junk} : d.app \in Name \cup {""} /\ d.level \in Level
<1>1. \A d \in Request : d.app \in Name /\ d.level \in Level
  BY DEF Request
<1>2. Junk.app = "" /\ Junk.level \in Level
  BY ControlAssumption DEF Junk
<1> QED  BY <1>1, <1>2

(* There is such a count, by induction on the number of datagrams. *)
LEMMA CountsExist ==
  ASSUME NEW q \in Datagrams, NEW app
  PROVE  \A k \in 0 .. Len(q) : \E f \in [0 .. k -> Seq(Level)] : Counts(q, app, k, f)
<1> DEFINE S == { k \in Nat : k <= Len(q) =>
                    \E f \in [0 .. k -> Seq(Level)] : Counts(q, app, k, f) }
<1>1. 0 \in S
  <2>1. Counts(q, app, 0, [n \in 0 .. 0 |-> << >>])
    BY DEF Counts
  <2>2. [n \in 0 .. 0 |-> << >>] \in [0 .. 0 -> Seq(Level)]
    OBVIOUS
  <2> QED  BY <2>1, <2>2
<1>2. ASSUME NEW k \in Nat, k \in S PROVE k + 1 \in S
  <2> SUFFICES ASSUME k + 1 <= Len(q)
               PROVE  \E f \in [0 .. (k + 1) -> Seq(Level)] : Counts(q, app, k + 1, f)
    OBVIOUS
  <2>1. PICK f \in [0 .. k -> Seq(Level)] : Counts(q, app, k, f)
    BY <1>2 DEF Datagrams
  <2>2. q[k + 1] \in Request \cup {Junk}
    BY DEF Datagrams
  <2>3. q[k + 1].level \in Level /\ f[k] \in Seq(Level)
    <3>1. q[k + 1].level \in Level
      BY <2>2, Types
    <3>2. k \in 0 .. k
      OBVIOUS
    <3> QED  BY <2>1, <3>1, <3>2
  <2> DEFINE last == IF q[k + 1].app = app
                     THEN Append(f[k], q[k + 1].level) ELSE f[k]
             g == [n \in 0 .. (k + 1) |-> IF n = k + 1 THEN last ELSE f[n]]
  <2>4. last \in Seq(Level)
    BY <2>3
  <2>5. g \in [0 .. (k + 1) -> Seq(Level)]
    <3> HIDE DEF last
    <3> QED  BY <2>1, <2>4
  <2>6. g[0] = << >>
    BY <2>1 DEF Counts
  <2>7. ASSUME NEW n \in 1 .. (k + 1)
        PROVE  g[n] = IF q[n].app = app THEN Append(g[n - 1], q[n].level) ELSE g[n - 1]
    <3>1. g[n - 1] = f[n - 1]
      BY <2>7
    <3>2. CASE n = k + 1
      BY <3>1, <3>2
    <3>3. CASE n # k + 1
      <4>1. n \in 1 .. k /\ g[n] = f[n]
        BY <2>7, <3>3
      <4> QED  BY <2>1, <3>1, <4>1 DEF Counts
    <3> QED  BY <3>2, <3>3
  <2> HIDE DEF g
  <2> QED  BY <2>5, <2>6, <2>7 DEF Counts
<1> HIDE DEF S
<1>3. Nat \subseteq S
  BY <1>1, <1>2, Induction
<1> QED  BY <1>3 DEF S, Datagrams

(* And there is one only: counts of queues that begin alike begin alike. *)
LEMMA CountsUnique ==
  ASSUME NEW q, NEW app, NEW k \in Nat, NEW r, NEW m \in 0 .. k,
         \A n \in 1 .. m : q[n] = r[n],
         NEW f, Counts(q, app, k, f), NEW g, Counts(r, app, m, g)
  PROVE  \A n \in 0 .. m : f[n] = g[n]
<1> DEFINE S == { n \in Nat : n <= m => f[n] = g[n] }
<1>1. 0 \in S
  BY DEF Counts
<1>2. ASSUME NEW n \in Nat, n \in S PROVE n + 1 \in S
  <2> SUFFICES ASSUME n + 1 <= m PROVE f[n + 1] = g[n + 1]
    OBVIOUS
  <2>1. n + 1 \in 1 .. m /\ n + 1 \in 1 .. k /\ (n + 1) - 1 = n /\ f[n] = g[n]
    BY <1>2
  <2> QED  BY <2>1 DEF Counts
<1> HIDE DEF S
<1>3. Nat \subseteq S
  BY <1>1, <1>2, Induction
<1> QED  BY <1>3 DEF S

(* Asked is the last of that count. *)
LEMMA AskedIs ==
  ASSUME NEW q \in Datagrams, NEW app
  PROVE  \E f \in [0 .. Len(q) -> Seq(Level)] :
           Counts(q, app, Len(q), f) /\ Asked(q, app) = f[Len(q)]
<1> DEFINE Step(f, n) == IF n = 0 THEN << >>
                         ELSE IF q[n].app = app THEN Append(f[n - 1], q[n].level)
                         ELSE f[n - 1]
           F == CHOOSE f : f = [n \in 0 .. Len(q) |-> Step(f, n)]
<1>1. Len(q) \in Nat
  BY DEF Datagrams
<1>2. PICK h \in [0 .. Len(q) -> Seq(Level)] : Counts(q, app, Len(q), h)
  <2>1. Len(q) \in 0 .. Len(q)
    BY <1>1
  <2> QED  BY <2>1, CountsExist
<1>3. h = [n \in 0 .. Len(q) |-> Step(h, n)]
  <2>1. ASSUME NEW n \in 0 .. Len(q) PROVE h[n] = Step(h, n)
    <3>1. CASE n = 0
      BY <1>2, <3>1 DEF Counts
    <3>2. CASE n # 0
      <4>1. n \in 1 .. Len(q)
        BY <1>1, <3>2
      <4> QED  BY <1>2, <3>2, <4>1 DEF Counts
    <3> QED  BY <3>1, <3>2
  <2> HIDE DEF Step
  <2> QED  BY <1>2, <2>1
<1>4. F = [n \in 0 .. Len(q) |-> Step(F, n)]
  BY <1>3
<1>5. Asked(q, app) = F[Len(q)]
  BY DEF Asked
<1> HIDE DEF F
<1>6. Counts(q, app, Len(q), F)
  <2>1. \A n \in 0 .. Len(q) : F[n] = Step(F, n)
    <3> HIDE DEF Step
    <3> QED  BY <1>4
  <2>2. F[0] = << >>
    BY <1>1, <2>1
  <2>3. ASSUME NEW n \in 1 .. Len(q)
        PROVE  F[n] = IF q[n].app = app
                      THEN Append(F[n - 1], q[n].level) ELSE F[n - 1]
    <3>1. n \in 0 .. Len(q) /\ n # 0
      BY <1>1
    <3>2. F[n] = Step(F, n)
      BY <2>1, <3>1
    <3> QED  BY <3>1, <3>2
  <2> QED  BY <2>2, <2>3 DEF Counts
<1>7. \A n \in 0 .. Len(q) : h[n] = F[n]
  BY <1>1, <1>2, <1>6, CountsUnique
<1> QED  BY <1>1, <1>2, <1>5, <1>7

(* Nothing is asked of an empty queue. *)
LEMMA AskedEmpty ==
  ASSUME NEW app
  PROVE  Asked(<< >>, app) = << >>
<1>1. << >> \in Datagrams /\ Len(<< >>) = 0
  BY DEF Datagrams
<1> QED  BY <1>1, AskedIs DEF Counts

(* What is asked for are levels. *)
LEMMA AskedType ==
  ASSUME NEW q \in Datagrams, NEW app
  PROVE  Asked(q, app) \in Seq(Level)
<1>1. Len(q) \in 0 .. Len(q)
  BY DEF Datagrams
<1> QED  BY <1>1, AskedIs

(* A datagram that arrives asks last. *)
LEMMA AskedAppend ==
  ASSUME NEW q \in Datagrams, NEW app, NEW d \in Request \cup {Junk}
  PROVE  Asked(Append(q, d), app) = IF d.app = app
                                    THEN Append(Asked(q, app), d.level)
                                    ELSE Asked(q, app)
<1> DEFINE r == Append(q, d)
<1>1. /\ r \in Datagrams /\ Len(q) \in Nat /\ Len(r) = Len(q) + 1
      /\ \A n \in 1 .. Len(q) : r[n] = q[n]
      /\ r[Len(q) + 1] = d
  BY DEF Datagrams
<1> HIDE DEF r
<1>2. PICK f : Counts(q, app, Len(q), f) /\ Asked(q, app) = f[Len(q)]
  BY AskedIs
<1>3. PICK g : Counts(r, app, Len(r), g) /\ Asked(r, app) = g[Len(r)]
  BY <1>1, AskedIs
<1>4. \A n \in 0 .. Len(q) : g[n] = f[n]
  <2>1. Len(q) \in 0 .. Len(r) /\ Len(r) \in Nat
    BY <1>1
  <2> QED  BY <1>1, <1>2, <1>3, <2>1, CountsUnique
<1>5. g[Len(r)] = IF d.app = app THEN Append(g[Len(q)], d.level) ELSE g[Len(q)]
  <2>1. Len(r) \in 1 .. Len(r) /\ Len(r) - 1 = Len(q) /\ r[Len(r)] = d
    BY <1>1
  <2> QED  BY <1>3, <2>1 DEF Counts
<1>6. g[Len(q)] = Asked(q, app)
  BY <1>1, <1>2, <1>4
<1> QED  BY <1>3, <1>5, <1>6 DEF r

(* A datagram that is taken out asked first. *)
LEMMA AskedTail ==
  ASSUME NEW q \in Datagrams, q # << >>, NEW app
  PROVE  /\ Tail(q) \in Datagrams /\ Head(q) \in Request \cup {Junk}
         /\ IF Head(q).app = app
            THEN /\ Asked(q, app) # << >>
                 /\ Head(Asked(q, app)) = Head(q).level
                 /\ Tail(Asked(q, app)) = Asked(Tail(q), app)
            ELSE Asked(q, app) = Asked(Tail(q), app)
<1> DEFINE t == Tail(q)
<1>1. /\ t \in Datagrams /\ Len(t) \in Nat /\ Len(q) = Len(t) + 1
      /\ \A n \in 1 .. Len(t) : t[n] = q[n + 1]
      /\ Head(q) = q[1] /\ Head(q) \in Request \cup {Junk}
  BY HeadTailProperties DEF Datagrams
<1> HIDE DEF t
<1>2. PICK f \in [0 .. Len(q) -> Seq(Level)] :
        Counts(q, app, Len(q), f) /\ Asked(q, app) = f[Len(q)]
  BY AskedIs
<1>3. PICK g \in [0 .. Len(t) -> Seq(Level)] :
        Counts(t, app, Len(t), g) /\ Asked(t, app) = g[Len(t)]
  BY <1>1, AskedIs
<1> DEFINE Shifted(n) == IF q[1].app = app
                         THEN /\ f[n + 1] # << >>
                              /\ Head(f[n + 1]) = q[1].level
                              /\ Tail(f[n + 1]) = g[n]
                         ELSE f[n + 1] = g[n]
           S == { n \in Nat : n <= Len(t) => Shifted(n) }
<1>4. ASSUME NEW n \in 0 .. Len(t)
      PROVE  /\ n + 1 \in 1 .. Len(q)
             /\ f[n + 1] = IF q[n + 1].app = app
                           THEN Append(f[n], q[n + 1].level) ELSE f[n]
  <2>1. n + 1 \in 1 .. Len(q) /\ (n + 1) - 1 = n
    BY <1>1
  <2> QED  BY <1>2, <2>1 DEF Counts
<1>5. 0 \in S
  <2>1. f[0 + 1] = IF q[0 + 1].app = app THEN Append(f[0], q[0 + 1].level) ELSE f[0]
    BY <1>1, <1>4
  <2>2. f[0] = << >> /\ g[0] = << >>
    BY <1>2, <1>3 DEF Counts
  <2>3. Shifted(0)
    BY <2>1, <2>2
  <2> QED  BY <2>3
<1>6. ASSUME NEW n \in Nat, n \in S PROVE n + 1 \in S
  <2> SUFFICES ASSUME n + 1 <= Len(t) PROVE Shifted(n + 1)
    OBVIOUS
  <2> DEFINE d == q[n + 2]
  <2>1. Shifted(n)
    BY <1>1, <1>6
  <2>2. n + 1 \in 0 .. Len(t) /\ n + 1 \in 1 .. Len(t) /\ (n + 1) + 1 = n + 2
        /\ n \in 0 .. Len(t) /\ (n + 1) - 1 = n /\ n + 1 \in 0 .. Len(q)
    BY <1>1
  <2>3. f[n + 2] = IF d.app = app THEN Append(f[n + 1], d.level) ELSE f[n + 1]
    BY <1>4, <2>2
  <2>4. t[n + 1] = d
    BY <1>1, <2>2
  <2>5. g[n + 1] = IF d.app = app THEN Append(g[n], d.level) ELSE g[n]
    BY <1>3, <2>2, <2>4 DEF Counts
  <2>6. f[n + 1] \in Seq(Level) /\ g[n] \in Seq(Level)
    BY <1>2, <1>3, <2>2
  <2> HIDE DEF d
  <2>7. CASE d.app = app
    <3>1. f[n + 2] # << >>
      <4>1. d \in Request \cup {Junk}
        BY <1>1, <2>2, <2>4, ElementOfSeq DEF Datagrams
      <4>2. d.level \in Level
        BY <4>1, Types
      <4>3. Append(f[n + 1], d.level) # << >>
        BY <2>6, <4>2, AppendProperties
      <4> QED  BY <2>3, <2>7, <4>3
    <3>2. CASE q[1].app = app
      <4>1. /\ Head(Append(f[n + 1], d.level)) = Head(f[n + 1])
            /\ Tail(Append(f[n + 1], d.level)) = Append(Tail(f[n + 1]), d.level)
        BY <2>1, <2>6, <3>2, HeadTailAppend
      <4> QED  BY <2>1, <2>2, <2>3, <2>5, <2>7, <3>1, <3>2, <4>1
    <3>3. CASE q[1].app # app
      BY <2>1, <2>2, <2>3, <2>5, <2>7, <3>3
    <3> QED  BY <3>2, <3>3
  <2>8. CASE d.app # app
    BY <2>1, <2>2, <2>3, <2>5, <2>8
  <2> QED  BY <2>7, <2>8
<1> HIDE DEF S, Shifted
<1>7. Nat \subseteq S
  BY <1>5, <1>6, Induction
<1>8. Shifted(Len(t))
  BY <1>1, <1>7 DEF S
<1> QED  BY <1>1, <1>2, <1>3, <1>8 DEF Shifted, t

-----------------------------------------------------------------------------
(* The inductive invariant.                                                  *)

(* Processes that run have ids of their own, and names. *)
Identified ==
  \A p \in Running : /\ pid[p] \in Pid /\ progname[p] \in Name
                     /\ \A q \in Running : pid[p] = pid[q] => p = q

(* Only a process that runs, and has been initialised or forked by one that  *)
(* was, has a socket.                                                        *)
Opened ==
  \A p \in Process : g_dl_socket[p] # NoSocket => p \in Running /\ isLogInited[p]

(* No two paths lead to the same socket. *)
PathsDiffer ==
  \A a, b \in Name \X Pid : path[a] = path[b] /\ path[a] # NoFile => a = b

(* A socket is bound where the process that made it had it bound: under the  *)
(* name of its holders and the id they remember, for no path is ever removed.*)
BoundAsMade ==
  \A p \in Running : g_dl_socket[p] # NoSocket =>
    path[<< progname[p], g_dl_socket_pid[p] >>] = g_dl_socket[p]

(* Who is about to make a socket has none, and has been initialised. *)
Rebinders ==
  \A p \in rebinding : isLogInited[p] /\ g_dl_socket[p] = NoSocket

(* What rdklogctrl remembers between looking up a name and sending. *)
CtlOK == ctl = Idle \/ ctl \in [pid : Pid, app : Name, level : Level]

Safe == /\ TypeOK /\ Identified /\ Opened /\ PathsDiffer /\ BoundAsMade
        /\ Rebinders /\ CtlOK

-----------------------------------------------------------------------------
(* NoSocket, NoPid and NoFile are none of what they stand in for. *)
LEMMA Constants ==
  /\ Pid \subseteq Nat /\ MaxSockets \in Nat /\ QueueSize \in Nat
  /\ NoSocket \notin Nat /\ NoPid \notin Pid /\ NoFile = 0
  /\ \A s \in Socket : s \in Nat /\ s # NoSocket /\ s # NoFile
<1>1. Pid \subseteq Nat \ {0} /\ MaxSockets \in Nat /\ QueueSize \in Nat
  BY Zenon, ControlAssumption
<1>2. -1 \notin Nat
  OBVIOUS
<1> QED  BY <1>1, <1>2 DEF NoSocket, NoPid, NoFile, Socket

(* What a process that runs can rely on. *)
LEMMA HasSocket ==
  ASSUME Safe, NEW p \in Process, g_dl_socket[p] # NoSocket
  PROVE  /\ p \in Running /\ isLogInited[p]
         /\ g_dl_socket[p] \in 1 .. made /\ g_dl_socket[p] \in Socket
         /\ g_dl_socket_pid[p] \in Pid /\ progname[p] \in Name
         /\ << progname[p], g_dl_socket_pid[p] >> \in Name \X Pid
         /\ path[<< progname[p], g_dl_socket_pid[p] >>] = g_dl_socket[p]
         /\ p \in Holders(g_dl_socket[p])
<1>1. p \in Running /\ isLogInited[p]
  BY DEF Safe, Opened
<1>2. g_dl_socket[p] \in 1 .. made /\ g_dl_socket_pid[p] \in Pid
  BY <1>1 DEF Safe, TypeOK
<1>3. made \in Nat /\ made <= MaxSockets /\ MaxSockets \in Nat
  <2>1. made \in 0 .. MaxSockets
    BY DEF Safe, TypeOK
  <2> QED  BY <2>1, Constants
<1>4. g_dl_socket[p] \in Socket
  BY <1>2, <1>3 DEF Socket
<1> QED  BY <1>1, <1>2, <1>4 DEF Safe, Identified, BoundAsMade, Holders

(* Closing empties a socket that nobody else holds, and no other. *)
LEMMA Without ==
  ASSUME Safe, NEW p \in Process
  PROVE  /\ QueuesWithout(p) \in [Socket -> Datagrams]
         /\ \A s \in Socket : /\ Len(QueuesWithout(p)[s]) <= QueueSize
                              /\ Holders(s) \subseteq {p} => QueuesWithout(p)[s] = << >>
         /\ \A q \in Process \ {p} : g_dl_socket[q] # NoSocket =>
              QueuesWithout(p)[g_dl_socket[q]] = queue[g_dl_socket[q]]
         /\ g_dl_socket[p] = NoSocket => QueuesWithout(p) = queue
<1>1. queue \in [Socket -> Datagrams] /\ \A s \in Socket : Len(queue[s]) <= QueueSize
  BY DEF Safe, TypeOK, Datagrams
<1>2. << >> \in Datagrams /\ Len(<< >>) <= QueueSize
  BY Constants DEF Datagrams
<1>3. \A s \in Socket : QueuesWithout(p)[s] =
                          IF Holders(s) \subseteq {p} THEN << >> ELSE queue[s]
  BY DEF QueuesWithout
<1>4. QueuesWithout(p) \in [Socket -> Datagrams]
  BY <1>1, <1>2 DEF QueuesWithout
<1>5. \A s \in Socket : Len(QueuesWithout(p)[s]) <= QueueSize
  BY <1>1, <1>2, <1>3
<1>6. \A q \in Process \ {p} : g_dl_socket[q] # NoSocket =>
        QueuesWithout(p)[g_dl_socket[q]] = queue[g_dl_socket[q]]
  BY <1>3, HasSocket
<1>7. g_dl_socket[p] = NoSocket => QueuesWithout(p) = queue
  <2> SUFFICES ASSUME g_dl_socket[p] = NoSocket PROVE QueuesWithout(p) = queue
    OBVIOUS
  <2>1. ASSUME NEW s \in Socket PROVE QueuesWithout(p)[s] = queue[s]
    <3>1. Holders(s) \subseteq {p} => Holders(s) = {}
      BY Constants DEF Holders
    <3> QED  BY <1>3, <3>1 DEF Safe, TypeOK
  <2> QED  BY <1>1, <1>4, <2>1
<1> QED  BY <1>3, <1>4, <1>5, <1>6, <1>7

(* A socket that a process drains is bound to its own name and id, and there *)
(* is one such process at most.                                              *)
LEMMA OwnPath ==
  ASSUME Safe, NEW p \in Process, Own(p)
  PROVE  /\ path[<< progname[p], pid[p] >>] = g_dl_socket[p]
         /\ << progname[p], pid[p] >> \in Name \X Pid
         /\ g_dl_socket[p] \in Socket
         /\ \A q \in Process : Own(q) /\ g_dl_socket[p] = g_dl_socket[q] => p = q
<1>1. \A r \in Process : Own(r) =>
        /\ r \in Running /\ g_dl_socket[r] \in Socket
        /\ << progname[r], pid[r] >> \in Name \X Pid
        /\ path[<< progname[r], pid[r] >>] = g_dl_socket[r]
  BY HasSocket DEF Own, Inherited
<1>2. ASSUME NEW q \in Process, Own(q), g_dl_socket[p] = g_dl_socket[q]
      PROVE  p = q
  <2> DEFINE a == << progname[p], pid[p] >>
             b == << progname[q], pid[q] >>
  <2>1. a \in Name \X Pid /\ b \in Name \X Pid /\ path[a] = path[b]
    BY <1>1, <1>2
  <2>2. path[a] # NoFile
    BY <1>1, Constants
  <2>3. a = b
    <3> HIDE DEF a, b
    <3> QED  BY <2>1, <2>2 DEF Safe, PathsDiffer
  <2> QED  BY <1>1, <1>2, <2>3 DEF Safe, Identified
<1> QED  BY <1>1, <1>2

(* The invariant is strong enough. *)
LEMMA SafeIsReachable == Safe => OwnIsReachable
BY OwnPath DEF OwnIsReachable

-----------------------------------------------------------------------------
(* Every step keeps the invariant.                                           *)

(* Safe holds before the first process starts. *)
LEMMA InitSafe == Init => Safe
<1> SUFFICES ASSUME Init PROVE Safe
  OBVIOUS
<1>1. Running = {} /\ \A s \in Socket : Holders(s) = {}
  BY DEF Init, Running, Holders
<1>2. /\ status \in [Process -> {"unborn", "running", "exited"}]
      /\ pid \in [Process -> Pid \cup {NoPid}]
      /\ progname \in [Process -> Name \cup {""}]
      /\ isLogInited \in [Process -> BOOLEAN]
      /\ g_dl_socket \in [Process -> 1 .. made \cup {NoSocket}]
      /\ g_dl_socket_pid \in [Process -> Pid \cup {NoPid}]
      /\ rebinding \subseteq Running /\ initialised \subseteq Running
  BY DEF Init
<1>3. level \in [Process -> Level]
  <2>1. FirstLevel \in Level
    BY Zenon, ControlAssumption
  <2> QED  BY <2>1 DEF Init
<1>4. /\ path \in [Name \X Pid -> 0 .. made] /\ made \in 0 .. MaxSockets
      /\ \A s \in Socket : queue[s] = << >> /\ Len(queue[s]) <= QueueSize
      /\ queue \in [Socket -> Seq(Request \cup {Junk})]
  <2>1. path \in [Name \X Pid -> 0 .. made] /\ made \in 0 .. MaxSockets
    <3>1. 0 \in 0 .. MaxSockets /\ NoFile \in 0 .. 0
      BY Constants
    <3> QED  BY <3>1 DEF Init
  <2>2. Len(<< >>) <= QueueSize /\ << >> \in Seq(Request \cup {Junk})
    BY Constants
  <2> QED  BY <2>1, <2>2 DEF Init
<1>5. TypeOK
  BY <1>1, <1>2, <1>3, <1>4 DEF TypeOK
<1>6. PathsDiffer
  BY DEF Init, PathsDiffer
<1>7. Opened
  BY DEF Init, Opened
<1>8. CtlOK /\ Rebinders
  BY DEF Init, CtlOK, Rebinders
<1> QED  BY <1>1, <1>5, <1>6, <1>7, <1>8 DEF Safe, Identified, BoundAsMade

(* A program starts: it has an id of its own and no socket. *)
LEMMA ExecSafe ==
  ASSUME Safe, NEW p \in Process, Exec(p)
  PROVE  Safe' /\ ~ Own(p)'
<1>1. PICK i \in FreePids, n \in Name : /\ pid' = Put(pid, p, i)
                                        /\ progname' = Put(progname, p, n)
  BY DEF Exec
<1>2. /\ status[p] = "unborn" /\ status' = Put(status, p, "running")
      /\ UNCHANGED << isLogInited, g_dl_socket, g_dl_socket_pid, rebinding,
                      level, path, queue, made, ctl, initialised >>
  BY DEF Exec, memory, kernel
<1>3. p \notin Running /\ g_dl_socket[p] = NoSocket
  BY <1>2 DEF Running, Safe, Opened
<1>4. /\ Running' = Running \cup {p}
      /\ i \in Pid /\ \A q \in Running : pid[q] # i
      /\ \A q \in Process : /\ pid'[q] = IF q = p THEN i ELSE pid[q]
                            /\ progname'[q] = IF q = p THEN n ELSE progname[q]
  BY <1>1, <1>2 DEF Safe, TypeOK, Running, Put, FreePids
<1>5. \A s \in Socket : Holders(s)' = Holders(s)
  BY <1>2, <1>3, <1>4, Constants DEF Holders
<1>6. /\ status' \in [Process -> {"unborn", "running", "exited"}]
      /\ pid' \in [Process -> Pid \cup {NoPid}]
      /\ progname' \in [Process -> Name \cup {""}]
  BY <1>1, <1>2, <1>4 DEF Safe, TypeOK, Put
<1>7. TypeOK'
  BY <1>2, <1>3, <1>4, <1>5, <1>6 DEF Safe, TypeOK
<1>8. Identified'
  BY <1>3, <1>4 DEF Safe, Identified, Running
<1>9. Opened' /\ PathsDiffer' /\ CtlOK' /\ Rebinders'
  BY <1>2, <1>4 DEF Safe, Opened, PathsDiffer, CtlOK, Rebinders
<1>10. BoundAsMade'
  BY <1>2, <1>3, <1>4 DEF Safe, BoundAsMade, Running
<1> QED  BY <1>2, <1>3, <1>7, <1>8, <1>9, <1>10 DEF Safe, Own, Inherited

(* A child has its parent's socket, under an id that is not its own. *)
LEMMA ForkSafe ==
  ASSUME Safe, NEW p \in Process, NEW q \in Process, Fork(p, q)
  PROVE  Safe' /\ ~ Own(q)'
<1>1. PICK i \in FreePids \ {g_dl_socket_pid[p]} : pid' = Put(pid, q, i)
  BY DEF Fork
<1>2. /\ p \in Running
      /\ status[q] = "unborn" /\ status' = Put(status, q, "running")
      /\ progname' = Put(progname, q, progname[p])
      /\ isLogInited' = Put(isLogInited, q, isLogInited[p])
      /\ g_dl_socket' = Put(g_dl_socket, q, g_dl_socket[p])
      /\ g_dl_socket_pid' = Put(g_dl_socket_pid, q, g_dl_socket_pid[p])
      /\ level' = Put(level, q, level[p])
      /\ initialised' \subseteq initialised \cup {q}
      /\ UNCHANGED << rebinding, path, queue, made, ctl >>
  BY DEF Fork, kernel
<1>3. q \notin Running /\ g_dl_socket[q] = NoSocket /\ p # q
  BY <1>2 DEF Running, Safe, Opened
<1>4. /\ Running' = Running \cup {q}
      /\ i \in Pid /\ \A r \in Running : pid[r] # i
      /\ i # g_dl_socket_pid[p]
  BY <1>1, <1>2 DEF Safe, TypeOK, Running, Put, FreePids
<1>5. \A r \in Process :
        /\ pid'[r] = IF r = q THEN i ELSE pid[r]
        /\ progname'[r] = IF r = q THEN progname[p] ELSE progname[r]
        /\ isLogInited'[r] = IF r = q THEN isLogInited[p] ELSE isLogInited[r]
        /\ g_dl_socket'[r] = IF r = q THEN g_dl_socket[p] ELSE g_dl_socket[r]
        /\ g_dl_socket_pid'[r] = IF r = q THEN g_dl_socket_pid[p]
                                 ELSE g_dl_socket_pid[r]
  BY <1>1, <1>2 DEF Safe, TypeOK, Put
<1>6. \A s \in Socket : Holders(s) \subseteq Holders(s)'
  BY <1>3, <1>4, <1>5, Constants DEF Holders, Running
<1>7. /\ status' \in [Process -> {"unborn", "running", "exited"}]
      /\ pid' \in [Process -> Pid \cup {NoPid}]
      /\ progname' \in [Process -> Name \cup {""}]
      /\ isLogInited' \in [Process -> BOOLEAN]
      /\ g_dl_socket' \in [Process -> 1 .. made' \cup {NoSocket}]
      /\ g_dl_socket_pid' \in [Process -> Pid \cup {NoPid}]
      /\ level' \in [Process -> Level]
  BY <1>1, <1>2, <1>4 DEF Safe, TypeOK, Put
<1>8. TypeOK'
  <2>1. \A r \in Running' : g_dl_socket'[r] # NoSocket => g_dl_socket_pid'[r] \in Pid
    BY <1>2, <1>4, <1>5 DEF Safe, TypeOK, Running
  <2>2. \A s \in Socket : /\ Len(queue'[s]) <= QueueSize
                          /\ Holders(s)' = {} => queue'[s] = << >>
    BY <1>2, <1>6 DEF Safe, TypeOK
  <2>3. rebinding' \subseteq Running' /\ initialised' \subseteq Running'
    BY <1>2, <1>4 DEF Safe, TypeOK
  <2> QED  BY <1>2, <1>7, <2>1, <2>2, <2>3 DEF Safe, TypeOK
<1>9. Identified'
  BY <1>2, <1>3, <1>4, <1>5 DEF Safe, Identified, Running
<1>10. Opened'
  BY <1>2, <1>3, <1>4, <1>5 DEF Safe, Opened, Running
<1>11. PathsDiffer' /\ CtlOK'
  BY <1>2 DEF Safe, PathsDiffer, CtlOK
<1>12. BoundAsMade'
  BY <1>2, <1>3, <1>4, <1>5 DEF Safe, BoundAsMade, Running
<1>13. Rebinders'
  BY <1>2, <1>3, <1>5 DEF Safe, TypeOK, Rebinders, Running
<1> QED  BY <1>4, <1>5, <1>8, <1>9, <1>10, <1>11, <1>12, <1>13 DEF Safe, Own, Inherited

(* Closing the socket, by exit, deinit or because it is the parent's. *)
LEMMA CloseSafe ==
  ASSUME Safe, NEW p \in Running,
         status' \in { status, Put(status, p, "exited") },
         g_dl_socket' = Put(g_dl_socket, p, NoSocket),
         queue' = QueuesWithout(p),
         rebinding' \subseteq rebinding \cup {p}, p \in rebinding' => isLogInited[p],
         initialised' \subseteq initialised,
         p \in rebinding' \cup initialised' => status' = status,
         UNCHANGED << pid, progname, isLogInited, g_dl_socket_pid, level, path,
                      made, ctl >>
  PROVE  Safe' /\ ~ Own(p)'
<1>1. p \in Process /\ p \in Running
  BY DEF Running
<1>2. Running' \subseteq Running /\ Running \ {p} \subseteq Running'
  BY DEF Running, Put, Safe, TypeOK
<1>3. \A r \in Process : g_dl_socket'[r] = IF r = p THEN NoSocket ELSE g_dl_socket[r]
  BY DEF Safe, TypeOK, Put
<1>4. Running' \subseteq Process
  BY DEF Running
<1>5. \A s \in Socket : Holders(s)' = {} => Holders(s) \subseteq {p}
  BY <1>1, <1>2, <1>3, Constants DEF Holders, Running
<1>6. TypeOK'
  <2>1. status' \in [Process -> {"unborn", "running", "exited"}]
    BY <1>1 DEF Safe, TypeOK, Put
  <2>2. g_dl_socket' \in [Process -> 1 .. made' \cup {NoSocket}]
    BY <1>1 DEF Safe, TypeOK, Put
  <2>3. \A r \in Running' : g_dl_socket'[r] # NoSocket => g_dl_socket_pid'[r] \in Pid
    BY <1>2, <1>3, <1>4 DEF Safe, TypeOK
  <2>4. /\ queue' \in [Socket -> Seq(Request \cup {Junk})]
        /\ \A s \in Socket : /\ Len(queue'[s]) <= QueueSize
                             /\ Holders(s)' = {} => queue'[s] = << >>
    BY <1>1, <1>5, Without DEF Datagrams
  <2>5. rebinding' \subseteq Running' /\ initialised' \subseteq Running'
    BY <1>1, <1>2 DEF Safe, TypeOK, Running
  <2> QED  BY <2>1, <2>2, <2>3, <2>4, <2>5 DEF Safe, TypeOK
<1>7. Identified'
  BY <1>2 DEF Safe, Identified
<1>8. Opened'
  <2>1. \A r \in Process : g_dl_socket'[r] # NoSocket => r \in Running \ {p}
    BY <1>3 DEF Safe, Opened
  <2> QED  BY <1>2, <1>3, <2>1 DEF Safe, Opened
<1>9. PathsDiffer' /\ CtlOK' /\ Rebinders'
  BY <1>1, <1>3 DEF Safe, TypeOK, PathsDiffer, CtlOK, Rebinders, Running
<1>10. BoundAsMade'
  BY <1>2, <1>3, <1>4 DEF Safe, BoundAsMade
<1> QED  BY <1>1, <1>3, <1>6, <1>7, <1>8, <1>9, <1>10 DEF Safe, Own

(* Making a socket, at initialisation or after a fork: a new one, bound to a *)
(* path nobody has, or none.  Whatever p had is closed.                      *)
LEMMA MakeSafe ==
  ASSUME Safe, NEW p \in Running, MakeSocket(p),
         isLogInited' = Put(isLogInited, p, TRUE),
         queue' = QueuesWithout(p),
         rebinding' = rebinding \ {p},
         initialised' \subseteq initialised \cup {p},
         UNCHANGED << status, pid, progname, level, ctl >>
  PROVE  /\ Safe'
         /\ \A r \in Process \ {p} : g_dl_socket'[r] = g_dl_socket[r]
                                       /\ g_dl_socket_pid'[r] = g_dl_socket_pid[r]
         /\ Own(p)' => queue'[g_dl_socket'[p]] = << >>
<1> DEFINE at == << progname[p], pid[p] >>
<1>1. p \in Process /\ p \in Running
  BY DEF Running
<1>2. Running' = Running /\ Running \subseteq Process
  BY DEF Running
<1>3. at \in Name \X Pid /\ pid[p] \in Pid
  BY <1>1 DEF Safe, Identified
<1>4. made \in Nat /\ made <= MaxSockets
  <2>1. made \in 0 .. MaxSockets
    BY DEF Safe, TypeOK
  <2> QED  BY <2>1, Constants
<1>5. \/ /\ path[at] = NoFile /\ made < MaxSockets /\ made' = made + 1
         /\ g_dl_socket' = Put(g_dl_socket, p, made + 1)
         /\ g_dl_socket_pid' = Put(g_dl_socket_pid, p, pid[p])
         /\ path' = Put(path, at, made + 1)
      \/ /\ g_dl_socket' = Put(g_dl_socket, p, NoSocket)
         /\ UNCHANGED << g_dl_socket_pid, path, made >>
  BY DEF MakeSocket
<1>6. /\ g_dl_socket \in [Process -> 1 .. made \cup {NoSocket}]
      /\ g_dl_socket_pid \in [Process -> Pid \cup {NoPid}]
      /\ path \in [Name \X Pid -> 0 .. made]
  BY DEF Safe, TypeOK
<1>7. /\ isLogInited' \in [Process -> BOOLEAN]
      /\ \A r \in Process : isLogInited'[r] = IF r = p THEN TRUE ELSE isLogInited[r]
  BY <1>1 DEF Safe, TypeOK, Put
<1>8. /\ queue' \in [Socket -> Seq(Request \cup {Junk})]
      /\ \A s \in Socket : /\ Len(queue'[s]) <= QueueSize
                           /\ Holders(s) \subseteq {p} => queue'[s] = << >>
  BY <1>1, Without DEF Datagrams
<1>9. /\ rebinding' \subseteq Running' /\ initialised' \subseteq Running'
      /\ status' \in [Process -> {"unborn", "running", "exited"}]
      /\ pid' \in [Process -> Pid \cup {NoPid}]
      /\ progname' \in [Process -> Name \cup {""}]
      /\ level' \in [Process -> Level]
  BY <1>1, <1>2 DEF Safe, TypeOK
<1>10. Identified' /\ CtlOK'
  BY <1>2 DEF Safe, Identified, CtlOK
<1> HIDE DEF at
<1>11. CASE /\ path[at] = NoFile /\ made < MaxSockets /\ made' = made + 1
            /\ g_dl_socket' = Put(g_dl_socket, p, made + 1)
            /\ g_dl_socket_pid' = Put(g_dl_socket_pid, p, pid[p])
            /\ path' = Put(path, at, made + 1)
  <2>1. /\ 1 .. made \subseteq 1 .. (made + 1) /\ 0 .. made \subseteq 0 .. (made + 1)
        /\ made + 1 \in 1 .. (made + 1) /\ made + 1 \in 0 .. (made + 1)
        /\ made' \in 0 .. MaxSockets /\ made + 1 \in Socket
        /\ made + 1 \notin 1 .. made /\ made + 1 \notin 0 .. made
        /\ made + 1 # NoSocket
    BY <1>4, <1>11, Constants DEF Socket
  <2>2. /\ g_dl_socket' \in [Process -> 1 .. made' \cup {NoSocket}]
        /\ g_dl_socket_pid' \in [Process -> Pid \cup {NoPid}]
        /\ path' \in [Name \X Pid -> 0 .. made']
    BY <1>1, <1>3, <1>6, <1>11, <2>1 DEF Put
  <2>3. /\ \A r \in Process :
             /\ g_dl_socket'[r] = IF r = p THEN made + 1 ELSE g_dl_socket[r]
             /\ g_dl_socket_pid'[r] = IF r = p THEN pid[p] ELSE g_dl_socket_pid[r]
        /\ \A a \in Name \X Pid : path'[a] = IF a = at THEN made + 1 ELSE path[a]
    BY <1>6, <1>11 DEF Put
  <2>4. \A s \in Socket : Holders(s)' = {} => Holders(s) \subseteq {p}
    BY <1>2, <2>3 DEF Holders
  <2>5. Holders(made + 1) = {}
    BY <1>2, <1>6, <2>1 DEF Holders
  <2>6. \A r \in Running' : g_dl_socket'[r] # NoSocket => g_dl_socket_pid'[r] \in Pid
    BY <1>2, <1>3, <2>3 DEF Safe, TypeOK
  <2>7. TypeOK'
    BY <1>7, <1>8, <1>9, <2>1, <2>2, <2>4, <2>6 DEF TypeOK
  <2>8. Opened'
    BY <1>1, <1>2, <1>7, <2>3 DEF Safe, Opened
  <2>9. PathsDiffer'
    <3>1. \A a \in Name \X Pid : path[a] # made + 1
      BY <1>6, <2>1
    <3> QED  BY <2>3, <3>1 DEF Safe, PathsDiffer
  <2>10. BoundAsMade'
    <3> SUFFICES ASSUME NEW r \in Running, g_dl_socket'[r] # NoSocket
                 PROVE  path'[<< progname[r], g_dl_socket_pid'[r] >>] = g_dl_socket'[r]
      BY <1>2 DEF BoundAsMade
    <3>1. CASE r = p
      BY <1>2, <1>3, <2>3, <3>1 DEF at
    <3>2. CASE r # p
      <4> DEFINE a == << progname[r], g_dl_socket_pid[r] >>
      <4>1. a \in Name \X Pid /\ path[a] = g_dl_socket[r] /\ g_dl_socket[r] \in Socket
        BY <1>2, <2>3, <3>2, HasSocket
      <4>2. a # at
        BY <1>11, <4>1, Constants
      <4> QED  BY <1>2, <2>3, <3>2, <4>1, <4>2
    <3> QED  BY <3>1, <3>2
  <2>11. queue'[g_dl_socket'[p]] = << >>
    BY <1>1, <1>8, <2>1, <2>3, <2>5
  <2>12. Rebinders'
    BY <1>2, <1>7, <2>3 DEF Safe, TypeOK, Rebinders
  <2> QED  BY <1>1, <1>10, <2>3, <2>7, <2>8, <2>9, <2>10, <2>11, <2>12 DEF Safe
<1>12. CASE /\ g_dl_socket' = Put(g_dl_socket, p, NoSocket)
            /\ UNCHANGED << g_dl_socket_pid, path, made >>
  <2>1. \A r \in Process : g_dl_socket'[r] = IF r = p THEN NoSocket ELSE g_dl_socket[r]
    BY <1>6, <1>12 DEF Put
  <2>2. g_dl_socket' \in [Process -> 1 .. made' \cup {NoSocket}]
    BY <1>1, <1>6, <1>12 DEF Put
  <2>3. \A s \in Socket : Holders(s)' = {} => Holders(s) \subseteq {p}
    BY <1>2, <2>1 DEF Holders
  <2>4. \A r \in Running' : g_dl_socket'[r] # NoSocket => g_dl_socket_pid'[r] \in Pid
    BY <1>2, <1>12, <2>1 DEF Safe, TypeOK
  <2>5. TypeOK'
    BY <1>7, <1>8, <1>9, <1>12, <2>2, <2>3, <2>4 DEF Safe, TypeOK
  <2>6. Opened'
    BY <1>1, <1>2, <1>7, <2>1 DEF Safe, Opened
  <2>7. PathsDiffer' /\ BoundAsMade'
    BY <1>2, <1>12, <2>1 DEF Safe, PathsDiffer, BoundAsMade
  <2>8. Rebinders'
    BY <1>2, <1>7, <2>1 DEF Safe, TypeOK, Rebinders
  <2> QED  BY <1>1, <1>10, <1>12, <2>1, <2>5, <2>6, <2>7, <2>8 DEF Safe, Own
<1> QED  BY <1>5, <1>11, <1>12

(* Everything else leaves processes, sockets and paths as they are. *)
LEMMA QuietSafe ==
  ASSUME Safe, queue' \in [Socket -> Datagrams],
         \A s \in Socket : /\ Len(queue'[s]) <= QueueSize
                           /\ Holders(s) = {} => queue'[s] = << >>,
         level' \in [Process -> Level], CtlOK', initialised' \subseteq initialised,
         UNCHANGED << status, pid, progname, memory, path, made >>
  PROVE  Safe' /\ \A p \in Process : Own(p)' = Own(p)
<1>1. Running' = Running /\ \A s \in Socket : Holders(s)' = Holders(s)
  BY DEF Running, Holders, memory
<1>2. TypeOK'
  BY <1>1 DEF Safe, TypeOK, memory, Datagrams
<1>3. Identified' /\ Opened' /\ PathsDiffer' /\ BoundAsMade' /\ Rebinders'
  BY <1>1 DEF Safe, Identified, Opened, PathsDiffer, BoundAsMade, Rebinders, memory
<1>4. \A p \in Process : Own(p)' = Own(p)
  BY <1>1 DEF Own, Inherited, memory
<1> QED  BY <1>2, <1>3, <1>4 DEF Safe

(* What queues hold, and the levels. *)
LEMMA QueueTypes ==
  ASSUME Safe
  PROVE  /\ queue \in [Socket -> Datagrams]
         /\ \A s \in Socket : /\ queue[s] \in Datagrams
                              /\ Len(queue[s]) \in Nat /\ Len(queue[s]) <= QueueSize
                              /\ Holders(s) = {} => queue[s] = << >>
         /\ level \in [Process -> Level]
<1>1. queue \in [Socket -> Datagrams] /\ level \in [Process -> Level]
  BY DEF Safe, TypeOK, Datagrams
<1>2. \A s \in Socket : queue[s] \in Datagrams /\ Len(queue[s]) \in Nat
  BY <1>1 DEF Datagrams
<1>3. \A s \in Socket : /\ Len(queue[s]) <= QueueSize
                        /\ Holders(s) = {} => queue[s] = << >>
  BY DEF Safe, TypeOK
<1> QED  BY <1>1, <1>2, <1>3

(* A datagram that arrives at a socket somebody holds. *)
LEMMA DeliverSafe ==
  ASSUME Safe, NEW at \in Name \X Pid, Accepts(at),
         NEW d \in Request \cup {Junk}, Deliver(at, d),
         CtlOK', UNCHANGED << status, pid, progname, memory, level, path, made,
                              initialised >>
  PROVE  /\ Safe' /\ path[at] \in Socket
         /\ \A s \in Socket : queue'[s] = IF s = path[at] THEN Append(queue[s], d)
                                          ELSE queue[s]
         /\ \A p \in Process : Own(p)' = Own(p)
<1>1. path[at] \in Socket
  <2>1. path[at] \in 0 .. made /\ made \in 0 .. MaxSockets /\ path[at] # NoFile
    BY DEF Safe, TypeOK, Accepts
  <2> QED  BY <2>1, Constants DEF Socket
<1> DEFINE s == path[at]
<1>2. s \in Socket /\ queue' = [queue EXCEPT ![s] = Append(queue[s], d)]
  BY <1>1 DEF Deliver, Put
<1>3. Holders(s) # {} /\ Len(queue[s]) < QueueSize
  BY DEF Accepts
<1> HIDE DEF s
<1>4. Append(queue[s], d) \in Datagrams /\ Len(Append(queue[s], d)) <= QueueSize
  <2>1. queue[s] \in Datagrams
    BY <1>2, QueueTypes
  <2>2. /\ Append(queue[s], d) \in Datagrams
        /\ Len(Append(queue[s], d)) = Len(queue[s]) + 1 /\ Len(queue[s]) \in Nat
    BY <2>1 DEF Datagrams
  <2> QED  BY <1>3, <2>2, Constants
<1>5. /\ queue' \in [Socket -> Datagrams]
      /\ \A t \in Socket : queue'[t] = IF t = s THEN Append(queue[t], d) ELSE queue[t]
  BY <1>2, <1>4, QueueTypes
<1>6. \A t \in Socket : /\ Len(queue'[t]) <= QueueSize
                        /\ Holders(t) = {} => queue'[t] = << >>
  BY <1>3, <1>4, <1>5, QueueTypes
<1>7. level' \in [Process -> Level] /\ initialised' \subseteq initialised
  BY QueueTypes
<1>8. Safe' /\ \A p \in Process : Own(p)' = Own(p)
  BY <1>5, <1>6, <1>7, QuietSafe
<1> QED  BY <1>1, <1>5, <1>8 DEF s

(* A datagram is taken out of a socket. *)
LEMMA ReceiveSafe ==
  ASSUME Safe, NEW p \in Process, Receive(p)
  PROVE  LET s == g_dl_socket[p]
             d == Head(queue[s])
         IN  /\ Safe' /\ s \in Socket /\ queue[s] \in Datagrams /\ queue[s] # << >>
             /\ \A t \in Socket : queue'[t] = IF t = s THEN Tail(queue[t]) ELSE queue[t]
             /\ level' = IF d.app = progname[p] THEN Put(level, p, d.level) ELSE level
             /\ \A q \in Process : Own(q)' = Own(q)
<1> DEFINE s == g_dl_socket[p]
           d == Head(queue[s])
<1>1. s \in Socket /\ queue[s] \in Datagrams /\ queue[s] # << >>
  BY HasSocket, QueueTypes DEF Receive, Own
<1>2. /\ queue' = [queue EXCEPT ![s] = Tail(queue[s])]
      /\ level' = IF d.app = progname[p] THEN Put(level, p, d.level) ELSE level
      /\ UNCHANGED << status, pid, progname, memory, path, made, ctl, initialised >>
  BY DEF Receive, Put
<1> HIDE DEF s
<1>3. /\ Tail(queue[s]) \in Datagrams /\ d \in Request \cup {Junk}
      /\ Len(Tail(queue[s])) <= QueueSize
  <2>1. /\ Tail(queue[s]) \in Datagrams /\ d \in Request \cup {Junk}
        /\ Len(Tail(queue[s])) = Len(queue[s]) - 1
    BY <1>1, HeadTailProperties DEF Datagrams
  <2>2. Len(queue[s]) \in Nat /\ Len(queue[s]) <= QueueSize
    BY <1>1, QueueTypes
  <2> QED  BY <2>1, <2>2, Constants
<1>4. d.level \in Level
  BY <1>3, Types
<1> HIDE DEF d
<1>5. level' \in [Process -> Level]
  BY <1>2, <1>4, QueueTypes DEF Put
<1>6. /\ queue' \in [Socket -> Datagrams]
      /\ \A t \in Socket : queue'[t] = IF t = s THEN Tail(queue[t]) ELSE queue[t]
  BY <1>1, <1>2, <1>3, QueueTypes
<1>7. Holders(s) # {}
  BY HasSocket DEF Receive, Own, s
<1>8. \A t \in Socket : /\ Len(queue'[t]) <= QueueSize
                        /\ Holders(t) = {} => queue'[t] = << >>
  BY <1>3, <1>6, <1>7, QueueTypes
<1>9. CtlOK' /\ initialised' \subseteq initialised
  BY <1>2 DEF Safe, CtlOK
<1>10. Safe' /\ \A q \in Process : Own(q)' = Own(q)
  BY <1>2, <1>5, <1>6, <1>8, <1>9, QuietSafe
<1> QED  BY <1>1, <1>2, <1>6, <1>10 DEF s, d

-----------------------------------------------------------------------------
(* RemoteLevels.                                                             *)

(* The mailbox of a process is what its own socket asks of it. *)
LEMMA MailboxIs ==
  /\ Mailbox = [p \in Process |-> Mailbox[p]]
  /\ \A p \in Process :
       Mailbox[p] = IF Own(p) THEN Asked(queue[g_dl_socket[p]], progname[p])
                    ELSE << >>
BY DEF Mailbox

(* A mailbox changes only where its socket, or who owns it, does. *)
LEMMA SameMailbox ==
  ASSUME NEW p \in Process, Own(p)' = Own(p),
         Own(p) => /\ progname'[p] = progname[p]
                   /\ queue'[g_dl_socket'[p]] = queue[g_dl_socket[p]]
  PROVE  Mailbox'[p] = Mailbox[p]
<1>1. Mailbox'[p] = IF Own(p)' THEN Asked(queue'[g_dl_socket'[p]], progname'[p])
                    ELSE << >>
  BY DEF Mailbox
<1>2. Mailbox[p] = IF Own(p) THEN Asked(queue[g_dl_socket[p]], progname[p])
                   ELSE << >>
  BY MailboxIs
<1>3. CASE Own(p)
  <2>1. Asked(queue'[g_dl_socket'[p]], progname'[p])
          = Asked(queue[g_dl_socket[p]], progname[p])
    BY <1>3
  <2> QED  BY <1>1, <1>2, <1>3, <2>1
<1>4. CASE ~ Own(p)
  BY <1>1, <1>2, <1>4
<1> QED  BY <1>3, <1>4

(* If one mailbox changes, and if none does. *)
LEMMA OneMailbox ==
  ASSUME NEW p \in Process, NEW x, Mailbox'[p] = x,
         \A q \in Process \ {p} : Mailbox'[q] = Mailbox[q]
  PROVE  Mailbox' = [Mailbox EXCEPT ![p] = x]
<1>1. Mailbox' = [q \in Process |-> Mailbox'[q]]
  BY DEF Mailbox
<1>2. Mailbox = [q \in Process |-> Mailbox[q]]
  BY MailboxIs
<1> QED  BY <1>1, <1>2

(* The latter. *)
LEMMA NoMailbox ==
  ASSUME \A q \in Process : Mailbox'[q] = Mailbox[q]
  PROVE  Mailbox' = Mailbox
<1>1. Mailbox' = [q \in Process |-> Mailbox'[q]]
  BY DEF Mailbox
<1>2. Mailbox = [q \in Process |-> Mailbox[q]]
  BY MailboxIs
<1> QED  BY <1>1, <1>2

(* A new process starts with an empty mailbox. *)
LEMMA ExecStarts ==
  ASSUME Safe, NEW p \in Process, Exec(p)
  PROVE  Safe' /\ Remote!Start(p)
<1>1. /\ status[p] = "unborn" /\ status' = Put(status, p, "running")
      /\ UNCHANGED << g_dl_socket, g_dl_socket_pid, level, queue >>
      /\ \E i, n : pid' = Put(pid, p, i) /\ progname' = Put(progname, p, n)
  BY DEF Exec, memory, kernel
<1>2. Safe' /\ ~ Own(p)' /\ ~ Own(p)
  BY <1>1, ExecSafe DEF Own, Running
<1>3. \A q \in Process \ {p} : /\ progname'[q] = progname[q]
                               /\ Own(q)' = Own(q)
  BY <1>1 DEF Own, Inherited, Running, Safe, TypeOK, Put
<1>4. Mailbox[p] = << >> /\ Mailbox'[p] = << >>
  BY <1>2, MailboxIs DEF Mailbox
<1>5. Mailbox' = Mailbox
  <2>1. \A q \in Process \ {p} : Mailbox'[q] = Mailbox[q]
    BY <1>1, <1>3, SameMailbox
  <2> QED  BY <1>4, <2>1, NoMailbox
<1>6. level' = [level EXCEPT ![p] = level[p]]
  BY <1>1 DEF Safe, TypeOK
<1> QED  BY <1>1, <1>2, <1>4, <1>5, <1>6 DEF Remote!Start, Remote!Put, Put

(* A child starts with an empty mailbox too: its socket is its parent's. *)
LEMMA ForkStarts ==
  ASSUME Safe, NEW p \in Process, NEW q \in Process, Fork(p, q)
  PROVE  Safe' /\ Remote!Start(q)
<1>1. /\ status[q] = "unborn" /\ status' = Put(status, q, "running")
      /\ \E i : pid' = Put(pid, q, i)
      /\ progname' = Put(progname, q, progname[p])
      /\ g_dl_socket' = Put(g_dl_socket, q, g_dl_socket[p])
      /\ g_dl_socket_pid' = Put(g_dl_socket_pid, q, g_dl_socket_pid[p])
      /\ level' = Put(level, q, level[p])
      /\ queue' = queue
  BY DEF Fork, kernel
<1>2. Safe' /\ ~ Own(q)' /\ ~ Own(q)
  BY <1>1, ForkSafe DEF Own, Running
<1>3. \A r \in Process \ {q} : /\ progname'[r] = progname[r]
                               /\ g_dl_socket'[r] = g_dl_socket[r]
                               /\ Own(r)' = Own(r)
  BY <1>1 DEF Own, Inherited, Running, Safe, TypeOK, Put
<1>4. Mailbox[q] = << >> /\ Mailbox'[q] = << >>
  BY <1>2, MailboxIs DEF Mailbox
<1>5. Mailbox' = Mailbox
  <2>1. \A r \in Process \ {q} : Mailbox'[r] = Mailbox[r]
    BY <1>1, <1>3, SameMailbox
  <2> QED  BY <1>4, <2>1, NoMailbox
<1> QED  BY <1>1, <1>2, <1>4, <1>5 DEF Remote!Start, Remote!Put, Put

(* Closing gives up the process's own mailbox and no other. *)
LEMMA CloseGivesUp ==
  ASSUME Safe, NEW p \in Running,
         status' \in { status, Put(status, p, "exited") },
         g_dl_socket' = Put(g_dl_socket, p, NoSocket),
         queue' = QueuesWithout(p),
         rebinding' \subseteq rebinding \cup {p}, p \in rebinding' => isLogInited[p],
         initialised' \subseteq initialised,
         p \in rebinding' \cup initialised' => status' = status,
         UNCHANGED << pid, progname, isLogInited, g_dl_socket_pid, level, path,
                      made, ctl >>
  PROVE  Safe' /\ Remote!GiveUp(p)
<1>1. Safe' /\ ~ Own(p)' /\ p \in Process
  BY CloseSafe DEF Running
<1>2. \A r \in Process \ {p} :
        /\ g_dl_socket'[r] = g_dl_socket[r]
        /\ Own(r)' = Own(r)
  BY DEF Own, Inherited, Running, Safe, TypeOK, Put
<1>3. \A r \in Process \ {p} : Own(r) =>
        queue'[g_dl_socket'[r]] = queue[g_dl_socket[r]]
  BY <1>1, <1>2, Without DEF Own
<1>4. \A r \in Process \ {p} : Mailbox'[r] = Mailbox[r]
  BY <1>2, <1>3, SameMailbox
<1>5. Mailbox'[p] = << >>
  BY <1>1 DEF Mailbox
<1>6. Mailbox' = [Mailbox EXCEPT ![p] = << >>]
  BY <1>1, <1>4, <1>5, OneMailbox
<1>7. status[p] = "running"
  BY DEF Running
<1> QED  BY <1>1, <1>6, <1>7 DEF Remote!GiveUp, Remote!Put, Put

(* A process without a socket of its own that makes one finds it empty. *)
LEMMA MakeIsQuiet ==
  ASSUME Safe, NEW p \in Running, ~ Own(p), MakeSocket(p),
         isLogInited' = Put(isLogInited, p, TRUE),
         queue' = QueuesWithout(p),
         rebinding' = rebinding \ {p},
         initialised' \subseteq initialised \cup {p},
         UNCHANGED << status, pid, progname, level, ctl >>
  PROVE  Safe' /\ Mailbox' = Mailbox
<1>1. /\ Safe' /\ p \in Process
      /\ \A r \in Process \ {p} : g_dl_socket'[r] = g_dl_socket[r]
                                    /\ g_dl_socket_pid'[r] = g_dl_socket_pid[r]
      /\ Own(p)' => queue'[g_dl_socket'[p]] = << >>
  BY MakeSafe DEF Running
<1>2. \A r \in Process \ {p} : Own(r)' = Own(r)
  BY <1>1 DEF Own, Inherited, Running
<1>3. \A r \in Process \ {p} : Own(r) =>
        queue'[g_dl_socket'[r]] = queue[g_dl_socket[r]]
  BY <1>1, Without DEF Own
<1>4. \A r \in Process \ {p} : Mailbox'[r] = Mailbox[r]
  BY <1>1, <1>2, <1>3, SameMailbox
<1>5. Mailbox'[p] = IF Own(p)' THEN Asked(queue'[g_dl_socket'[p]], progname'[p])
                    ELSE << >>
  BY <1>1 DEF Mailbox
<1>6. Mailbox'[p] = << >> /\ Mailbox[p] = << >>
  BY <1>1, <1>5, AskedEmpty, MailboxIs
<1> QED  BY <1>1, <1>4, <1>6, NoMailbox

(* A process that takes a datagram out of its own socket takes the first     *)
(* request, if that is one for it, and nobody else's.                        *)
LEMMA ReceiveApplies ==
  ASSUME Safe, NEW p \in Process, Receive(p)
  PROVE  Safe' /\ [Remote!Apply(p)]_(Remote!vars)
<1> DEFINE s == g_dl_socket[p]
           d == Head(queue[s])
<1>1. /\ Safe' /\ s \in Socket /\ queue[s] \in Datagrams /\ queue[s] # << >>
      /\ \A t \in Socket : queue'[t] = IF t = s THEN Tail(queue[t]) ELSE queue[t]
      /\ level' = IF d.app = progname[p] THEN Put(level, p, d.level) ELSE level
      /\ \A q \in Process : Own(q)' = Own(q)
  BY ReceiveSafe
<1>2. Own(p) /\ UNCHANGED << status, pid, progname, memory >>
  BY DEF Receive
<1>3. \A q \in Process \ {p} : Own(q) => queue'[g_dl_socket'[q]] = queue[g_dl_socket[q]]
  BY <1>1, <1>2, OwnPath, HasSocket DEF memory, Own
<1>4. \A q \in Process \ {p} : Mailbox'[q] = Mailbox[q]
  BY <1>1, <1>2, <1>3, SameMailbox
<1>5. Mailbox[p] = Asked(queue[s], progname[p])
  BY <1>2, MailboxIs
<1>6. Mailbox'[p] = Asked(Tail(queue[s]), progname[p])
  <2>1. Own(p)' /\ progname' = progname /\ g_dl_socket' = g_dl_socket
    BY <1>1, <1>2 DEF memory
  <2>2. Mailbox'[p] = Asked(queue'[s], progname[p])
    BY <2>1 DEF Mailbox
  <2> QED  BY <1>1, <2>2
<1>7. /\ IF d.app = progname[p]
         THEN /\ Mailbox[p] # << >>
              /\ Head(Mailbox[p]) = d.level
              /\ Tail(Mailbox[p]) = Mailbox'[p]
         ELSE Mailbox'[p] = Mailbox[p]
  BY <1>1, <1>5, <1>6, AskedTail
<1> HIDE DEF s, d
<1>8. CASE d.app = progname[p]
  <2>1. Mailbox' = [Mailbox EXCEPT ![p] = Tail(Mailbox[p])]
    BY <1>4, <1>7, <1>8, OneMailbox
  <2>2. level' = [level EXCEPT ![p] = Head(Mailbox[p])]
    BY <1>1, <1>7, <1>8 DEF Put
  <2>3. status[p] = "running" /\ status' = status
    BY <1>2 DEF Own, Running
  <2> QED  BY <1>1, <1>7, <1>8, <2>1, <2>2, <2>3 DEF Remote!Apply, Remote!Put
<1>9. CASE d.app # progname[p]
  <2>1. Mailbox' = Mailbox
    BY <1>4, <1>7, <1>9, NoMailbox
  <2> QED  BY <1>1, <1>2, <1>9, <2>1 DEF Remote!vars
<1> QED  BY <1>8, <1>9

(* A datagram goes to the mailbox of the process named by the path, if that  *)
(* process drains the socket, and to nobody's otherwise.                     *)
LEMMA DeliverRequests ==
  ASSUME Safe, NEW at \in Name \X Pid, Accepts(at),
         NEW d \in Request \cup {Junk}, d = Junk \/ d.app = at[1], Deliver(at, d),
         CtlOK', UNCHANGED << status, pid, progname, memory, level, path, made,
                              initialised >>
  PROVE  /\ Safe'
         /\ [\E p \in Process : Remote!Request(p, d.level)]_(Remote!vars)
<1>1. /\ Safe' /\ path[at] \in Socket
      /\ \A s \in Socket : queue'[s] = IF s = path[at] THEN Append(queue[s], d)
                                       ELSE queue[s]
      /\ \A p \in Process : Own(p)' = Own(p)
  BY DeliverSafe
<1>2. /\ progname' = progname /\ g_dl_socket' = g_dl_socket
      /\ status' = status /\ level' = level
  BY DEF memory
(* Who owns the socket is who the path names. *)
<1>3. ASSUME NEW p \in Process, Own(p), g_dl_socket[p] = path[at]
      PROVE  at = << progname[p], pid[p] >>
  <2> DEFINE a == << progname[p], pid[p] >>
  <2>1. path[a] = path[at] /\ a \in Name \X Pid /\ path[at] # NoFile
    BY <1>1, <1>3, OwnPath, Constants
  <2> HIDE DEF a
  <2>2. a = at
    BY <2>1 DEF Safe, PathsDiffer
  <2> QED  BY <2>2 DEF a
<1>4. ASSUME NEW p \in Process, Own(p) => g_dl_socket[p] # path[at]
      PROVE  Mailbox'[p] = Mailbox[p]
  <2>1. Own(p) => g_dl_socket[p] \in Socket
    BY OwnPath
  <2> QED  BY <1>1, <1>2, <1>4, <2>1, SameMailbox
<1>5. CASE \A p \in Process : Own(p) => g_dl_socket[p] # path[at]
  <2>1. Mailbox' = Mailbox
    BY <1>4, <1>5, NoMailbox
  <2> QED  BY <1>1, <1>2, <2>1 DEF Remote!vars
<1>6. CASE \E p \in Process : Own(p) /\ g_dl_socket[p] = path[at]
  <2>1. PICK p \in Process : Own(p) /\ g_dl_socket[p] = path[at]
    BY <1>6
  <2>2. at = << progname[p], pid[p] >>
    BY <1>3, <2>1
  <2>3. \A q \in Process \ {p} : Mailbox'[q] = Mailbox[q]
    <3>1. \A q \in Process \ {p} : Own(q) => g_dl_socket[q] # path[at]
      BY <2>1, OwnPath
    <3> QED  BY <1>4, <3>1
  <2> DEFINE s == path[at]
  <2>4. Mailbox[p] = Asked(queue[s], progname[p])
    BY <2>1, MailboxIs
  <2>5. Mailbox'[p] = Asked(Append(queue[s], d), progname[p])
    <3>1. Own(p)' /\ g_dl_socket'[p] = s
      BY <1>1, <1>2, <2>1
    <3>2. Mailbox'[p] = Asked(queue'[s], progname[p])
      BY <1>2, <3>1 DEF Mailbox
    <3> QED  BY <1>1, <3>2
  <2>6. Mailbox'[p] = IF d.app = progname[p] THEN Append(Mailbox[p], d.level)
                      ELSE Mailbox[p]
    <3>1. queue[s] \in Datagrams
      BY <1>1, QueueTypes
    <3>2. Asked(Append(queue[s], d), progname[p])
            = IF d.app = progname[p]
              THEN Append(Asked(queue[s], progname[p]), d.level)
              ELSE Asked(queue[s], progname[p])
      BY <3>1, AskedAppend
    <3> HIDE DEF s
    <3> QED  BY <2>4, <2>5, <3>2
  <2>7. CASE d = Junk
    <3>1. progname[p] \in Name /\ "" \notin Name
      BY <2>1, OwnPath, ControlAssumption, Zenon
    <3>2. d.app # progname[p]
      BY <2>7, <3>1 DEF Junk
    <3>3. Mailbox' = Mailbox
      BY <2>3, <2>6, <3>2, NoMailbox
    <3> QED  BY <1>1, <1>2, <3>3 DEF Remote!vars
  <2>8. CASE d.app = at[1]
    <3>1. d.app = progname[p]
      BY <2>2, <2>8
    <3>2. Mailbox' = [Mailbox EXCEPT ![p] = Append(Mailbox[p], d.level)]
      BY <2>3, <2>6, <3>1, OneMailbox
    <3>3. status[p] = "running"
      BY <2>1 DEF Own, Running
    <3>4. Remote!Request(p, d.level)
      BY <1>2, <3>2, <3>3 DEF Remote!Request, Remote!Put
    <3> QED  BY <1>1, <3>4
  <2> QED  BY <2>7, <2>8
<1> QED  BY <1>5, <1>6

(* Steps that leave queues and processes alone. *)
LEMMA QuietMailbox ==
  ASSUME Safe, level' \in [Process -> Level], CtlOK', initialised' \subseteq initialised,
         UNCHANGED << status, pid, progname, memory, kernel >>
  PROVE  Safe' /\ Mailbox' = Mailbox
<1>1. Safe' /\ \A p \in Process : Own(p)' = Own(p)
  <2>1. /\ queue' \in [Socket -> Datagrams]
        /\ \A s \in Socket : /\ Len(queue'[s]) <= QueueSize
                             /\ Holders(s) = {} => queue'[s] = << >>
    BY QueueTypes DEF kernel
  <2>2. UNCHANGED << status, pid, progname, memory, path, made >>
    BY DEF kernel
  <2> QED  BY <2>1, <2>2, QuietSafe
<1>2. \A p \in Process : Mailbox'[p] = Mailbox[p]
  BY <1>1, SameMailbox DEF memory, kernel
<1> QED  BY <1>1, <1>2, NoMailbox

(* Every step is a step of RemoteLevels, or changes nothing it speaks of. *)
LEMMA StepImplements ==
  ASSUME Safe, [Next]_vars
  PROVE  Safe' /\ [Remote!Next]_(Remote!vars)
<1> USE DEF Remote!Next
<1>1. ASSUME NEW p \in Process, Exec(p) PROVE Safe' /\ Remote!Next
  BY <1>1, ExecStarts
<1>2. ASSUME NEW p \in Process, NEW q \in Process, Fork(p, q)
      PROVE  Safe' /\ Remote!Next
  BY <1>2, ForkStarts
<1>3. ASSUME NEW p \in Process, Exit(p) PROVE Safe' /\ Remote!Next
  <2>1. Safe' /\ Remote!GiveUp(p)
    BY <1>3, CloseGivesUp DEF Exit
  <2> QED  BY <2>1
<1>4. ASSUME NEW p \in Process, RdkLoggerInit(p)
      PROVE  Safe' /\ UNCHANGED Remote!vars
  <2>1. CASE /\ ~ isLogInited[p] /\ isLogInited' = Put(isLogInited, p, TRUE)
             /\ MakeSocket(p) /\ initialised' = initialised \cup {p}
    <3>1. g_dl_socket[p] = NoSocket
      BY <2>1 DEF Safe, Opened
    <3>2. ~ Own(p) /\ QueuesWithout(p) = queue
      BY <3>1, Without DEF Own
    <3>3. rebinding' = rebinding \ {p}
      BY <1>4, <2>1 DEF Safe, Rebinders, RdkLoggerInit
    <3>4. Safe' /\ Mailbox' = Mailbox
      BY <1>4, <2>1, <3>2, <3>3, MakeIsQuiet DEF RdkLoggerInit
    <3> QED  BY <1>4, <3>4 DEF RdkLoggerInit, Remote!vars
  <2>2. CASE UNCHANGED << memory, path, made, initialised >>
    <3>1. Safe' /\ Mailbox' = Mailbox
      <4>1. level' \in [Process -> Level] /\ CtlOK' /\ initialised' \subseteq initialised
        BY <1>4, <2>2, QueueTypes DEF RdkLoggerInit, Safe, CtlOK
      <4> QED  BY <1>4, <2>2, <4>1, QuietMailbox DEF RdkLoggerInit, kernel
    <3> QED  BY <1>4, <3>1 DEF RdkLoggerInit, Remote!vars
  <2> QED  BY <1>4, <2>1, <2>2 DEF RdkLoggerInit
<1>5. ASSUME NEW p \in Process, Rebind(p)
      PROVE  Safe' /\ UNCHANGED Remote!vars
  <2>1. isLogInited' = Put(isLogInited, p, TRUE)
    BY <1>5 DEF Rebind, Rebinders, Put, Safe, TypeOK
  <2>2. p \in Running /\ ~ Own(p) /\ queue' = QueuesWithout(p)
    BY <1>5, Without DEF Rebind, Own, Rebinders, Safe, TypeOK
  <2>3. Safe' /\ Mailbox' = Mailbox
    BY <1>5, <2>1, <2>2, MakeIsQuiet DEF Rebind
  <2> QED  BY <1>5, <2>3 DEF Rebind, Remote!vars
<1>6. ASSUME NEW p \in Process, Receive(p)
      PROVE  Safe' /\ [Remote!Next]_(Remote!vars)
  BY <1>6, ReceiveApplies
<1>7. ASSUME NEW p \in Process, Deinit(p)
      PROVE  Safe' /\ [Remote!Next]_(Remote!vars)
  <2>1. CASE isLogInited[p]
    <3>1. Safe' /\ Remote!GiveUp(p)
      BY <1>7, <2>1, CloseGivesUp DEF Deinit
    <3> QED  BY <3>1
  <2>2. CASE ~ isLogInited[p]
    <3>1. level' \in [Process -> Level] /\ CtlOK' /\ initialised' \subseteq initialised
      BY <1>7, <2>2, QueueTypes DEF Deinit, Safe, CtlOK
    <3>2. Safe' /\ Mailbox' = Mailbox
      BY <1>7, <2>2, <3>1, QuietMailbox DEF Deinit, memory, kernel
    <3> QED  BY <1>7, <3>2 DEF Deinit, Remote!vars
  <2> QED  BY <2>1, <2>2
<1>8. ASSUME NEW p \in Process, NEW l \in Level, SetLevel(p, l)
      PROVE  Safe' /\ Remote!Next
  <2>1. level' = [level EXCEPT ![p] = l] /\ p \in Running
    BY <1>8 DEF SetLevel, Put
  <2>2. level' \in [Process -> Level] /\ CtlOK' /\ initialised' \subseteq initialised
    BY <1>8, <2>1, QueueTypes DEF SetLevel, Safe, CtlOK
  <2>3. Safe' /\ Mailbox' = Mailbox
    BY <1>8, <2>2, QuietMailbox DEF SetLevel
  <2>4. Remote!Set(p, l)
    BY <1>8, <2>1, <2>3 DEF SetLevel, Remote!Set, Remote!Put, Running
  <2> QED  BY <2>3, <2>4
<1>9. ASSUME NEW i \in Pid, NEW l \in Level, Resolve(i, l)
      PROVE  Safe' /\ UNCHANGED Remote!vars
  <2>1. CtlOK'
    BY <1>9 DEF Resolve, Safe, Identified, CtlOK
  <2>2. level' \in [Process -> Level] /\ initialised' \subseteq initialised
    BY <1>9, QueueTypes DEF Resolve
  <2>3. Safe' /\ Mailbox' = Mailbox
    BY <1>9, <2>1, <2>2, QuietMailbox DEF Resolve
  <2> QED  BY <1>9, <2>3 DEF Resolve, Remote!vars
<1>10. ASSUME Send PROVE Safe' /\ [Remote!Next]_(Remote!vars)
  <2> DEFINE at == << ctl.app, ctl.pid >>
             d == [app |-> ctl.app, level |-> ctl.level]
  <2>1. ctl \in [pid : Pid, app : Name, level : Level]
    BY <1>10 DEF Send, Safe, CtlOK
  <2>2. at \in Name \X Pid /\ d \in Request /\ d.app = at[1] /\ d.level \in Level
    BY <2>1 DEF Request
  <2>3. CtlOK' /\ UNCHANGED << status, pid, progname, memory, level, path, made,
                               initialised >>
    BY <1>10 DEF Send, CtlOK
  <2>4. CASE Accepts(at) /\ Deliver(at, d)
    <3> HIDE DEF at, d
    <3>1. Safe' /\ [\E p \in Process : Remote!Request(p, d.level)]_(Remote!vars)
      BY <2>2, <2>3, <2>4, DeliverRequests
    <3> QED  BY <2>2, <3>1
  <2>5. CASE UNCHANGED queue
    <3>1. level' \in [Process -> Level] /\ initialised' \subseteq initialised
      BY <2>3, QueueTypes
    <3>2. Safe' /\ Mailbox' = Mailbox
      BY <2>3, <2>5, <3>1, QuietMailbox DEF kernel
    <3> QED  BY <2>3, <3>2 DEF Remote!vars
  <2> QED  BY <1>10, <2>4, <2>5 DEF Send
<1>11. ASSUME NEW at \in Name \X Pid, Noise(at)
       PROVE  Safe' /\ [Remote!Next]_(Remote!vars)
  <2>1. CtlOK'
    BY <1>11 DEF Noise, Safe, CtlOK
  <2>2. Junk.level \in Level
    BY Types
  <2>3. Safe' /\ [\E p \in Process : Remote!Request(p, Junk.level)]_(Remote!vars)
    BY <1>11, <2>1, DeliverRequests DEF Noise
  <2> QED  BY <2>2, <2>3
<1>12. ASSUME NEW p \in Process, DropInherited(p) PROVE Safe' /\ Remote!Next
  <2>1. isLogInited[p]
    BY <1>12, HasSocket DEF DropInherited, Inherited
  <2>2. Safe' /\ Remote!GiveUp(p)
    BY <1>12, <2>1, CloseGivesUp DEF DropInherited
  <2> QED  BY <2>2
<1>13. CASE UNCHANGED vars
  <2>1. level' \in [Process -> Level] /\ CtlOK' /\ initialised' \subseteq initialised
    BY <1>13, QueueTypes DEF vars, Safe, CtlOK
  <2>2. Safe' /\ Mailbox' = Mailbox
    BY <1>13, <2>1, QuietMailbox DEF vars, memory, kernel
  <2> QED  BY <1>13, <2>2 DEF vars, Remote!vars
<1> QED
  BY <1>1, <1>2, <1>3, <1>4, <1>5, <1>6, <1>7, <1>8, <1>9, <1>10, <1>11, <1>12,
     <1>13
  DEF Next

(* The invariant holds. *)
LEMMA SafeHolds == Spec => []Safe
<1>1. Safe /\ [Next]_vars => Safe'
  BY StepImplements
<1> QED  BY InitSafe, <1>1, PTL DEF Spec

-----------------------------------------------------------------------------
(* The types of the state of processes, sockets and paths. *)
THEOREM TypeCorrect == Spec => []TypeOK
<1>1. Safe => TypeOK
  BY DEF Safe
<1> QED  BY <1>1, SafeHolds, PTL

(* A socket that a process drains is the one rdklogctrl reaches under that   *)
(* process's name and id, and no other process drains it, whatever forks,    *)
(* exits and reused process ids came before.                                 *)
THEOREM OwnIsReachableHolds == Spec => []OwnIsReachable
BY SafeIsReachable, SafeHolds, PTL

(* Each process is changed only by requests addressed to it, each request is *)
(* applied by one process, in the order they came, and none disappears       *)
(* unless its addressee closes the socket.                                   *)
THEOREM ImplementsRemoteLevelsHolds == Spec => ImplementsRemoteLevels
<1>1. Init => Remote!Init
  <2> SUFFICES ASSUME Init PROVE Remote!Init
    OBVIOUS
  <2>1. \A p \in Process : ~ Own(p)
    BY DEF Init, Own, Running
  <2>2. Mailbox = [p \in Process |-> << >>]
    BY <2>1 DEF Mailbox
  <2> QED  BY <2>2 DEF Init, Remote!Init
<1>2. Safe /\ [Next]_vars => [Remote!Next]_(Remote!vars)
  BY StepImplements
<1> QED  BY <1>1, <1>2, SafeHolds, PTL DEF Spec, ImplementsRemoteLevels, Remote!Spec

=============================================================================
