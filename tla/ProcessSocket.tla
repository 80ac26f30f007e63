---------------------------- MODULE ProcessSocket ----------------------------
(***************************************************************************)
(* The control socket of one process as other processes see it: every call *)
(* of the library is one step, but for the first RDK_LOG after a fork,     *)
(* which closes the inherited socket in one step and makes its own in      *)
(* another, with anything in between.  These are the steps RuntimeControl  *)
(* gives each of its processes; LoggerThreads implements them with threads *)
(* that interleave, locks that may be lost in a fork, and system calls     *)
(* that fail.                                                              *)
(***************************************************************************)
EXTENDS Integers, Sequences

CONSTANTS NoPid, Datagram

VARIABLES
  pid,           (* the process followed: a fork goes on in the child        *)
  isLogInited,
  bound,         (* whose path the socket is bound to, NoPid if there is none*)
  mailbox,       (* what waits in it, if it is the process's own             *)
  rebinding      (* has the inherited one been closed, and none made yet?    *)

vars == << pid, isLogInited, bound, mailbox, rebinding >>

(* A socket of the process's own, or none if a system call fails. *)
NewSocket == bound' \in {NoPid, pid} /\ mailbox' = << >>

Initialise ==
  /\ ~ isLogInited /\ isLogInited' = TRUE
  /\ NewSocket
  /\ UNCHANGED << pid, rebinding >>

DropInherited ==
  /\ bound \notin {NoPid, pid} /\ bound' = NoPid
  /\ ~ rebinding /\ rebinding' = TRUE
  /\ UNCHANGED << pid, isLogInited, mailbox >>

Rebind ==
  /\ rebinding /\ rebinding' = FALSE
  /\ NewSocket
  /\ UNCHANGED << pid, isLogInited >>

Receive ==
  /\ bound = pid /\ mailbox # << >> /\ mailbox' = Tail(mailbox)
  /\ UNCHANGED << pid, isLogInited, bound, rebinding >>

Deinit ==
  /\ isLogInited
  /\ bound' = NoPid /\ mailbox' = << >>
  /\ UNCHANGED << pid, isLogInited, rebinding >>

Arrive(d) ==
  /\ bound = pid /\ mailbox' = Append(mailbox, d)
  /\ UNCHANGED << pid, isLogInited, bound, rebinding >>

(* The child keeps the parent's socket, which is not its own.  One forked    *)
(* while another thread is in rdk_logger_init can never call it to the end,  *)
(* as if it had been initialised.                                            *)
Fork ==
  /\ pid' = pid + 1
  /\ isLogInited' \in {isLogInited, TRUE}
  /\ mailbox' = << >> /\ rebinding' = FALSE
  /\ UNCHANGED bound

Init ==
  /\ pid = 0 /\ isLogInited = FALSE
  /\ bound = NoPid /\ mailbox = << >> /\ rebinding = FALSE

Next ==
  \/ Initialise \/ Deinit
  \/ DropInherited \/ Rebind \/ Receive \/ Fork
  \/ \E d \in Datagram : Arrive(d)

Spec == Init /\ [][Next]_vars

=============================================================================
